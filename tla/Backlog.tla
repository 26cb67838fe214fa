------------------------------- MODULE Backlog -------------------------------
(***************************************************************************)
(* jsonrpc-backlog (package/backlog/backlog/backlog.cpp): records the      *)
(* requests and notifications that pass through it and replays the record  *)
(* on demand.                                                              *)
(*                                                                         *)
(* In server mode it records everything, always, and forwards everything.  *)
(* In client mode it records while the link of its target is down          *)
(* (_active) and forwards while it is up; when the link comes up it posts  *)
(* a restore to the workflow, whose callback truncates the record.         *)
(*                                                                         *)
(* Every message is a call of perform_incoming (perform_outgoing does the  *)
(* same) on a thread of its own. A call reads the atomic _active twice,    *)
(* without the mutex. The mutex protects the files and _lock_flag; a       *)
(* restore holds it from its beginning to the end of the file.             *)
(*                                                                         *)
(* The record is made of three parts: _ss, where records wait while        *)
(* somebody holds the "lock", the buffer of the output stream, and the     *)
(* file.                                                                   *)
(***************************************************************************)
EXTENDS Naturals, Sequences, FiniteSets, Functions

CONSTANTS
  Messages,    \* the messages; each passes once
  Replies,     \* those that are neither a request nor a notification
  ClientMode,  \* _client_mode
  LinkJobs,    \* restores posted when the link comes up: bounds their number
  AppJobs,     \* restores asked for by an application, without a callback
  MaxLocks,    \* bound on the successful calls of lock()
  MaxCrashes,  \* bound on the restarts of the process
  Env          \* the events of the environment that may occur

Events == {"suspend", "lock", "rotate", "restore", "cancel", "link", "stop", "crash"}

ASSUME MessagesAssumption == Replies \subseteq Messages
ASSUME ModeAssumption == ClientMode \in BOOLEAN
ASSUME BoundsAssumption == MaxLocks \in Nat /\ MaxCrashes \in Nat
ASSUME EnvAssumption == Env \subseteq Events

ASSUME JobsAssumption == LinkJobs \cap AppJobs = {} /\ (~ClientMode => LinkJobs = {})

Jobs == LinkJobs \cup AppJobs

VARIABLES
  pc,         \* how far the call of each message is
  active,     \* _active
  suspended,  \* the domain is suspended
  locked,     \* _lock_flag
  ss,         \* _ss: the records that were written while it was set
  buffer,     \* records handed to _filelog and not yet in the file
  file,       \* the records in the file
  pos,        \* the next line of the file it reads
  job,        \* how far each restore is; while it reads it holds _mutex
  link,       \* the link of the target is up
  stopping,   \* the global stop flag
  locks, crashes,  \* calls of lock() and restarts so far
  \* What has happened, for the properties:
  direct,     \* written with the lock open, or released by it, and not truncated
  deferred,   \* written while the lock was held, not yet released
  durable,    \* written with the lock open and not truncated
  forwarded,  \* passed to the target by their own call
  replayed,   \* passed to the restore target by a restore
  owed,       \* what the last restore found recorded when it began
  crossed,    \* calls that were in progress when the link was lost
  skipped,    \* not recorded because the domain was suspended
  stranded,   \* passed to the target, by a call or a restore, while its link was down
  rotated,    \* truncated
  late,       \* recorded between the end of a restore and its callback
  cut         \* not read by a restore of the link when the program was stopped

calls == <<pc, forwarded, crossed, skipped, stranded>>
record == <<ss, buffer, file, direct, deferred, durable, rotated, late>>
restores == <<pos, job, replayed, owed, cut>>
bounds == <<locks, crashes>>
vars == <<active, suspended, locked, link, stopping, calls, record, restores, bounds>>

CallStates == {"idle", "record", "write", "check", "forward", "done"}
JobStates == {"none", "posted", "reading", "callback", "done", "cancelled"}

\* Only a restore keeps the mutex from one step to the next.
MutexFree == \A j \in Jobs : job[j] # "reading"

\* What a restore that begins now ought to find.
Recorded == Range(file) \cup Range(buffer) \cup (IF locked THEN Range(ss) ELSE {})

-----------------------------------------------------------------------------
Init ==
  /\ pc = [m \in Messages |-> "idle"]
  /\ active = ~ClientMode
  /\ suspended = FALSE
  /\ locked = FALSE
  /\ ss = <<>> /\ buffer = <<>> /\ file = <<>>
  /\ pos = 1
  /\ job = [j \in Jobs |-> "none"]
  /\ link = FALSE
  /\ stopping = FALSE
  /\ locks = 0 /\ crashes = 0
  /\ direct = {} /\ deferred = {} /\ durable = {}
  /\ forwarded = {} /\ replayed = {} /\ owed = {}
  /\ crossed = {} /\ skipped = {} /\ stranded = {} /\ rotated = {} /\ late = {}
  /\ cut = {}

-----------------------------------------------------------------------------
(* perform_incoming and write_incoming_ *)

\* The first reading of _active.
Arrive(m) ==
  /\ pc[m] = "idle"
  /\ pc' = [pc EXCEPT ![m] = IF active /\ m \notin Replies THEN "record" ELSE "check"]
  /\ UNCHANGED <<active, suspended, locked, link, stopping, forwarded, crossed,
                 skipped, stranded, record, restores, bounds>>

\* A suspended backlog records nothing.
Record(m) ==
  /\ pc[m] = "record"
  /\ pc' = [pc EXCEPT ![m] = IF suspended THEN "check" ELSE "write"]
  /\ skipped' = IF suspended THEN skipped \cup {m} ELSE skipped
  /\ UNCHANGED <<active, suspended, locked, link, stopping, forwarded, crossed,
                 stranded, record, restores, bounds>>

\* Under the lock the record waits in _ss; otherwise it is put into the stream.
Writing(m, Put) ==
  /\ pc[m] = "write"
  /\ MutexFree
  /\ pc' = [pc EXCEPT ![m] = "check"]
  /\ \/ /\ locked
        /\ ss' = Append(ss, m)
        /\ deferred' = deferred \cup {m}
        /\ UNCHANGED <<buffer, file, direct, durable>>
     \/ /\ ~locked
        /\ Put
        /\ direct' = direct \cup {m}
        /\ durable' = durable \cup {m}
        /\ UNCHANGED <<ss, deferred>>
  /\ late' = IF \E j \in Jobs : job[j] = "callback" THEN late \cup {m} ELSE late
  /\ UNCHANGED <<active, suspended, locked, link, stopping, forwarded, crossed,
                 skipped, stranded, rotated, restores, bounds>>

\* A slip: '\n' for std::endl.
WriteUnflushed(m) == Writing(m, buffer' = Append(buffer, m) /\ UNCHANGED file)

\* std::endl flushes the record, and what the stream had buffered before it.
Write(m) == Writing(m, buffer' = <<>> /\ file' = Append(file \o buffer, m))

\* In client mode the target is the connection whose link goes up and down.
Strand(m) ==
  stranded' = IF ClientMode /\ ~link THEN stranded \cup {m} ELSE stranded

\* The second reading of _active.
Check(m) ==
  /\ pc[m] = "check"
  /\ pc' = [pc EXCEPT ![m] = IF ~ClientMode \/ ~active THEN "forward" ELSE "done"]
  /\ UNCHANGED <<active, suspended, locked, link, stopping, forwarded, crossed,
                 skipped, stranded, record, restores, bounds>>

\* The call of the target, whatever has become of _active since.
Forward(m) ==
  /\ pc[m] = "forward"
  /\ pc' = [pc EXCEPT ![m] = "done"]
  /\ forwarded' = forwarded \cup {m}
  /\ Strand(m)
  /\ UNCHANGED <<active, suspended, locked, link, stopping, crossed, skipped,
                 record, restores, bounds>>

-----------------------------------------------------------------------------
(* lock, unlock, rotate: the interface of the application objects *)

Lock ==
  /\ "lock" \in Env /\ locks < MaxLocks
  /\ MutexFree
  /\ ~locked
  /\ locked' = TRUE
  /\ locks' = locks + 1
  /\ UNCHANGED <<active, suspended, link, stopping, crashes, calls, record, restores>>

\* A slip: the flag is cleared and _ss stays where it is.
ReleaseFlagOnly ==
  /\ locked' = FALSE
  /\ direct' = direct \cup deferred
  /\ deferred' = {}
  /\ UNCHANGED <<ss, buffer, file, durable, rotated, late>>

\* _filelog << _ss.str(): all of _ss goes to the stream, which keeps it in its
\* buffer or, when it does not fit, writes it out. _ss keeps its contents.
ReleaseLock ==
  /\ locked' = FALSE
  /\ \/ buffer' = buffer \o ss /\ UNCHANGED file
     \/ buffer' = <<>> /\ file' = (file \o buffer) \o ss
  /\ direct' = direct \cup deferred
  /\ deferred' = {}
  /\ UNCHANGED <<ss, durable, rotated, late>>

Unlock ==
  /\ "lock" \in Env
  /\ MutexFree
  /\ locked
  /\ ReleaseLock
  /\ UNCHANGED <<active, suspended, link, stopping, bounds, calls, restores>>

\* The stream is closed, which flushes it, and opened again with trunc.
Truncate ==
  /\ MutexFree
  /\ file' = <<>> /\ buffer' = <<>>
  /\ direct' = {} /\ durable' = {}
  /\ rotated' = rotated \cup Range(file) \cup Range(buffer)
  /\ UNCHANGED <<ss, deferred, late>>

Rotate ==
  /\ "rotate" \in Env
  /\ Truncate
  /\ UNCHANGED <<active, suspended, locked, link, stopping, bounds, calls, restores>>

-----------------------------------------------------------------------------
(* restore, async_restore, restore_cancel and the proxy's reg_io, unreg_io *)

Post(j) ==
  /\ job[j] = "none"
  /\ job' = [job EXCEPT ![j] = "posted"]
  /\ UNCHANGED <<pos, replayed, owed, cut>>

RequestRestore(j) ==
  /\ "restore" \in Env
  /\ Post(j)
  /\ UNCHANGED <<active, suspended, locked, link, stopping, calls, record, bounds>>

\* A slip: reg_io ends the recording and posts nothing.
LinkUpOnly(j) ==
  /\ "link" \in Env
  /\ ~link
  /\ link' = TRUE
  /\ active' = FALSE
  /\ job[j] = "none"
  /\ UNCHANGED <<suspended, locked, stopping, calls, record, restores, bounds>>

\* reg_io: recording ends and a restore is posted.
LinkUp(j) ==
  /\ "link" \in Env
  /\ ~link
  /\ link' = TRUE
  /\ active' = FALSE
  /\ Post(j)
  /\ UNCHANGED <<suspended, locked, stopping, calls, record, bounds>>

\* unreg_io: recording begins again. LinkJobs bounds the outages: the last one
\* ends too.
LinkDown ==
  /\ "link" \in Env
  /\ link
  /\ \E j \in LinkJobs : job[j] = "none"
  /\ link' = FALSE
  /\ active' = TRUE
  /\ crossed' = crossed \cup {m \in Messages : pc[m] \notin {"idle", "done"}}
  /\ UNCHANGED <<suspended, locked, stopping, pc, forwarded, skipped, stranded,
                 record, restores, bounds>>

\* The lock is released, whoever holds it, and the file is opened for reading.
RestoreFrom(j, line) ==
  /\ job[j] = "posted"
  /\ MutexFree
  /\ owed' = Recorded
  /\ ReleaseLock
  /\ pos' = line
  /\ job' = [job EXCEPT ![j] = "reading"]
  /\ UNCHANGED <<active, suspended, link, stopping, replayed, cut, bounds, calls>>

\* A slip: lines counted from zero.
RestoreFromZero(j) == RestoreFrom(j, 0)

RestoreBegin(j) == RestoreFrom(j, 1)

Reading(j) ==
  /\ job[j] = "reading"
  /\ UNCHANGED <<active, suspended, locked, link, stopping, owed, bounds, pc,
                 forwarded, crossed, skipped, record>>

\* A line is read and passed to restore_target, or to target if there is none; in
\* client mode it is the target, or has the same link.
RestoreLine(j) ==
  /\ Reading(j)
  /\ pos <= Len(file)
  /\ ~stopping
  /\ replayed' = replayed \cup {file[pos]}
  /\ Strand(file[pos])
  /\ pos' = pos + 1
  /\ UNCHANGED <<job, cut>>

\* At the end of the file, or as soon as the program is being stopped, restore
\* returns and releases the mutex.
RestoreUntil(j, end) ==
  /\ Reading(j)
  /\ stopping \/ end
  /\ job' = [job EXCEPT ![j] = IF j \in LinkJobs THEN "callback" ELSE "done"]
  /\ cut' = IF stopping /\ j \in LinkJobs
              THEN cut \cup {file[i] : i \in pos .. Len(file)} ELSE cut
  /\ UNCHANGED <<pos, replayed, stranded>>

\* Slips: the last line is not read; the end of the file is not noticed.
RestoreButLast(j) == RestoreUntil(j, pos >= Len(file))

RestoreForever(j) == RestoreUntil(j, FALSE)

RestoreEnd(j) == RestoreUntil(j, pos = Len(file) + 1)

\* The callback of reg_io truncates the record, without looking at the link.
Callback(j) ==
  /\ job[j] = "callback"
  /\ Truncate
  /\ job' = [job EXCEPT ![j] = "done"]
  /\ UNCHANGED <<active, suspended, locked, link, stopping, pos, replayed,
                 owed, cut, bounds, calls>>

\* restore_cancel drops what is posted and not what is running.
RestoreCancel ==
  /\ "cancel" \in Env
  /\ \E j \in Jobs : job[j] = "posted"
  /\ job' = [j \in Jobs |-> IF job[j] = "posted" THEN "cancelled" ELSE job[j]]
  /\ UNCHANGED <<active, suspended, locked, link, stopping, pos, replayed,
                 owed, cut, bounds, calls, record>>

-----------------------------------------------------------------------------
(* The environment *)

Suspend ==
  /\ "suspend" \in Env
  /\ suspended' = ~suspended
  /\ UNCHANGED <<active, locked, link, stopping, calls, record, restores, bounds>>

Stop ==
  /\ "stop" \in Env
  /\ ~stopping
  /\ stopping' = TRUE
  /\ UNCHANGED <<active, suspended, locked, link, calls, record, restores, bounds>>

\* The process ends, with its stream flushed or not, and starts again: configure
\* and initialize, which finds "kept" in the file. The memory is lost, _ss and the
\* calls in progress with it.
Restart(flushed, kept) ==
  /\ "crash" \in Env /\ crashes < MaxCrashes
  /\ crashes' = crashes + 1
  /\ active' = ~ClientMode
  /\ locked' = FALSE
  /\ link' = FALSE
  /\ stopping' = FALSE
  /\ pc' = [m \in Messages |-> IF pc[m] = "idle" THEN "idle" ELSE "done"]
  /\ file' = kept
  /\ direct' = IF flushed THEN direct ELSE direct \cap durable
  /\ ss' = <<>> /\ buffer' = <<>>
  /\ deferred' = {}
  /\ pos' = 1
  /\ job' = [j \in Jobs |-> IF job[j] = "none" THEN "none" ELSE "cancelled"]
  /\ owed' = {}
  /\ UNCHANGED <<suspended, locks, forwarded, crossed, skipped, stranded, durable,
                 rotated, late, replayed, cut>>

\* A slip: std::ofstream::trunc for std::ofstream::app.
CrashTruncating == Restart(FALSE, <<>>)

Crash == Restart(FALSE, file) \/ Restart(TRUE, file \o buffer)

-----------------------------------------------------------------------------
Call(m) == Arrive(m) \/ Record(m) \/ Write(m) \/ Check(m) \/ Forward(m)

Restore(j) == RestoreBegin(j) \/ RestoreLine(j) \/ RestoreEnd(j) \/ Callback(j)

Environment ==
  \/ Lock \/ Unlock \/ Rotate
  \/ \E j \in AppJobs : RequestRestore(j)
  \/ \E j \in LinkJobs : LinkUp(j)
  \/ LinkDown \/ RestoreCancel
  \/ Suspend \/ Stop \/ Crash

Next ==
  \/ \E m \in Messages : Call(m)
  \/ \E j \in Jobs : Restore(j)
  \/ Environment

Spec == Init /\ [][Next]_vars

(***************************************************************************)
(* Fairness: a thread that has entered a call keeps running, and so does   *)
(* a restore once it is posted; the mutex is not assumed to be fair.       *)
(* ClientSpec adds that every outage of the link ends.                     *)
(***************************************************************************)
Fairness ==
  /\ \A m \in Messages : WF_vars(Record(m) \/ Write(m) \/ Check(m) \/ Forward(m))
  /\ \A j \in Jobs : WF_vars(Restore(j))

FairSpec == Spec /\ Fairness

ClientSpec == FairSpec /\ WF_vars(\E j \in LinkJobs : LinkUp(j))
-----------------------------------------------------------------------------
(* Properties *)

TypeOK ==
  /\ pc \in [Messages -> CallStates]
  /\ active \in BOOLEAN /\ suspended \in BOOLEAN /\ locked \in BOOLEAN
  /\ link \in BOOLEAN /\ stopping \in BOOLEAN
  /\ ss \in Seq(Messages) /\ buffer \in Seq(Messages) /\ file \in Seq(Messages)
  /\ pos \in Nat \ {0}
  /\ job \in [Jobs -> JobStates]
  /\ locks \in 0 .. MaxLocks /\ crashes \in 0 .. MaxCrashes
  /\ direct \subseteq Messages /\ deferred \subseteq Messages /\ durable \subseteq Messages
  /\ forwarded \subseteq Messages /\ replayed \subseteq Messages /\ owed \subseteq Messages
  /\ crossed \subseteq Messages /\ skipped \subseteq Messages /\ stranded \subseteq Messages
  /\ rotated \subseteq Messages /\ late \subseteq Messages /\ cut \subseteq Messages

\* Nothing that was recorded disappears but by rotate or by a crash: what was
\* written with the lock open, or released by unlock or by a restore, is in the
\* stream, and what was written under the lock waits in _ss while it is held.
Retained ==
  /\ direct \subseteq Range(file) \cup Range(buffer)
  /\ deferred \subseteq Range(ss)
  /\ deferred # {} => locked

\* What write_incoming_ has recorded with the lock open is in the file, where a
\* crash cannot reach it, until it is truncated.
Durable == durable \subseteq Range(file)

\* In server mode the file is ahead of the target: a message that has reached
\* the target by its own call is in the file, restarts included, unless it was
\* truncated, the domain was suspended or it is a response. It holds as long
\* as nobody has called lock: _ss does not survive a restart.
WriteAhead ==
  ~ClientMode /\ locks = 0 =>
    forwarded \ (Replies \cup skipped \cup rotated) \subseteq Range(file)

\* A restore has replayed everything that was recorded when it began (Readme.md,
\* JSONRPC-BACKLOG: after the request all the recorded messages are sent), unless
\* the program is being stopped, and as long as nobody has called lock: what a
\* restore releases from _ss may still be in the buffer when it reads the file.
ReplayComplete ==
  MutexFree /\ ~stopping /\ locks = 0 => owed \subseteq replayed

\* Passed to the target, by its own call or by a restore, and never with the
\* link down.
Delivered == (forwarded \cup replayed) \ stranded

Returned == {m \in Messages \ Replies : pc[m] = "done"}

\* In client mode a message is either delivered or recorded until it is, unless the
\* domain is suspended, but in four windows: the link is lost during the call,
\* after its first reading of _active; the record is made after a restore and before its callback;
\* the message is passed on while the link is down, before it has ever been up or
\* by a restore that was posted when it was up; the program is stopped before the
\* restore comes to the record, which the callback truncates all the same. (It holds
\* as long as applications do not lock or rotate, and until the program ends.)
LossOnlyInWindows ==
  Returned \subseteq
    Delivered \cup Recorded \cup skipped \cup crossed \cup late \cup stranded \cup cut

\* The same without the second window. It does not hold: the callback of a restore
\* truncates records that no restore has read.
LateKept ==
  Returned \subseteq Delivered \cup Recorded \cup skipped \cup crossed \cup stranded \cup cut

\* A message is recorded once: the stream does not hold two copies of it. It does not
\* hold when lock is called twice: _ss is written out and not cleared.
RecordedOnce == IsInjective(file \o buffer)

\* Every call returns, restores that hold the mutex notwithstanding.
CallsReturn == \A m \in Messages : pc[m] # "idle" ~> pc[m] = "done"

\* Under ClientSpec, what an outage left in the record gets to the target, but for
\* the last three windows: if the program is being stopped, only what a restore has
\* read before.
OutageReplayed ==
  \A m \in Messages \ Replies :
    m \in Recorded ~> m \in Delivered \cup late \cup stranded \cup cut
=============================================================================
