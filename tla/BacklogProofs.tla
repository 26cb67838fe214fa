---------------------------- MODULE BacklogProofs ----------------------------
(***************************************************************************)
(* What holds of jsonrpc-backlog for every set of messages, every number   *)
(* of restores and every bound: its types, that nothing recorded is lost   *)
(* between _ss, the stream and the file, that a record made with the lock  *)
(* open is in the file, that until somebody calls lock the file is ahead   *)
(* of the target, a restore replays all of it and no message is recorded   *)
(* twice, that one restore at a time reads a file nobody changes under it, *)
(* that what is recorded is on its way while the link is up, and in which  *)
(* windows a message is lost in client mode.                               *)
(***************************************************************************)
EXTENDS Backlog, TLAPS

-----------------------------------------------------------------------------
(* Ranges of sequences *)

\* A concatenation, as when a stream is flushed, holds the records of both parts.
LEMMA RangeConcat ==
  ASSUME NEW S, NEW s \in Seq(S), NEW t \in Seq(S)
  PROVE  Range(s \o t) = Range(s) \cup Range(t)
<1>1. Range(s \o t) \subseteq Range(s) \cup Range(t)
  BY DEF Range
<1>2. ASSUME NEW i \in DOMAIN s PROVE s[i] \in Range(s \o t)
  <2>1. i \in DOMAIN (s \o t) /\ (s \o t)[i] = s[i]
    OBVIOUS
  <2> QED BY <2>1 DEF Range
<1>3. ASSUME NEW i \in DOMAIN t PROVE t[i] \in Range(s \o t)
  <2>1. Len(s) + i \in DOMAIN (s \o t) /\ (s \o t)[Len(s) + i] = t[i]
    OBVIOUS
  <2> QED BY <2>1 DEF Range
<1> QED BY <1>1, <1>2, <1>3 DEF Range

\* Appending a record adds it, as in write_incoming_.
LEMMA RangeAppend ==
  ASSUME NEW S, NEW s \in Seq(S), NEW e \in S
  PROVE  Range(Append(s, e)) = Range(s) \cup {e}
<1>1. Range(Append(s, e)) \subseteq Range(s) \cup {e}
  BY DEF Range
<1>2. ASSUME NEW i \in DOMAIN s PROVE s[i] \in Range(Append(s, e))
  <2>1. i \in DOMAIN Append(s, e) /\ Append(s, e)[i] = s[i]
    OBVIOUS
  <2> QED BY <2>1 DEF Range
<1>3. e \in Range(Append(s, e))
  <2>1. Len(s) + 1 \in DOMAIN Append(s, e) /\ Append(s, e)[Len(s) + 1] = e
    OBVIOUS
  <2> QED BY <2>1 DEF Range
<1> QED BY <1>1, <1>2, <1>3 DEF Range

\* std::endl puts what was buffered and the new record behind what was there.
LEMMA RangeFlushed ==
  ASSUME NEW S, NEW s \in Seq(S), NEW t \in Seq(S), NEW e \in S
  PROVE  Range(Append(s \o t, e)) = (Range(s) \cup Range(t)) \cup {e}
<1> DEFINE u == s \o t
<1>1. u \in Seq(S)
  OBVIOUS
<1>2. Range(u) = Range(s) \cup Range(t)
  BY RangeConcat
<1> HIDE DEF u
<1>3. Range(Append(u, e)) = Range(u) \cup {e}
  BY <1>1, RangeAppend
<1> QED BY <1>2, <1>3 DEF u

\* The empty sequence, which rotate and a restart leave behind, has every type.
LEMMA EmptyType == ASSUME NEW S PROVE <<>> \in Seq(S) /\ Range(<<>>) = {}
BY DEF Range

\* The records of a sequence of messages are messages.
LEMMA RangeType ==
  ASSUME NEW S, NEW s \in Seq(S)
  PROVE  Range(s) \subseteq S
BY DEF Range

-----------------------------------------------------------------------------
(* Types *)

\* A backlog that has just been configured has its types.
LEMMA TypeInit == Init => TypeOK
<1> SUFFICES ASSUME Init PROVE TypeOK
  OBVIOUS
<1>1. active \in BOOLEAN
  <2>1. active = ~ClientMode
    BY DEF Init
  <2> QED BY <2>1, ModeAssumption
<1>2. locks \in 0 .. MaxLocks /\ crashes \in 0 .. MaxCrashes
  BY BoundsAssumption DEF Init
<1>3. pc \in [Messages -> CallStates] /\ job \in [Jobs -> JobStates]
  BY DEF Init, CallStates, JobStates
<1>4. ss \in Seq(Messages) /\ buffer \in Seq(Messages) /\ file \in Seq(Messages)
  BY EmptyType DEF Init
<1>5. suspended \in BOOLEAN /\ locked \in BOOLEAN /\ link \in BOOLEAN /\ stopping \in BOOLEAN
  BY Zenon DEF Init
<1>7. pos \in Nat \ {0}
  BY DEF Init
<1>6. /\ direct = {} /\ deferred = {} /\ durable = {} /\ forwarded = {}
      /\ replayed = {} /\ owed = {} /\ crossed = {} /\ skipped = {}
      /\ stranded = {} /\ rotated = {} /\ late = {} /\ cut = {}
  BY DEF Init
<1> QED BY <1>1, <1>2, <1>3, <1>4, <1>5, <1>6, <1>7 DEF TypeOK

\* Unlocking keeps the types of what it changes.
LEMMA ReleaseType ==
  ASSUME TypeOK, ReleaseLock
  PROVE  /\ locked' \in BOOLEAN
         /\ buffer' \in Seq(Messages) /\ file' \in Seq(Messages) /\ ss' \in Seq(Messages)
         /\ direct' \subseteq Messages /\ deferred' \subseteq Messages
         /\ durable' \subseteq Messages /\ rotated' \subseteq Messages
         /\ late' \subseteq Messages
<1>1. buffer \in Seq(Messages) /\ file \in Seq(Messages) /\ ss \in Seq(Messages)
  BY DEF TypeOK
<1>2. buffer \o ss \in Seq(Messages) /\ file \o buffer \in Seq(Messages)
  BY <1>1
<1>3. (file \o buffer) \o ss \in Seq(Messages)
  BY <1>1, <1>2
<1>4. buffer' \in Seq(Messages) /\ file' \in Seq(Messages) /\ ss' \in Seq(Messages)
  BY <1>1, <1>2, <1>3, EmptyType DEF ReleaseLock
<1> QED BY <1>4 DEF ReleaseLock, TypeOK

\* write_incoming_ leaves sequences of messages in _ss, in the stream and in the file.
LEMMA WriteType ==
  ASSUME TypeOK, NEW m \in Messages, Write(m)
  PROVE  file' \in Seq(Messages) /\ ss' \in Seq(Messages) /\ buffer' \in Seq(Messages)
<1>1. file \in Seq(Messages) /\ ss \in Seq(Messages) /\ buffer \in Seq(Messages)
  BY DEF TypeOK
<1>2. \/ ss' = Append(ss, m) /\ UNCHANGED <<buffer, file>>
      \/ buffer' = <<>> /\ file' = Append(file \o buffer, m) /\ UNCHANGED ss
  BY DEF Write, Writing
<1>3. Append(ss, m) \in Seq(Messages)
  BY <1>1
<1>4. file \o buffer \in Seq(Messages)
  BY <1>1
<1>5. Append(file \o buffer, m) \in Seq(Messages)
  BY <1>4
<1> QED BY <1>1, <1>2, <1>3, <1>5, EmptyType

\* Every step of a call, of a restore and of the environment keeps the types.
LEMMA TypeStep == TypeOK /\ [Next]_vars => TypeOK'
<1> SUFFICES ASSUME TypeOK, [Next]_vars PROVE TypeOK'
  OBVIOUS
<1> USE DEF TypeOK, CallStates, JobStates, calls, record, restores, bounds
<1>1. ASSUME NEW m \in Messages, Call(m) PROVE TypeOK'
  <2>1. CASE Arrive(m)
    BY <2>1 DEF Arrive
  <2>2. CASE Record(m)
    BY <2>2 DEF Record
  <2>3. CASE Write(m)
    <3>1. file' \in Seq(Messages) /\ ss' \in Seq(Messages) /\ buffer' \in Seq(Messages)
      BY <2>3, WriteType
    <3>2. /\ direct' \subseteq Messages /\ deferred' \subseteq Messages
          /\ durable' \subseteq Messages /\ late' \subseteq Messages
      BY <2>3 DEF Write, Writing
    <3>3. pc' \in [Messages -> CallStates]
      BY <2>3 DEF Write, Writing
    <3> QED BY <2>3, <3>1, <3>2, <3>3 DEF Write, Writing
  <2>4. CASE Check(m)
    BY <2>4 DEF Check
  <2>5. CASE Forward(m)
    BY <2>5 DEF Forward, Strand
  <2> QED BY <1>1, <2>1, <2>2, <2>3, <2>4, <2>5 DEF Call
<1>2. ASSUME NEW j \in Jobs, Restore(j) PROVE TypeOK'
  <2>1. CASE RestoreBegin(j)
    <3>1. owed' \subseteq Messages
      BY <2>1, RangeType DEF RestoreBegin, RestoreFrom, Recorded
    <3>2. ReleaseLock
      BY <2>1 DEF RestoreBegin, RestoreFrom
    <3> QED BY <2>1, <3>1, <3>2, ReleaseType DEF RestoreBegin, RestoreFrom
  <2>2. CASE RestoreLine(j)
    <3>1. file[pos] \in Messages
      BY <2>2 DEF RestoreLine, Reading
    <3>2. replayed' \subseteq Messages /\ stranded' \subseteq Messages
      BY <2>2, <3>1 DEF RestoreLine, Strand
    <3>3. pos' \in Nat \ {0}
      BY <2>2 DEF RestoreLine
    <3> QED BY <2>2, <3>2, <3>3 DEF RestoreLine, Reading
  <2>3. CASE RestoreEnd(j)
    <3>1. cut' \subseteq Messages
      <4>1. {file[i] : i \in pos .. Len(file)} \subseteq Messages
        OBVIOUS
      <4> QED BY <2>3, <4>1 DEF RestoreEnd, RestoreUntil
    <3> QED BY <2>3, <3>1 DEF RestoreEnd, RestoreUntil, Reading
  <2>4. CASE Callback(j)
    BY <2>4, RangeType DEF Callback, Truncate
  <2> QED BY <1>2, <2>1, <2>2, <2>3, <2>4 DEF Restore
<1>3. CASE Environment
  <2>1. CASE Lock
    BY <2>1, BoundsAssumption DEF Lock
  <2>2. CASE Unlock
    BY <2>2, ReleaseType DEF Unlock
  <2>3. CASE Rotate
    BY <2>3, RangeType DEF Rotate, Truncate
  <2>4. ASSUME NEW j \in AppJobs, RequestRestore(j) PROVE TypeOK'
    BY <2>4 DEF RequestRestore, Post
  <2>5. ASSUME NEW j \in LinkJobs, LinkUp(j) PROVE TypeOK'
    BY <2>5 DEF LinkUp, Post
  <2>6. CASE LinkDown
    <3>1. crossed' \subseteq Messages
      BY <2>6 DEF LinkDown
    <3> QED BY <2>6, <3>1 DEF LinkDown
  <2>7. CASE RestoreCancel
    BY <2>7 DEF RestoreCancel
  <2>8. CASE Suspend
    BY <2>8 DEF Suspend
  <2>9. CASE Stop
    BY <2>9 DEF Stop
  <2>10. CASE Crash
    <3>1. file' \in Seq(Messages) /\ ss' \in Seq(Messages) /\ buffer' \in Seq(Messages)
      <4>1. file \in Seq(Messages) /\ buffer \in Seq(Messages)
        OBVIOUS
      <4>2. file \o buffer \in Seq(Messages)
        BY <4>1
      <4>3. file' = file \/ file' = file \o buffer
        BY <2>10 DEF Crash, Restart
      <4>4. ss' = <<>> /\ buffer' = <<>>
        BY <2>10 DEF Crash, Restart
      <4> QED BY <4>1, <4>2, <4>3, <4>4, EmptyType
    <3>2. active' \in BOOLEAN
      <4>1. active' = ~ClientMode
        BY <2>10 DEF Crash, Restart
      <4> QED BY <4>1, ModeAssumption
    <3>3. pc' \in [Messages -> CallStates] /\ job' \in [Jobs -> JobStates]
      BY <2>10 DEF Crash, Restart
    <3>4. direct' \subseteq Messages
      BY <2>10 DEF Crash, Restart
    <3>5. crashes' \in 0 .. MaxCrashes
      BY <2>10, BoundsAssumption DEF Crash, Restart
    <3>6. locked' \in BOOLEAN /\ link' \in BOOLEAN /\ stopping' \in BOOLEAN
      BY <2>10, Zenon DEF Crash, Restart
    <3>7. pos' \in Nat \ {0} /\ deferred' = {} /\ owed' = {}
      BY <2>10 DEF Crash, Restart
    <3>8. UNCHANGED <<suspended, locks, forwarded, crossed, skipped, stranded, durable,
                      rotated, late, replayed, cut>>
      BY <2>10 DEF Crash, Restart
    <3> QED BY <3>1, <3>2, <3>3, <3>4, <3>5, <3>6, <3>7, <3>8
  <2> QED BY <1>3, <2>1, <2>2, <2>3, <2>4, <2>5, <2>6, <2>7, <2>8, <2>9, <2>10
          DEF Environment
<1>4. CASE UNCHANGED vars
  BY <1>4 DEF vars
<1> QED BY <1>1, <1>2, <1>3, <1>4 DEF Next

\* Every variable of jsonrpc-backlog keeps its type, whatever the messages and
\* restores are.
THEOREM TypeCorrect == Spec => []TypeOK
BY TypeInit, TypeStep, PTL DEF Spec

-----------------------------------------------------------------------------
(* What is recorded is kept *)

\* Retained and Durable are inductive together: a restart that loses the buffer
\* of the stream leaves what is durable.
Kept == Retained /\ Durable

\* A backlog that has just been configured has recorded nothing.
LEMMA KeptInit == Init => Kept
BY EmptyType DEF Init, Kept, Retained, Durable

\* Unlocking moves the records of _ss into the stream.
LEMMA ReleaseKeeps ==
  ASSUME TypeOK, Kept, ReleaseLock
  PROVE  Kept'
<1>1. file \in Seq(Messages) /\ buffer \in Seq(Messages) /\ ss \in Seq(Messages)
  BY DEF TypeOK
<1>2. file \o buffer \in Seq(Messages)
  BY <1>1
<1>3. CASE buffer' = buffer \o ss /\ UNCHANGED file
  <2>1. Range(buffer') = Range(buffer) \cup Range(ss) /\ Range(file') = Range(file)
    BY <1>1, <1>3, RangeConcat
  <2> QED BY <2>1 DEF ReleaseLock, Kept, Retained, Durable
<1>4. CASE buffer' = <<>> /\ file' = (file \o buffer) \o ss
  <2>1. Range(file') = (Range(file) \cup Range(buffer)) \cup Range(ss)
    <3>1. Range((file \o buffer) \o ss) = Range(file \o buffer) \cup Range(ss)
      <4> DEFINE u == file \o buffer
      <4>1. u \in Seq(Messages)
        BY <1>2
      <4> HIDE DEF u
      <4>2. Range(u \o ss) = Range(u) \cup Range(ss)
        BY <1>1, <4>1, RangeConcat
      <4> QED BY <4>2 DEF u
    <3>2. Range(file \o buffer) = Range(file) \cup Range(buffer)
      BY <1>1, RangeConcat
    <3> QED BY <1>4, <3>1, <3>2
  <2> QED BY <2>1 DEF ReleaseLock, Kept, Retained, Durable
<1> QED BY <1>3, <1>4 DEF ReleaseLock

\* Truncating forgets what is in the stream, and nothing of _ss.
LEMMA TruncateKeeps ==
  ASSUME Kept, Truncate, UNCHANGED locked
  PROVE  Kept'
BY EmptyType DEF Kept, Retained, Durable, Truncate

\* Every step keeps what was recorded in _ss, in the stream or in the file, and
\* what was recorded with the lock open in the file.
LEMMA KeptStep == TypeOK /\ Kept /\ [Next]_vars => Kept'
<1> SUFFICES ASSUME TypeOK, Kept, [Next]_vars PROVE Kept'
  OBVIOUS
<1>0. file \in Seq(Messages) /\ buffer \in Seq(Messages) /\ ss \in Seq(Messages)
  BY DEF TypeOK
<1>f. UNCHANGED <<locked, ss, buffer, file, direct, deferred, durable>> => Kept'
  BY DEF Kept, Retained, Durable
<1>1. ASSUME NEW m \in Messages, Call(m) PROVE Kept'
  <2>1. CASE Arrive(m)
    BY <2>1, <1>f DEF Arrive, record
  <2>2. CASE Record(m)
    BY <2>2, <1>f DEF Record, record
  <2>3. CASE Write(m)
    <3>1. CASE locked
      <4>1. Range(ss') = Range(ss) \cup {m}
        <5>1. ss' = Append(ss, m)
          BY <2>3, <3>1 DEF Write, Writing
        <5>2. Range(Append(ss, m)) = Range(ss) \cup {m}
          BY <1>0, RangeAppend
        <5> QED BY <5>1, <5>2
      <4> QED BY <2>3, <3>1, <4>1 DEF Write, Writing, Kept, Retained, Durable
    <3>2. CASE ~locked
      <4>1. file' = Append(file \o buffer, m)
        BY <2>3, <3>2 DEF Write, Writing
      <4>2. Range(file') = (Range(file) \cup Range(buffer)) \cup {m}
        BY <1>0, <4>1, RangeFlushed
      <4> QED BY <2>3, <3>2, <4>2 DEF Write, Writing, Kept, Retained, Durable
    <3> QED BY <3>1, <3>2
  <2>4. CASE Check(m)
    BY <2>4, <1>f DEF Check, record
  <2>5. CASE Forward(m)
    BY <2>5, <1>f DEF Forward, record
  <2> QED BY <1>1, <2>1, <2>2, <2>3, <2>4, <2>5 DEF Call
<1>2. ASSUME NEW j \in Jobs, Restore(j) PROVE Kept'
  <2>1. CASE RestoreBegin(j)
    BY <2>1, ReleaseKeeps DEF RestoreBegin, RestoreFrom
  <2>2. CASE RestoreLine(j)
    BY <2>2, <1>f DEF RestoreLine, Reading, record
  <2>3. CASE RestoreEnd(j)
    BY <2>3, <1>f DEF RestoreEnd, RestoreUntil, Reading, record
  <2>4. CASE Callback(j)
    BY <2>4, TruncateKeeps DEF Callback
  <2> QED BY <1>2, <2>1, <2>2, <2>3, <2>4 DEF Restore
<1>3. CASE Environment
  <2>1. CASE Lock
    BY <2>1 DEF Lock, record, Kept, Retained, Durable
  <2>2. CASE Unlock
    BY <2>2, ReleaseKeeps DEF Unlock
  <2>3. CASE Rotate
    BY <2>3, TruncateKeeps DEF Rotate
  <2>4. ASSUME NEW j \in AppJobs, RequestRestore(j) PROVE Kept'
    BY <2>4, <1>f DEF RequestRestore, record
  <2>5. ASSUME NEW j \in LinkJobs, LinkUp(j) PROVE Kept'
    BY <2>5, <1>f DEF LinkUp, record
  <2>6. CASE LinkDown
    BY <2>6, <1>f DEF LinkDown, record
  <2>7. CASE RestoreCancel
    BY <2>7, <1>f DEF RestoreCancel, record
  <2>8. CASE Suspend
    BY <2>8, <1>f DEF Suspend, record
  <2>9. CASE Stop
    BY <2>9, <1>f DEF Stop, record
  <2>10. CASE Crash
    <3>1. CASE Restart(FALSE, file)
      BY <3>1, EmptyType DEF Restart, Kept, Retained, Durable
    <3>2. CASE Restart(TRUE, file \o buffer)
      <4>1. Range(file') = Range(file) \cup Range(buffer)
        BY <1>0, <3>2, RangeConcat DEF Restart
      <4> QED BY <3>2, <4>1, EmptyType DEF Restart, Kept, Retained, Durable
    <3> QED BY <2>10, <3>1, <3>2 DEF Crash
  <2> QED BY <1>3, <2>1, <2>2, <2>3, <2>4, <2>5, <2>6, <2>7, <2>8, <2>9, <2>10
          DEF Environment
<1>4. CASE UNCHANGED vars
  BY <1>4, <1>f DEF vars, record
<1> QED BY <1>1, <1>2, <1>3, <1>4 DEF Next

\* What write_incoming_ has recorded is in _ss, in the stream or in the file, and
\* what it recorded with the lock open is in the file.
THEOREM KeptCorrect == Spec => []Kept
BY TypeInit, TypeStep, KeptInit, KeptStep, PTL DEF Spec

\* Nothing that write_incoming_ has recorded disappears but by rotate or by a
\* restart, in whatever order calls, locks, rotates, restores and restarts come.
THEOREM RetainedCorrect == Spec => []Retained
BY KeptCorrect, PTL DEF Kept

\* What write_incoming_ has recorded with the lock open is in the file until it
\* is truncated, restarts included.
THEOREM DurableCorrect == Spec => []Durable
BY KeptCorrect, PTL DEF Kept
-----------------------------------------------------------------------------
(* The file is ahead of the target, and a restore replays all of it *)

\* As long as nobody has called lock, nothing waits in _ss or in the buffer of the
\* stream: std::endl puts each record into the file.
Plain == locks = 0 => ~locked /\ ss = <<>> /\ buffer = <<>>

\* In server mode recording never ends, and a message that has come as far as the
\* second reading of _active is in the file.
Ahead ==
  ~ClientMode =>
    /\ active
    /\ locks = 0 =>
         \A m \in Messages \ Replies :
           pc[m] \in {"check", "forward"} \/ m \in forwarded
             => m \in (skipped \cup rotated) \cup Range(file)

\* What the restore that reads has still to come to.
Unread == IF MutexFree THEN {} ELSE {file[i] : i \in pos .. Len(file)}

Replaying == ~stopping /\ locks = 0 => owed \subseteq replayed \cup Unread

\* A restore that releases a lock that nobody holds leaves the file as it was.
LEMMA ReleasePlain ==
  ASSUME TypeOK, Plain, locks = 0, ReleaseLock
  PROVE  file' = file /\ buffer' = <<>> /\ ss' = <<>> /\ ~locked'
<1>1. ss = <<>> /\ buffer = <<>> /\ file \in Seq(Messages)
  BY DEF Plain, TypeOK
<1>2. <<>> \o <<>> = <<>> /\ file \o <<>> = file
  BY <1>1
<1> QED BY <1>1, <1>2 DEF ReleaseLock

\* A record made with nothing in the buffer stands at the end of the file.
LEMMA WritePlain ==
  ASSUME TypeOK, Plain, locks = 0, NEW m \in Messages, Write(m)
  PROVE  /\ file' = Append(file, m) /\ Range(file') = Range(file) \cup {m}
         /\ buffer' = <<>> /\ ss' = <<>> /\ ~locked'
<1>1. ss = <<>> /\ buffer = <<>> /\ file \in Seq(Messages) /\ ~locked
  BY DEF Plain, TypeOK
<1>2. file \o <<>> = file
  BY <1>1
<1>3. file' = Append(file, m) /\ buffer' = <<>> /\ ss' = ss /\ locked' = locked
  BY <1>1, <1>2 DEF Write, Writing
<1>4. Range(file') = Range(file) \cup {m}
  BY <1>1, <1>3, RangeAppend
<1> QED BY <1>1, <1>3, <1>4

\* A restart with nothing in the buffer finds the file as it was.
LEMMA CrashPlain ==
  ASSUME TypeOK, Plain, locks = 0, Crash
  PROVE  file' = file
<1>1. buffer = <<>> /\ file \in Seq(Messages)
  BY DEF Plain, TypeOK
<1>2. file \o <<>> = file
  BY <1>1
<1> QED BY <1>1, <1>2 DEF Crash, Restart

\* Nothing gets into _ss or stays in the buffer without a call of lock.
LEMMA PlainStep == TypeOK /\ Plain /\ [Next]_vars => Plain'
<1> SUFFICES ASSUME TypeOK, Plain, [Next]_vars PROVE Plain'
  OBVIOUS
<1>f. UNCHANGED <<locks, locked, ss, buffer>> => Plain'
  BY DEF Plain
<1>1. ASSUME NEW m \in Messages, Call(m) PROVE Plain'
  <2>1. CASE Arrive(m) \/ Record(m) \/ Check(m) \/ Forward(m)
    BY <2>1, <1>f DEF Arrive, Record, Check, Forward, record, bounds
  <2>2. CASE Write(m)
    <3>1. locks' = locks
      BY <2>2 DEF Write, Writing, bounds
    <3> QED BY <2>2, <3>1, WritePlain DEF Plain
  <2> QED BY <1>1, <2>1, <2>2 DEF Call
<1>2. ASSUME NEW j \in Jobs, Restore(j) PROVE Plain'
  <2>1. CASE RestoreBegin(j)
    BY <2>1, ReleasePlain DEF RestoreBegin, RestoreFrom, bounds, Plain
  <2>2. CASE RestoreLine(j) \/ RestoreEnd(j)
    BY <2>2, <1>f DEF RestoreLine, RestoreEnd, RestoreUntil, Reading, record, bounds
  <2>3. CASE Callback(j)
    BY <2>3 DEF Callback, Truncate, bounds, Plain
  <2> QED BY <1>2, <2>1, <2>2, <2>3 DEF Restore
<1>3. CASE Environment
  <2>1. CASE Lock
    <3>1. locks' = locks + 1 /\ locks \in Nat
      BY <2>1 DEF Lock, TypeOK
    <3> QED BY <3>1 DEF Plain
  <2>2. CASE Unlock
    BY <2>2, ReleasePlain DEF Unlock, bounds, Plain
  <2>3. CASE Rotate
    BY <2>3 DEF Rotate, Truncate, bounds, Plain
  <2>4. CASE \/ \E j \in AppJobs : RequestRestore(j)
             \/ \E j \in LinkJobs : LinkUp(j)
             \/ LinkDown \/ RestoreCancel \/ Suspend \/ Stop
    BY <2>4, <1>f DEF RequestRestore, LinkUp, LinkDown, RestoreCancel, Suspend, Stop,
                      record, bounds
  <2>5. CASE Crash
    BY <2>5 DEF Crash, Restart, Plain
  <2> QED BY <1>3, <2>1, <2>2, <2>3, <2>4, <2>5 DEF Environment
<1>4. CASE UNCHANGED vars
  BY <1>4, <1>f DEF vars, record, bounds
<1> QED BY <1>1, <1>2, <1>3, <1>4 DEF Next

\* Nothing passes the second reading of _active that is not in the file.
LEMMA AheadStep == TypeOK /\ Plain /\ Ahead /\ [Next]_vars => Ahead'
<1> SUFFICES ASSUME TypeOK, Plain, Ahead, [Next]_vars, ~ClientMode PROVE Ahead'
  BY DEF Ahead
<1>0. active /\ LinkJobs = {} /\ pc \in [Messages -> CallStates] /\ locks \in Nat
  BY JobsAssumption DEF Ahead, TypeOK
<1>f. UNCHANGED <<active, locks, calls, record>> => Ahead'
  BY DEF Ahead, calls, record
<1>1. ASSUME NEW m \in Messages, Call(m) PROVE Ahead'
  <2>1. CASE Arrive(m)
    <3>1. /\ UNCHANGED <<active, locks, forwarded, skipped, rotated, file>>
          /\ pc' = [pc EXCEPT ![m] = IF m \notin Replies THEN "record" ELSE "check"]
      BY <1>0, <2>1 DEF Arrive, record, bounds
    <3> QED BY <1>0, <3>1 DEF Ahead
  <2>2. CASE Record(m)
    <3>1. /\ UNCHANGED <<active, locks, forwarded, rotated, file>>
          /\ pc' = [pc EXCEPT ![m] = IF suspended THEN "check" ELSE "write"]
          /\ skipped' = IF suspended THEN skipped \cup {m} ELSE skipped
      BY <2>2 DEF Record, record, bounds
    <3> QED BY <1>0, <3>1 DEF Ahead
  <2>3. CASE Write(m)
    <3>1. /\ UNCHANGED <<active, locks, forwarded, skipped, rotated>>
          /\ pc' = [pc EXCEPT ![m] = "check"]
      BY <2>3 DEF Write, Writing, bounds
    <3>2. locks = 0 => Range(file') = Range(file) \cup {m}
      BY <2>3, WritePlain
    <3> QED BY <1>0, <3>1, <3>2 DEF Ahead
  <2>4. CASE Check(m)
    <3>1. /\ UNCHANGED <<active, locks, skipped, rotated, file>>
          /\ forwarded' = forwarded
          /\ pc[m] = "check" /\ pc' = [pc EXCEPT ![m] = "forward"]
      BY <2>4 DEF Check, record, bounds
    <3> QED BY <1>0, <3>1 DEF Ahead
  <2>5. CASE Forward(m)
    <3>1. /\ UNCHANGED <<active, locks, skipped, rotated, file>>
          /\ pc[m] = "forward" /\ pc' = [pc EXCEPT ![m] = "done"]
          /\ forwarded' = forwarded \cup {m}
      BY <2>5 DEF Forward, record, bounds
    <3> QED BY <1>0, <3>1 DEF Ahead
  <2> QED BY <1>1, <2>1, <2>2, <2>3, <2>4, <2>5 DEF Call
<1>2. ASSUME NEW j \in Jobs, Restore(j) PROVE Ahead'
  <2>1. CASE RestoreBegin(j)
    <3>1. UNCHANGED <<active, locks, pc, forwarded, skipped, rotated>> /\ ReleaseLock
      BY <2>1 DEF RestoreBegin, RestoreFrom, ReleaseLock, calls, bounds
    <3> QED BY <3>1, ReleasePlain DEF Ahead
  <2>2. CASE RestoreLine(j) \/ RestoreEnd(j)
    <3>1. UNCHANGED <<active, locks, pc, forwarded, skipped, rotated, file>>
      BY <2>2 DEF RestoreLine, RestoreEnd, RestoreUntil, Reading, record, bounds
    <3> QED BY <3>1 DEF Ahead
  <2>3. CASE Callback(j)
    BY <2>3 DEF Callback, Truncate, calls, bounds, Ahead
  <2> QED BY <1>2, <2>1, <2>2, <2>3 DEF Restore
<1>3. CASE Environment
  <2>1. CASE Lock
    <3>1. locks' # 0
      BY <1>0, <2>1 DEF Lock
    <3> QED BY <1>0, <2>1, <3>1 DEF Lock, Ahead
  <2>2. CASE Unlock
    <3>1. UNCHANGED <<active, locks, pc, forwarded, skipped, rotated>> /\ ReleaseLock
      BY <2>2 DEF Unlock, ReleaseLock, calls, bounds
    <3> QED BY <3>1, ReleasePlain DEF Ahead
  <2>3. CASE Rotate
    BY <2>3 DEF Rotate, Truncate, calls, bounds, Ahead
  <2>4. CASE \/ \E j \in AppJobs : RequestRestore(j)
             \/ RestoreCancel \/ Suspend \/ Stop
    BY <2>4, <1>f DEF RequestRestore, RestoreCancel, Suspend, Stop, bounds
  <2>5. CASE (\E j \in LinkJobs : LinkUp(j)) \/ LinkDown
    BY <2>5, <1>0 DEF LinkDown
  <2>6. CASE Crash
    <3>1. /\ active' = ~ClientMode
          /\ UNCHANGED <<locks, forwarded, skipped, rotated>>
          /\ \A m \in Messages : pc'[m] \in {"idle", "done"}
      BY <2>6 DEF Crash, Restart
    <3> QED BY <2>6, <3>1, CrashPlain DEF Ahead
  <2> QED BY <1>3, <2>1, <2>2, <2>3, <2>4, <2>5, <2>6 DEF Environment
<1>4. CASE UNCHANGED vars
  BY <1>4, <1>f DEF vars, bounds
<1> QED BY <1>1, <1>2, <1>3, <1>4 DEF Next

\* The file cannot change under a restore that reads it.
LEMMA ReplayStep == TypeOK /\ Plain /\ Replaying /\ [Next]_vars => Replaying'
<1> SUFFICES ASSUME TypeOK, Plain, Replaying, [Next]_vars PROVE Replaying'
  OBVIOUS
<1>0. /\ file \in Seq(Messages) /\ pos \in Nat \ {0} /\ locks \in Nat
      /\ job \in [Jobs -> JobStates]
  BY DEF TypeOK
<1>f. UNCHANGED <<stopping, locks, owed, replayed, file, pos>> /\ (MutexFree' <=> MutexFree)
        => Replaying'
  BY DEF Replaying, Unread
<1>1. ASSUME NEW m \in Messages, Call(m) PROVE Replaying'
  <2>1. CASE Arrive(m) \/ Record(m) \/ Check(m) \/ Forward(m)
    BY <2>1, <1>f DEF Arrive, Record, Check, Forward, record, restores, bounds, MutexFree
  <2>2. CASE Write(m)
    BY <2>2 DEF Write, Writing, restores, bounds, MutexFree, Replaying, Unread
  <2> QED BY <1>1, <2>1, <2>2 DEF Call
<1>2. ASSUME NEW j \in Jobs, Restore(j) PROVE Replaying'
  <2>1. CASE RestoreBegin(j)
    <3>1. /\ UNCHANGED <<stopping, locks, replayed>> /\ ReleaseLock
          /\ owed' = Recorded /\ pos' = 1 /\ job' = [job EXCEPT ![j] = "reading"]
      BY <2>1 DEF RestoreBegin, RestoreFrom, bounds
    <3>2. ~MutexFree'
      BY <1>0, <3>1 DEF MutexFree
    <3>3. SUFFICES ASSUME locks = 0 PROVE owed' \subseteq Unread'
      BY <3>1 DEF Replaying
    <3>4. file' = file /\ owed' = Range(file)
      BY <3>1, <3>3, ReleasePlain, EmptyType DEF Recorded, Plain
    <3>5. Range(file) = {file[i] : i \in 1 .. Len(file)}
      BY <1>0 DEF Range
    <3> QED BY <3>1, <3>2, <3>4, <3>5 DEF Unread
  <2>2. CASE RestoreLine(j)
    <3>1. /\ UNCHANGED <<stopping, locks, owed, file, job>>
          /\ pos <= Len(file) /\ pos' = pos + 1 /\ replayed' = replayed \cup {file[pos]}
          /\ job[j] = "reading"
      BY <2>2 DEF RestoreLine, Reading, record, bounds
    <3>2. Unread \subseteq {file[pos]} \cup Unread'
      <4>1. ~MutexFree /\ ~MutexFree'
        BY <3>1 DEF MutexFree
      <4>2. ASSUME NEW i \in pos .. Len(file) PROVE i = pos \/ i \in pos' .. Len(file')
        BY <1>0, <3>1
      <4> QED BY <3>1, <4>1, <4>2 DEF Unread
    <3> QED BY <3>1, <3>2 DEF Replaying
  <2>3. CASE RestoreEnd(j)
    <3>1. /\ UNCHANGED <<stopping, locks, owed, file, replayed, pos>>
          /\ stopping \/ pos = Len(file) + 1
      BY <2>3 DEF RestoreEnd, RestoreUntil, Reading, record, bounds
    <3>2. ~stopping => Unread = {}
      BY <1>0, <3>1 DEF Unread
    <3> QED BY <3>1, <3>2 DEF Replaying
  <2>4. CASE Callback(j)
    <3>1. UNCHANGED <<stopping, locks, owed, replayed>> /\ MutexFree
      BY <2>4 DEF Callback, Truncate, bounds
    <3> QED BY <3>1 DEF Replaying, Unread
  <2> QED BY <1>2, <2>1, <2>2, <2>3, <2>4 DEF Restore
<1>3. CASE Environment
  <2>1. CASE Lock
    <3>1. locks' # 0
      BY <1>0, <2>1 DEF Lock
    <3> QED BY <3>1 DEF Replaying
  <2>2. CASE Unlock \/ Rotate
    <3>1. UNCHANGED <<stopping, locks, owed, replayed>> /\ MutexFree
      BY <2>2 DEF Unlock, Rotate, Truncate, restores, bounds
    <3> QED BY <3>1 DEF Replaying, Unread
  <2>3. CASE \/ \E j \in AppJobs : RequestRestore(j)
             \/ \E j \in LinkJobs : LinkUp(j)
    <3>1. PICK j \in Jobs : Post(j)
      BY <2>3 DEF RequestRestore, LinkUp, Jobs
    <3>2. MutexFree' <=> MutexFree
      BY <1>0, <3>1 DEF Post, MutexFree
    <3> QED BY <2>3, <3>1, <3>2, <1>f DEF RequestRestore, LinkUp, Post, record, bounds
  <2>4. CASE RestoreCancel
    <3>1. MutexFree' <=> MutexFree
      BY <1>0, <2>4 DEF RestoreCancel, MutexFree
    <3> QED BY <2>4, <3>1, <1>f DEF RestoreCancel, record, bounds
  <2>5. CASE LinkDown \/ Suspend
    BY <2>5, <1>f DEF LinkDown, Suspend, record, restores, bounds, MutexFree
  <2>6. CASE Stop
    BY <2>6 DEF Stop, Replaying
  <2>7. CASE Crash
    BY <2>7 DEF Crash, Restart, Replaying
  <2> QED BY <1>3, <2>1, <2>2, <2>3, <2>4, <2>5, <2>6, <2>7 DEF Environment
<1>4. CASE UNCHANGED vars
  BY <1>4, <1>f DEF vars, record, restores, bounds, MutexFree
<1> QED BY <1>1, <1>2, <1>3, <1>4 DEF Next

\* In server mode, as long as nobody calls lock, what has reached the target is in the
\* file, over suspensions, rotates, restores and restarts.
THEOREM WriteAheadCorrect == Spec => []WriteAhead
<1>1. Init => Plain /\ Ahead
  BY EmptyType DEF Init, Plain, Ahead
<1>2. TypeOK /\ Ahead => WriteAhead
  BY DEF TypeOK, Ahead, WriteAhead
<1> QED BY <1>1, <1>2, TypeInit, TypeStep, PlainStep, AheadStep, PTL DEF Spec

\* A restore has passed everything that was recorded to its target, when it ends, as
\* long as nobody calls lock and the program is not being stopped.
THEOREM ReplayCorrect == Spec => []ReplayComplete
<1>1. Init => Plain /\ Replaying
  BY EmptyType DEF Init, Plain, Replaying
<1>2. Replaying => ReplayComplete
  BY DEF Replaying, ReplayComplete, Unread
<1> QED BY <1>1, <1>2, TypeInit, TypeStep, PlainStep, ReplayStep, PTL DEF Spec
\* What holds as long as nobody has called lock held before.
LEMMA StillZero ==
  ASSUME TypeOK, [Next]_vars, locks' = 0
  PROVE  locks = 0
<1>1. CASE Lock
  <2>1. locks' = locks + 1 /\ locks \in Nat
    BY <1>1 DEF Lock, TypeOK
  <2> QED BY <2>1
<1>2. CASE ~Lock
  <2>1. UNCHANGED locks
    BY <1>2 DEF Next, Call, Restore, Environment, Arrive, Record, Write, Writing, Check,
       Forward, RestoreBegin, RestoreFrom, RestoreLine, RestoreEnd, RestoreUntil, Reading, Callback,
       Unlock, Rotate, RequestRestore, LinkUp, LinkDown, RestoreCancel, Suspend, Stop, Crash,
       Restart, bounds, vars
  <2> QED BY <2>1
<1> QED BY <1>1, <1>2

-----------------------------------------------------------------------------
(* A restore that holds the mutex comes to its end *)

OneReader == \A j, k \in Jobs : job[j] = "reading" /\ job[k] = "reading" => j = k

\* It reads in the file, or stands right behind it.
InFile == ~MutexFree => pos <= Len(file) + 1

Holding == OneReader /\ InFile

\* While a restore reads nobody writes, truncates or begins to read.
LEMMA Undisturbed ==
  ASSUME TypeOK, Holding, [Next]_vars, ~MutexFree
  PROVE  \/ file' = file /\ pos' = pos
            /\ \A j \in Jobs : job'[j] = "reading" => job[j] = "reading"
         \/ \E j \in Jobs : RestoreLine(j)
         \/ MutexFree'
<1>0. job \in [Jobs -> JobStates]
  BY DEF TypeOK
<1>1. ASSUME NEW m \in Messages, Call(m)
      PROVE  UNCHANGED <<file, pos, job>>
  BY <1>1 DEF Call, Arrive, Record, Write, Writing, Check, Forward, record, restores
<1>2. ASSUME NEW j \in Jobs, Restore(j)
      PROVE  \/ file' = file /\ pos' = pos /\ \A k \in Jobs : job'[k] = "reading" => job[k] = "reading"
             \/ RestoreLine(j)
  <2>1. CASE RestoreBegin(j)
    BY <2>1 DEF RestoreBegin, RestoreFrom
  <2>2. CASE RestoreEnd(j)
    BY <1>0, <2>2 DEF RestoreEnd, RestoreUntil, Reading, record
  <2>3. CASE Callback(j)
    BY <2>3 DEF Callback, Truncate
  <2> QED BY <1>2, <2>1, <2>2, <2>3 DEF Restore
<1>3. CASE Lock \/ Unlock \/ Rotate
  BY <1>3 DEF Lock, Unlock, Rotate, Truncate
<1>4. ASSUME NEW j \in Jobs, Post(j), UNCHANGED file
      PROVE  file' = file /\ pos' = pos /\ \A k \in Jobs : job'[k] = "reading" => job[k] = "reading"
  BY <1>0, <1>4 DEF Post
<1>5. CASE \/ \E j \in AppJobs : RequestRestore(j)
           \/ \E j \in LinkJobs : LinkUp(j)
  BY <1>4, <1>5 DEF RequestRestore, LinkUp, record, Jobs
<1>6. CASE RestoreCancel
  BY <1>0, <1>6 DEF RestoreCancel, record
<1>7. CASE LinkDown \/ Suspend \/ Stop
  BY <1>7 DEF LinkDown, Suspend, Stop, record, restores
<1>8. CASE Crash
  <2>1. job' = [j \in Jobs |-> IF job[j] = "none" THEN "none" ELSE "cancelled"]
    BY <1>8 DEF Crash, Restart
  <2> QED BY <2>1 DEF MutexFree
<1>9. CASE UNCHANGED vars
  BY <1>9 DEF vars, record, restores
<1> QED BY <1>1, <1>2, <1>3, <1>5, <1>6, <1>7, <1>8, <1>9 DEF Next, Environment

\* Nobody begins to read who does not begin at the first line, and alone.
LEMMA Beginning ==
  ASSUME TypeOK, [Next]_vars, MutexFree, ~MutexFree'
  PROVE  pos' = 1 /\ \E j \in Jobs : job' = [job EXCEPT ![j] = "reading"]
<1>0. job \in [Jobs -> JobStates]
  BY DEF TypeOK
<1>f. (\A j \in Jobs : job'[j] = "reading" => job[j] = "reading") => FALSE
  BY DEF MutexFree
<1>1. ASSUME NEW m \in Messages, Call(m) PROVE FALSE
  BY <1>1, <1>f DEF Call, Arrive, Record, Write, Writing, Check, Forward, restores
<1>2. ASSUME NEW j \in Jobs, Restore(j) PROVE RestoreBegin(j)
  <2>1. CASE RestoreLine(j) \/ RestoreEnd(j)
    BY <2>1 DEF RestoreLine, RestoreEnd, RestoreUntil, Reading, MutexFree
  <2>2. CASE Callback(j)
    BY <1>0, <1>f, <2>2 DEF Callback
  <2> QED BY <1>2, <2>1, <2>2 DEF Restore
<1>3. CASE Lock \/ Unlock \/ Rotate \/ LinkDown \/ Suspend \/ Stop \/ UNCHANGED vars
  BY <1>3, <1>f DEF Lock, Unlock, Rotate, LinkDown, Suspend, Stop, restores, vars
<1>4. ASSUME NEW j \in Jobs, Post(j) PROVE FALSE
  BY <1>0, <1>4, <1>f DEF Post
<1>5. CASE \/ \E j \in AppJobs : RequestRestore(j)
           \/ \E j \in LinkJobs : LinkUp(j)
  BY <1>4, <1>5 DEF RequestRestore, LinkUp, Jobs
<1>6. CASE RestoreCancel
  BY <1>0, <1>6, <1>f DEF RestoreCancel
<1>7. CASE Crash
  BY <1>7, <1>f DEF Crash, Restart
<1> QED BY <1>1, <1>2, <1>3, <1>5, <1>6, <1>7
        DEF Next, Environment, RestoreBegin, RestoreFrom

\* One restore reads at a time, and it does not leave the file.
LEMMA HoldingStep == TypeOK /\ Holding /\ [Next]_vars => Holding'
<1> SUFFICES ASSUME TypeOK, Holding, [Next]_vars, ~MutexFree' PROVE Holding'
  BY DEF Holding, OneReader, InFile, MutexFree
<1>0. job \in [Jobs -> JobStates] /\ file \in Seq(Messages) /\ pos \in Nat \ {0}
      /\ file' \in Seq(Messages)
  BY TypeStep DEF TypeOK
<1>1. CASE MutexFree
  <2>1. PICK j \in Jobs : job' = [job EXCEPT ![j] = "reading"]
    BY <1>1, Beginning
  <2>2. \A k \in Jobs : job'[k] = "reading" => k = j
    BY <1>0, <1>1, <2>1 DEF MutexFree
  <2>3. pos' <= Len(file') + 1
    BY <1>0, <1>1, Beginning
  <2> QED BY <2>2, <2>3 DEF Holding, OneReader, InFile
<1>2. CASE ~MutexFree
  <2>1. CASE file' = file /\ pos' = pos /\ \A j \in Jobs : job'[j] = "reading" => job[j] = "reading"
    BY <1>2, <2>1 DEF Holding, OneReader, InFile
  <2>2. ASSUME NEW j \in Jobs, RestoreLine(j) PROVE Holding'
    <3>1. UNCHANGED <<file, job>> /\ pos <= Len(file) /\ pos' = pos + 1
      BY <2>2 DEF RestoreLine, Reading, record
    <3> QED BY <1>0, <3>1 DEF Holding, OneReader, InFile
  <2> QED BY <1>2, <2>1, <2>2, Undisturbed
<1> QED BY <1>1, <1>2

\* At the start nobody reads.
LEMMA HoldingInit == Init => Holding
BY DEF Init, Holding, OneReader, InFile, MutexFree

\* The safety half of CallsReturn: whoever waits for the mutex waits for one restore, which
\* stands in the file or right behind it, so that one of its two steps is possible and it is
\* stuck nowhere (the loop of apply_backlog_ ends at the end of the file or at the stop).
THEOREM HolderCorrect == Spec => []Holding
BY HoldingInit, TypeInit, TypeStep, HoldingStep, PTL DEF Spec

\* While it reads the file is as it found it, and it goes forward by one line at a time:
\* it comes to the end after as many steps as there are lines.
ReadsOn ==
  \A j \in Jobs : job[j] = "reading" /\ job'[j] = "reading" =>
    file' = file /\ pos' \in {pos, pos + 1}

\* No thread writes, truncates, unlocks or restores while a restore reads (backlog.cpp:182,
\* 324, 332, 342, 349 take one mutex), so a restore reads each line of one file once.
THEOREM ReadingCorrect == Spec => [][ReadsOn]_vars
<1>1. TypeOK /\ Holding /\ [Next]_vars => [ReadsOn]_vars
  <2> SUFFICES ASSUME TypeOK, Holding, [Next]_vars, NEW j \in Jobs,
                      job[j] = "reading", job'[j] = "reading"
               PROVE  file' = file /\ pos' \in {pos, pos + 1}
    BY DEF ReadsOn
  <2>1. ~MutexFree /\ ~MutexFree'
    BY DEF MutexFree
  <2>2. ASSUME NEW k \in Jobs, RestoreLine(k) PROVE file' = file /\ pos' = pos + 1
    BY <2>2 DEF RestoreLine, Reading, record
  <2> QED BY <2>1, <2>2, Undisturbed
<1> QED BY <1>1, HoldingInit, TypeInit, TypeStep, HoldingStep, PTL DEF Spec

-----------------------------------------------------------------------------
(* While the link is up, what is in the record is on its way *)

\* A restore of the link will come to it.
ToCome(m) ==
  \E j \in LinkJobs :
    \/ job[j] = "posted"
    \/ job[j] = "reading" /\ \E i \in pos .. Len(file) : file[i] = m

Gone == (forwarded \cup replayed) \cup cut

\* Past the writing of the record, and not yet through.
PassingOn == {"check", "forward"}

OnItsWay == link => \A m \in Recorded : m \in Gone \/ pc[m] \in PassingOn \/ ToCome(m)

\* A call that has written its record forwards it when the link is up.
Passing == (link => ~active) /\ (locks = 0 => OnItsWay)

\* A step that leaves the restores and the file alone.
LEMMA ToComeFrame ==
  ASSUME NEW m, UNCHANGED <<pos, file>>, ToCome(m),
         \A j \in LinkJobs : job[j] \in {"posted", "reading"} => job'[j] = job[j]
  PROVE  ToCome(m)'
BY DEF ToCome

\* Each step leaves what is in the file to a restore of the link, or to the call itself.
LEMMA PassingStep ==
  ASSUME "cancel" \notin Env, TypeOK, Plain, Holding, Passing, [Next]_vars
  PROVE  Passing'
<1>0. /\ file \in Seq(Messages) /\ pos \in Nat \ {0}
      /\ job \in [Jobs -> JobStates] /\ pc \in [Messages -> CallStates]
      /\ LinkJobs \subseteq Jobs
  BY DEF TypeOK, Jobs
<1>1. link' => ~active'
  BY DEF Passing, Next, Call, Restore, Environment, Arrive, Record, Write, Writing, Check,
     Forward, RestoreBegin, RestoreFrom, RestoreLine, RestoreEnd, RestoreUntil, Reading, Callback,
     Lock, Unlock, Rotate, RequestRestore, LinkUp, LinkDown, RestoreCancel, Suspend, Stop, Crash,
     Restart, vars
<1>2. SUFFICES ASSUME locks' = 0, link', NEW m \in Range(file')
               PROVE  m \in Gone' \/ pc'[m] \in PassingOn \/ ToCome(m)'
  <2>1. locks' = 0 => Recorded' = Range(file')
    BY PlainStep, EmptyType DEF Plain, Recorded
  <2> QED BY <1>1, <2>1 DEF Passing, OnItsWay
<1>3. locks = 0 /\ ~locked /\ ss = <<>> /\ buffer = <<>>
  BY <1>2, StillZero DEF Plain
<1>m. m \in Messages
  BY <1>2, TypeStep, RangeType DEF TypeOK
<1>4. CASE ~link
  <2>1. PICK j \in LinkJobs : Post(j)
    BY <1>2, <1>4 DEF Next, Call, Restore, Environment, Arrive, Record, Write, Writing, Check,
       Forward, RestoreBegin, RestoreFrom, RestoreLine, RestoreEnd, RestoreUntil, Reading, Callback,
       Lock, Unlock, Rotate, RequestRestore, LinkUp, LinkDown, RestoreCancel, Suspend, Stop, Crash,
       Restart, vars
  <2> QED BY <1>0, <2>1 DEF Post, ToCome
<1>5. CASE link
  <2>0. ~active /\ \A x \in Range(file) : x \in Gone \/ pc[x] \in PassingOn \/ ToCome(x)
    BY <1>3, <1>5 DEF Passing, OnItsWay, Recorded
  <2>1. ASSUME NEW x \in Messages, Call(x) PROVE m \in Gone' \/ pc'[m] \in PassingOn \/ ToCome(m)'
    <3>1. CASE Arrive(x) \/ Record(x)
      <4>1. UNCHANGED <<file, pos, job, forwarded, replayed, cut>>
            /\ (pc[m] \in PassingOn => pc'[m] \in PassingOn)
        <5>1. PICK t \in CallStates : pc' = [pc EXCEPT ![x] = t]
          BY <3>1 DEF Arrive, Record, CallStates
        <5>2. pc[x] \notin PassingOn
          BY <3>1 DEF Arrive, Record, PassingOn
        <5> QED BY <1>0, <1>m, <3>1, <5>1, <5>2 DEF Arrive, Record, record, restores
      <4> QED BY <1>2, <2>0, <4>1, ToComeFrame DEF Gone
    <3>2. CASE Write(x)
      <4>1. /\ Range(file') = Range(file) \cup {x} /\ MutexFree
            /\ UNCHANGED <<job, forwarded, replayed, cut>> /\ pc' = [pc EXCEPT ![x] = "check"]
        BY <1>3, <3>2, WritePlain DEF Write, Writing, restores
      <4>2. CASE m = x
        BY <1>0, <4>1, <4>2 DEF PassingOn
      <4>3. CASE m # x
        <5>1. m \in Range(file) /\ (ToCome(m) => ToCome(m)')
          BY <1>0, <1>2, <4>1, <4>3 DEF ToCome, MutexFree
        <5> QED BY <1>0, <2>0, <4>1, <4>3, <5>1 DEF Gone
      <4> QED BY <4>2, <4>3
    <3>3. CASE Check(x)
      <4>1. /\ UNCHANGED <<file, pos, job, forwarded, replayed, cut>>
            /\ pc' = [pc EXCEPT ![x] = "forward"]
        BY <2>0, <3>3 DEF Check, record, restores
      <4> QED BY <1>0, <1>2, <2>0, <4>1, ToComeFrame DEF Gone, PassingOn
    <3>4. CASE Forward(x)
      <4>1. /\ UNCHANGED <<file, pos, job, replayed, cut>> /\ forwarded' = forwarded \cup {x}
            /\ pc' = [pc EXCEPT ![x] = "done"]
        BY <3>4 DEF Forward, record, restores
      <4> QED BY <1>0, <1>2, <2>0, <4>1, ToComeFrame DEF Gone
    <3> QED BY <2>1, <3>1, <3>2, <3>3, <3>4 DEF Call
  <2>2. ASSUME NEW j \in Jobs, Restore(j) PROVE m \in Gone' \/ pc'[m] \in PassingOn \/ ToCome(m)'
    <3>0. UNCHANGED <<pc, forwarded>>
      BY <2>2 DEF Restore, RestoreBegin, RestoreFrom, RestoreLine, RestoreEnd, RestoreUntil,
                  Reading, Callback, calls
    <3>1. CASE RestoreBegin(j)
      <4>1. /\ file' = file /\ pos' = 1 /\ UNCHANGED <<replayed, cut>> /\ MutexFree
            /\ job' = [job EXCEPT ![j] = "reading"]
        BY <1>3, <3>1, ReleasePlain DEF RestoreBegin, RestoreFrom
      <4>2. PICK i \in 1 .. Len(file) : file[i] = m
        BY <1>0, <1>2, <4>1 DEF Range
      <4>3. ToCome(m) => ToCome(m)'
        <5>1. CASE j \in LinkJobs
          BY <1>0, <4>1, <4>2, <5>1 DEF ToCome
        <5>2. CASE j \notin LinkJobs
          BY <1>0, <4>1, <5>2 DEF ToCome, MutexFree
        <5> QED BY <5>1, <5>2
      <4> QED BY <1>2, <2>0, <3>0, <4>1, <4>3 DEF Gone
    <3>2. CASE RestoreLine(j)
      <4>1. /\ UNCHANGED <<file, job, cut>> /\ pos' = pos + 1
            /\ replayed' = replayed \cup {file[pos]}
        BY <3>2 DEF RestoreLine, Reading, record
      <4>2. ToCome(m) => m = file[pos] \/ ToCome(m)'
        <5>1. \A i \in pos .. Len(file) : i = pos \/ i \in (pos + 1) .. Len(file)
          BY <1>0
        <5> QED BY <4>1, <5>1 DEF ToCome
      <4> QED BY <1>2, <2>0, <3>0, <4>1, <4>2 DEF Gone
    <3>3. CASE RestoreEnd(j)
      <4>1. /\ UNCHANGED <<file, pos, replayed>> /\ job[j] = "reading"
            /\ stopping \/ pos = Len(file) + 1
            /\ job' = [job EXCEPT ![j] = IF j \in LinkJobs THEN "callback" ELSE "done"]
            /\ cut' = IF stopping /\ j \in LinkJobs
                       THEN cut \cup {file[i] : i \in pos .. Len(file)} ELSE cut
        BY <3>3 DEF RestoreEnd, RestoreUntil, Reading, record
      <4>2. ASSUME ToCome(m), ~ToCome(m)' PROVE m \in cut'
        <5>1. PICK k \in LinkJobs : \/ job[k] = "posted"
                                    \/ job[k] = "reading" /\ \E i \in pos .. Len(file) : file[i] = m
          BY <4>2 DEF ToCome
        <5>2. k = j
          BY <1>0, <4>1, <4>2, <5>1 DEF ToCome
        <5>3. PICK i \in pos .. Len(file) : file[i] = m
          BY <4>1, <5>1, <5>2
        <5>4. stopping
          BY <1>0, <4>1, <5>3
        <5> QED BY <4>1, <5>2, <5>3, <5>4
      <4>3. cut \subseteq cut'
        BY <4>1
      <4> QED BY <1>2, <2>0, <3>0, <4>1, <4>2, <4>3 DEF Gone
    <3>4. CASE Callback(j)
      BY <1>2, <3>4, EmptyType DEF Callback, Truncate
    <3> QED BY <2>2, <3>1, <3>2, <3>3, <3>4 DEF Restore
  <2>3. CASE Environment
    <3>1. CASE Lock \/ Unlock \/ LinkDown \/ Crash \/ RestoreCancel
      <4>1. CASE Lock
        <5>1. locks' = locks + 1
          BY <4>1 DEF Lock
        <5> QED BY <1>2, <1>3, <5>1
      <4> QED BY <1>2, <1>3, <3>1, <4>1 DEF Unlock, LinkDown, Crash, Restart, RestoreCancel
    <3>2. CASE Rotate
      BY <1>2, <3>2, EmptyType DEF Rotate, Truncate
    <3>3. CASE \/ Suspend \/ Stop \/ \E j \in LinkJobs : LinkUp(j)
               \/ \E j \in AppJobs : RequestRestore(j)
      <4>1. /\ UNCHANGED <<pc, file, pos, forwarded, replayed, cut>>
            /\ \A k \in LinkJobs : job[k] \in {"posted", "reading"} => job'[k] = job[k]
        BY <1>0, <1>5, <3>3 DEF Suspend, Stop, LinkUp, RequestRestore, Post, calls, record, restores
      <4> QED BY <1>2, <2>0, <4>1, ToComeFrame DEF Gone
    <3> QED BY <2>3, <3>1, <3>2, <3>3 DEF Environment
  <2>4. CASE UNCHANGED vars
    BY <1>2, <2>0, <2>4, ToComeFrame DEF vars, calls, record, restores, Gone
  <2> QED BY <2>1, <2>2, <2>3, <2>4 DEF Next
<1> QED BY <1>4, <1>5

\* The safety half of OutageReplayed: while the link is up whatever is in the record was
\* passed on or will be, by the call that recorded it or by a restore that is posted or has
\* not come to it yet; or the stop of the program has cut that restore short. Rotates,
\* outages and restarts of the process change nothing about it; a restore that is
\* cancelled does, and so do records under the lock, which a restore may miss.
THEOREM OnItsWayCorrect ==
  ASSUME "cancel" \notin Env
  PROVE  Spec => [](locks = 0 => OnItsWay)
<1>1. Init => Plain /\ Passing
  <2> SUFFICES ASSUME Init PROVE Plain /\ Passing
    OBVIOUS
  <2>1. ~link /\ ~locked /\ ss = <<>> /\ buffer = <<>>
    BY DEF Init
  <2> QED BY <2>1 DEF Plain, Passing, OnItsWay
<1>2. Passing => (locks = 0 => OnItsWay)
  BY DEF Passing
<1>3. TypeOK /\ Plain /\ Holding /\ Passing /\ [Next]_vars => Passing'
  BY PassingStep
<1> QED BY <1>1, <1>2, <1>3, TypeInit, TypeStep, PlainStep, HoldingInit, HoldingStep, PTL DEF Spec

-----------------------------------------------------------------------------
(* A message is recorded once *)

\* What is in the file was put there by a call that has gone on since; so no call that
\* has still to write can write it again.
Once ==
  locks = 0 =>
    IsInjective(file) /\ \A m \in Range(file) : pc[m] \in {"check", "forward", "done"}

\* A record that is not in the file yet makes it longer and no two records alike.
LEMMA InjectiveAppend ==
  ASSUME NEW S, NEW s \in Seq(S), NEW e \in S, IsInjective(s), e \notin Range(s)
  PROVE  IsInjective(Append(s, e))
<1> DEFINE t == Append(s, e)
<1>1. /\ DOMAIN t = DOMAIN s \cup {Len(s) + 1} /\ t[Len(s) + 1] = e
      /\ \A i \in DOMAIN s : t[i] = s[i]
  OBVIOUS
<1>2. \A i \in DOMAIN s : s[i] # e
  BY DEF Range
<1> HIDE DEF t
<1>3. IsInjective(t)
  BY <1>1, <1>2 DEF IsInjective
<1> QED BY <1>3 DEF t

\* Each step keeps the records of the file apart: a restore releases nothing as long as
\* nothing was written under the lock.
LEMMA OnceStep == TypeOK /\ Plain /\ Once /\ [Next]_vars => Once'
<1> SUFFICES ASSUME TypeOK, Plain, Once, [Next]_vars, locks' = 0 PROVE Once'
  BY DEF Once
<1>1. locks = 0
  BY StillZero
<1>2. /\ file \in Seq(Messages) /\ pc \in [Messages -> CallStates]
      /\ IsInjective(file) /\ \A m \in Range(file) : pc[m] \in {"check", "forward", "done"}
  BY <1>1 DEF TypeOK, Once
<1>3. ASSUME file' = file,
             \A m \in Messages :
               pc[m] \in {"check", "forward", "done"} => pc'[m] \in {"check", "forward", "done"}
      PROVE  Once'
  BY <1>2, <1>3, RangeType DEF Once
<1>4. ASSUME file' = <<>>
      PROVE  Once'
  BY <1>4 DEF Once, IsInjective, Range
<1>5. ASSUME NEW m \in Messages, Call(m) PROVE Once'
  <2>1. CASE Arrive(m) \/ Record(m) \/ Check(m) \/ Forward(m)
    BY <1>2, <1>3, <2>1 DEF Arrive, Record, Check, Forward, record
  <2>2. CASE Write(m)
    <3>1. file' = Append(file, m) /\ Range(file') = Range(file) \cup {m}
      BY <1>1, <2>2, WritePlain
    <3>2. m \notin Range(file)
      BY <1>2, <2>2 DEF Write, Writing
    <3>3. IsInjective(file')
      BY <1>2, <3>1, <3>2, InjectiveAppend
    <3>4. pc' = [pc EXCEPT ![m] = "check"]
      BY <2>2 DEF Write, Writing
    <3> QED BY <1>2, <3>1, <3>3, <3>4, RangeType DEF Once
  <2> QED BY <1>5, <2>1, <2>2 DEF Call
<1>6. ASSUME NEW j \in Jobs, Restore(j) PROVE Once'
  <2>1. CASE RestoreBegin(j)
    BY <1>1, <1>3, <2>1, ReleasePlain DEF RestoreBegin, RestoreFrom, calls
  <2>2. CASE RestoreLine(j) \/ RestoreEnd(j)
    BY <1>3, <2>2 DEF RestoreLine, RestoreEnd, RestoreUntil, Reading, record
  <2>3. CASE Callback(j)
    BY <1>4, <2>3 DEF Callback, Truncate
  <2> QED BY <1>6, <2>1, <2>2, <2>3 DEF Restore
<1>7. CASE Environment
  <2>1. CASE Lock
    BY <1>3, <2>1 DEF Lock, calls, record
  <2>2. CASE Unlock
    BY <1>1, <1>3, <2>2, ReleasePlain DEF Unlock, calls
  <2>3. CASE Rotate
    BY <1>4, <2>3 DEF Rotate, Truncate
  <2>4. CASE \/ \E j \in AppJobs : RequestRestore(j)
             \/ \E j \in LinkJobs : LinkUp(j)
             \/ LinkDown \/ RestoreCancel \/ Suspend \/ Stop
    BY <1>3, <2>4 DEF RequestRestore, LinkUp, LinkDown, RestoreCancel, Suspend, Stop,
                      record, calls
  <2>5. CASE Crash
    <3>1. file' = file
      BY <1>1, <2>5, CrashPlain
    <3>2. pc' = [m \in Messages |-> IF pc[m] = "idle" THEN "idle" ELSE "done"]
      BY <2>5 DEF Crash, Restart
    <3> QED BY <1>2, <1>3, <3>1, <3>2
  <2> QED BY <1>7, <2>1, <2>2, <2>3, <2>4, <2>5 DEF Environment
<1>8. CASE UNCHANGED vars
  BY <1>3, <1>8 DEF vars, calls, record
<1> QED BY <1>5, <1>6, <1>7, <1>8 DEF Next

\* Until somebody calls lock a message is recorded once, over restores, rotates, outages
\* and restarts; and lock is the only way to two copies (backlog.cpp:335, 351).
THEOREM RecordedOnceCorrect == Spec => [](locks = 0 => RecordedOnce)
<1>1. Init => Plain /\ Once
  <2> SUFFICES ASSUME Init PROVE Plain /\ Once
    OBVIOUS
  <2>1. ~locked /\ ss = <<>> /\ buffer = <<>> /\ file = <<>>
    BY DEF Init
  <2> QED BY <2>1 DEF Plain, Once, IsInjective, Range
<1>2. TypeOK /\ Plain /\ Once => (locks = 0 => RecordedOnce)
  <2> SUFFICES ASSUME TypeOK, Plain, Once, locks = 0 PROVE RecordedOnce
    OBVIOUS
  <2>1. file \o buffer = file
    BY DEF TypeOK, Plain
  <2> QED BY <2>1 DEF Once, RecordedOnce
<1> QED BY <1>1, <1>2, TypeInit, TypeStep, PlainStep, OnceStep, PTL DEF Spec

-----------------------------------------------------------------------------
(* What may be lost while nobody locks or rotates *)

\* Applications do not lock or rotate, and the process does not end.
Alone == Env \cap {"lock", "rotate", "crash"} = {}

Still == locks = 0

\* The ways for a message not to be lost although it was not forwarded.
Spared == ((replayed \cup Range(file)) \cup skipped) \cup ((crossed \cup late) \cup cut)

\* What has been read was replayed, and what the callback is to truncate was replayed,
\* came too late, or was left by a restore that the stop of the program cut short.
ReadReplayed ==
  /\ ~MutexFree => \A i \in DOMAIN file : i < pos => file[i] \in replayed
  /\ (\E j \in Jobs : job[j] = "callback") => Range(file) \subseteq (replayed \cup late) \cup cut

\* A message at its second reading of _active was recorded, or finds it false again unless
\* the link was lost meanwhile; so it is forwarded if it was not recorded.
Accounted ==
  \A m \in Messages \ Replies :
    /\ pc[m] = "check" => ~active \/ m \in Spared
    /\ pc[m] = "done" => m \in forwarded \/ m \in Spared

Safe == Still /\ ReadReplayed /\ Accounted

\* Steps that neither move a call nor take anything away keep every message accounted for.
LEMMA AccountedFrame ==
  ASSUME Accounted, UNCHANGED <<pc, forwarded>>, active' => active, Spared \subseteq Spared'
  PROVE  Accounted'
BY DEF Accounted

\* No step loses a message but in the windows of LossOnlyInWindows.
LEMMA SafeStep == Alone /\ TypeOK /\ Plain /\ Safe /\ [Next]_vars => Safe'
<1> SUFFICES ASSUME Alone, TypeOK, Plain, Safe, [Next]_vars PROVE Safe'
  OBVIOUS
<1>0. /\ file \in Seq(Messages) /\ pos \in Nat \ {0}
      /\ job \in [Jobs -> JobStates] /\ pc \in [Messages -> CallStates]
      /\ locks = 0 /\ ~locked /\ buffer = <<>>
  BY DEF TypeOK, Safe, Still, Plain
<1>e. /\ "lock" \notin Env /\ "rotate" \notin Env /\ "crash" \notin Env
  BY DEF Alone
<1>f. UNCHANGED <<active, locks, calls, record, restores>> => Safe'
  BY DEF Safe, Still, ReadReplayed, Accounted, Spared, MutexFree, calls, record, restores
<1>1. ASSUME NEW m \in Messages, Call(m) PROVE Safe'
  <2>1. CASE Arrive(m)
    <3>1. /\ UNCHANGED <<active, locks, forwarded, crossed, skipped, file, late,
                         pos, job, replayed, cut>>
          /\ pc' = [pc EXCEPT ![m] = IF active /\ m \notin Replies THEN "record" ELSE "check"]
      BY <2>1 DEF Arrive, record, restores, bounds
    <3> QED BY <1>0, <3>1 DEF Safe, Still, ReadReplayed, Accounted, Spared, MutexFree
  <2>2. CASE Record(m)
    <3>1. /\ UNCHANGED <<active, locks, forwarded, crossed, file, late,
                         pos, job, replayed, cut>>
          /\ pc' = [pc EXCEPT ![m] = IF suspended THEN "check" ELSE "write"]
          /\ skipped' = IF suspended THEN skipped \cup {m} ELSE skipped
      BY <2>2 DEF Record, record, restores, bounds
    <3> QED BY <1>0, <3>1 DEF Safe, Still, ReadReplayed, Accounted, Spared, MutexFree
  <2>3. CASE Write(m)
    <3>1. /\ UNCHANGED <<active, locks, forwarded, crossed, skipped,
                         pos, job, replayed, cut>>
          /\ pc' = [pc EXCEPT ![m] = "check"] /\ MutexFree
          /\ late' = IF \E j \in Jobs : job[j] = "callback" THEN late \cup {m} ELSE late
      BY <2>3 DEF Write, Writing, restores, bounds
    <3>2. Range(file') = Range(file) \cup {m}
      BY <1>0, <2>3, WritePlain
    <3>3. ReadReplayed'
      BY <3>1, <3>2 DEF Safe, ReadReplayed, MutexFree
    <3>4. Spared \cup {m} \subseteq Spared'
      BY <3>1, <3>2 DEF Spared
    <3>5. Accounted'
      BY <1>0, <3>1, <3>4 DEF Safe, Accounted
    <3> QED BY <3>1, <3>3, <3>5 DEF Safe, Still
  <2>4. CASE Check(m)
    <3>1. /\ UNCHANGED <<active, locks, forwarded, crossed, skipped, file, late,
                         pos, job, replayed, cut>>
          /\ pc[m] = "check" /\ pc'[m] \in {"forward", "done"} /\ (~active => pc'[m] = "forward")
          /\ \A x \in Messages \ {m} : pc'[x] = pc[x]
      BY <1>0, <2>4 DEF Check, record, restores, bounds
    <3> QED BY <1>0, <3>1 DEF Safe, Still, ReadReplayed, Accounted, Spared, MutexFree
  <2>5. CASE Forward(m)
    <3>1. /\ UNCHANGED <<active, locks, crossed, skipped, file, late,
                         pos, job, replayed, cut>>
          /\ pc' = [pc EXCEPT ![m] = "done"] /\ forwarded' = forwarded \cup {m}
      BY <2>5 DEF Forward, record, restores, bounds
    <3> QED BY <1>0, <3>1 DEF Safe, Still, ReadReplayed, Accounted, Spared, MutexFree
  <2> QED BY <1>1, <2>1, <2>2, <2>3, <2>4, <2>5 DEF Call
<1>2. ASSUME NEW j \in Jobs, Restore(j) PROVE Safe'
  <2>0. UNCHANGED <<active, locks, pc, forwarded, crossed, skipped, late>>
    BY <1>2 DEF Restore, RestoreBegin, RestoreFrom, RestoreLine, RestoreEnd, RestoreUntil,
                Reading, Callback, Truncate, ReleaseLock, calls, record, bounds
  <2>1. CASE RestoreBegin(j)
    <3>1. /\ ReleaseLock /\ UNCHANGED <<replayed, cut>> /\ pos' = 1
          /\ job' = [job EXCEPT ![j] = "reading"]
      BY <2>1 DEF RestoreBegin, RestoreFrom
    <3>2. file' = file
      BY <1>0, <3>1, ReleasePlain
    <3>3. ASSUME NEW i \in DOMAIN file PROVE ~(i < pos')
      BY <1>0, <3>1
    <3>4. ASSUME NEW k \in Jobs, job'[k] = "callback" PROVE job[k] = "callback"
      BY <1>0, <3>1, <3>4
    <3>5. ReadReplayed'
      BY <2>0, <3>1, <3>2, <3>3, <3>4 DEF Safe, ReadReplayed
    <3>6. Accounted'
      BY <2>0, <3>1, <3>2, AccountedFrame DEF Safe, Spared
    <3> QED BY <2>0, <3>5, <3>6 DEF Safe, Still
  <2>2. CASE RestoreLine(j)
    <3>1. /\ UNCHANGED <<file, job, cut>> /\ pos' = pos + 1 /\ job[j] = "reading"
          /\ replayed' = replayed \cup {file[pos]}
      BY <2>2 DEF RestoreLine, Reading, record
    <3>2. ASSUME NEW i \in DOMAIN file, i < pos' PROVE i < pos \/ i = pos
      BY <1>0, <3>1, <3>2
    <3>3. ReadReplayed'
      BY <2>0, <3>1, <3>2 DEF Safe, ReadReplayed, MutexFree
    <3>4. Accounted'
      BY <2>0, <3>1, AccountedFrame DEF Safe, Spared
    <3> QED BY <2>0, <3>3, <3>4 DEF Safe, Still
  <2>3. CASE RestoreEnd(j)
    <3>1. /\ UNCHANGED <<file, replayed, pos>> /\ job[j] = "reading"
          /\ stopping \/ pos = Len(file) + 1
          /\ job' = [job EXCEPT ![j] = IF j \in LinkJobs THEN "callback" ELSE "done"]
          /\ cut' = IF stopping /\ j \in LinkJobs
                     THEN cut \cup {file[i] : i \in pos .. Len(file)} ELSE cut
      BY <2>3 DEF RestoreEnd, RestoreUntil, Reading, record
    <3>2. ~MutexFree
      BY <3>1 DEF MutexFree
    <3>3. ASSUME NEW i \in DOMAIN file, j \in LinkJobs PROVE file[i] \in replayed \cup cut'
      <4>1. CASE i < pos
        BY <3>2, <4>1 DEF Safe, ReadReplayed
      <4>2. CASE i \in pos .. Len(file)
        <5>1. stopping
          BY <1>0, <3>1, <4>2
        <5> QED BY <3>1, <3>3, <4>2, <5>1
      <4>3. i < pos \/ i \in pos .. Len(file)
        BY <1>0
      <4> QED BY <4>1, <4>2, <4>3
    <3>4. j \in LinkJobs => Range(file) \subseteq replayed \cup cut'
      BY <3>3 DEF Range
    <3>5. ASSUME NEW k \in Jobs, job'[k] = "callback" PROVE j \in LinkJobs \/ job[k] = "callback"
      BY <1>0, <3>1, <3>5
    <3>6. cut \subseteq cut'
      BY <3>1
    <3>7. (\E k \in Jobs : job'[k] = "callback") => Range(file) \subseteq (replayed \cup late) \cup cut'
      BY <3>4, <3>5, <3>6 DEF Safe, ReadReplayed
    <3>8. ReadReplayed'
      <4>1. \A i \in DOMAIN file : i < pos => file[i] \in replayed
        BY <3>2 DEF Safe, ReadReplayed
      <4>2. /\ file' = file /\ replayed' = replayed /\ late' = late /\ pos' = pos
        BY <2>0, <3>1
      <4> QED BY <3>7, <4>1, <4>2 DEF ReadReplayed
    <3>9. Accounted'
      BY <2>0, <3>1, <3>6, AccountedFrame DEF Safe, Spared
    <3> QED BY <2>0, <3>8, <3>9 DEF Safe, Still
  <2>4. CASE Callback(j)
    <3>1. /\ MutexFree /\ job[j] = "callback" /\ job' = [job EXCEPT ![j] = "done"]
          /\ UNCHANGED <<replayed, cut>> /\ file' = <<>>
      BY <2>4 DEF Callback, Truncate
    <3>2. Range(file) \subseteq (replayed \cup late) \cup cut /\ Range(file') = {}
      BY <3>1, EmptyType DEF Safe, ReadReplayed
    <3>3. ReadReplayed'
      BY <3>1, <3>2 DEF ReadReplayed
    <3>4. Accounted'
      BY <2>0, <3>1, <3>2, AccountedFrame DEF Safe, Spared
    <3> QED BY <2>0, <3>3, <3>4 DEF Safe, Still
  <2> QED BY <1>2, <2>1, <2>2, <2>3, <2>4 DEF Restore
<1>3. CASE Environment
  <2>1. CASE Lock \/ Unlock \/ Rotate \/ Crash
    BY <2>1, <1>e DEF Lock, Unlock, Rotate, Crash, Restart
  <2>2. CASE Suspend \/ Stop
    BY <2>2, <1>f DEF Suspend, Stop, bounds
  <2>3. CASE \/ \E j \in AppJobs : RequestRestore(j)
             \/ \E j \in LinkJobs : LinkUp(j)
             \/ RestoreCancel
    <3>1. UNCHANGED <<locks, calls, record, pos, replayed, cut>> /\ (active' => active)
      BY <2>3 DEF RequestRestore, LinkUp, RestoreCancel, Post, bounds
    <3>2. ASSUME NEW k \in Jobs, job'[k] \in {"reading", "callback"} PROVE job'[k] = job[k]
      <4>1. CASE RestoreCancel
        BY <1>0, <3>2, <4>1 DEF RestoreCancel
      <4>2. CASE \E j \in Jobs : Post(j)
        BY <1>0, <3>2, <4>2 DEF Post
      <4> QED BY <2>3, <4>1, <4>2 DEF RequestRestore, LinkUp, Jobs
    <3>3. ReadReplayed'
      BY <3>1, <3>2 DEF Safe, ReadReplayed, MutexFree, record
    <3>4. Accounted'
      BY <3>1, AccountedFrame DEF Safe, Spared, calls, record
    <3> QED BY <3>1, <3>3, <3>4 DEF Safe, Still
  <2>4. CASE LinkDown
    <3>1. /\ UNCHANGED <<locks, pc, forwarded, skipped, record, restores>>
          /\ crossed' = crossed \cup {m \in Messages : pc[m] \notin {"idle", "done"}}
      BY <2>4 DEF LinkDown, bounds
    <3>2. Spared \subseteq Spared'
      BY <3>1 DEF Spared, record, restores
    <3>3. ASSUME NEW m \in Messages, pc[m] = "check" PROVE m \in Spared'
      BY <3>1, <3>3 DEF Spared
    <3>4. Accounted'
      BY <3>1, <3>2, <3>3 DEF Safe, Accounted
    <3>5. ReadReplayed'
      BY <3>1 DEF Safe, ReadReplayed, MutexFree, record, restores
    <3> QED BY <3>1, <3>4, <3>5 DEF Safe, Still
  <2> QED BY <1>3, <2>1, <2>2, <2>3, <2>4 DEF Environment
<1>4. CASE UNCHANGED vars
  BY <1>4, <1>f DEF vars, bounds
<1> QED BY <1>1, <1>2, <1>3, <1>4 DEF Next

\* For every number of outages and messages: in client mode a message is delivered,
\* recorded until it is, or in one of the four windows, if applications do not lock or
\* rotate and the process does not end.
THEOREM LossCorrect ==
  ASSUME Alone
  PROVE  Spec => []LossOnlyInWindows
<1>1. Init => Plain /\ Safe
  <2> SUFFICES ASSUME Init PROVE Plain /\ Safe
    OBVIOUS
  <2>1. Plain /\ Still
    BY DEF Init, Plain, Still
  <2>2. ReadReplayed /\ Accounted
    BY EmptyType DEF Init, ReadReplayed, Accounted, MutexFree
  <2> QED BY <2>1, <2>2 DEF Safe
<1>2. Safe => LossOnlyInWindows
  <2> SUFFICES ASSUME Safe, NEW m \in Returned
               PROVE  m \in Delivered \cup Recorded \cup skipped \cup crossed \cup late
                              \cup stranded \cup cut
    BY DEF LossOnlyInWindows
  <2>1. m \in forwarded \/ m \in Spared
    BY DEF Safe, Accounted, Returned
  <2> QED BY <2>1 DEF Spared, Delivered, Recorded
<1>3. TypeOK /\ Plain /\ Safe /\ [Next]_vars => Safe'
  BY SafeStep
<1> QED BY <1>1, <1>2, <1>3, TypeInit, TypeStep, PlainStep, PTL DEF Spec
=============================================================================
