------------------------------ MODULE FanoutProofs ------------------------------
(***************************************************************************)
(* What jsonrpc-repli and jsonrpc-hub promise, each by itself and the one  *)
(* behind the other, for every set of messages, members and reply targets  *)
(* and any number of restarts; and that neither does anything in the       *)
(* composition that it may not do by itself.                               *)
(***************************************************************************)
EXTENDS Fanout, FiniteSetTheorems, TLAPS

Elements(s) == {s[i] : i \in DOMAIN s}
Once(s) == \A i, j \in DOMAIN s : s[i] = s[j] => i = j

\* The way of a message through the repli.
RepliMsg(m) ==
  /\ rpc[m] \in {"forwarded", "copying", "done"} => m \in Elements(original)
  /\ rpc[m] = "new" => m \notin bypassed
  /\ rpc[m] = "pass" => m \in bypassed
  /\ rpc[m] \in {"cloned", "forwarded", "copying"} => m \notin bypassed
  /\ rpc[m] # "copying" => tl[m] = <<>>
  /\ rpc[m] \notin {"copying", "done"} \/ m \in bypassed => R!Reached(m) = {}
  /\ R!Underway(m) => targets \in lists[m]
  /\ rpc[m] \in {"copying", "done"} /\ m \notin bypassed =>
       \E l \in lists[m] : Elements(l) = R!Reached(m) \cup Elements(tl[m])

RepliInv ==
  /\ R!TypeOK /\ R!UniqueIds
  /\ \A k \in copies : k.epoch <= epoch
  /\ \A m \in Messages : RepliMsg(m)

\* The way of a message through the hub.
HubMsg(m) ==
  /\ hpc[m] \in {"new", "begun", "broadcast"} => m \notin muted
  /\ hpc[m] = "forward" => m \in muted
  /\ hpc[m] # "broadcast" => cli[m] = {}
  /\ m \in Elements(passed) <=> hpc[m] = "done"
  /\ \A c \in Members :
       /\ m \in Elements(heard[c]) =>
            hpc[m] \in {"broadcast", "done"} /\ m \notin muted /\ from[m] # c /\ c \notin cli[m]
       /\ c \in cli[m] => from[m] # c
       /\ c \in began[m] => member[c] # "out"
       /\ hpc[m] \in {"broadcast", "done"} /\ m \notin muted
          /\ c \in began[m] /\ member[c] = "in" /\ c \notin dead /\ from[m] # c
          => c \in cli[m] \/ m \in Elements(heard[c])

HubInv ==
  /\ H!TypeOK
  /\ \A c \in Members : Once(heard[c])
  /\ Once(passed)
  /\ \A m \in Messages : HubMsg(m)

\* A call of the hub by the repli is within the call of the repli; and what was over when
\* a call began is over for good.
Call(m) ==
  /\ hpc[m] # "new" /\ rpc[m] # "new" => rpc[m] \in {"copying", "done"}
  /\ InHub(m) /\ rpc[m] # "new" => rpc[m] = "copying"
  /\ m \in Elements(original) => rpc[m] \notin {"new", "pass", "cloned"}
  /\ rpc[m] = "new" /\ hpc[m] = "new" => earlier[m] = {}
  /\ \A n \in earlier[m] : Over(n)

InOrder(s, past) == \A m \in Messages : \A n \in past[m] : ~Before(s, m, n)

Link ==
  /\ earlier \in [Messages -> SUBSET Messages]
  /\ \A m \in Messages : Call(m)
  /\ InOrder(original, earlier) /\ InOrder(passed, earlier)
  /\ \A c \in Members : InOrder(heard[c], earlier)

IInv == RepliInv /\ HubInv /\ Link

-----------------------------------------------------------------------------
(* Sequences *)

\* A sequence gets one more element.
LEMMA Appended ==
  ASSUME NEW S, NEW s \in Seq(S), NEW e \in S
  PROVE  /\ Append(s, e) \in Seq(S) /\ Append(s, e) # <<>>
         /\ Append(s, e)[Len(Append(s, e))] = e
         /\ Elements(Append(s, e)) = Elements(s) \cup {e}
         /\ Once(s) /\ e \notin Elements(s) => Once(Append(s, e))
         /\ \A p, q : Before(s, p, q) => Before(Append(s, e), p, q)
         /\ e \notin Elements(s) =>
              \A p, q : Before(Append(s, e), p, q) => Before(s, p, q) \/ (q = e /\ p \in Elements(s))
  <1> DEFINE t == Append(s, e)
             n == Len(s) + 1
  <1>1. /\ t \in Seq(S) /\ t # <<>> /\ Len(t) = n /\ n \in Nat /\ n \notin DOMAIN s
        /\ DOMAIN t = DOMAIN s \cup {n} /\ t[n] = e
        /\ \A i \in DOMAIN s : t[i] = s[i] /\ i < n /\ ~(n < i)
        /\ ~(n < n)
    OBVIOUS
  <1> HIDE DEF t, n
  <1>2. Elements(t) = Elements(s) \cup {e}
    BY <1>1 DEF Elements
  <1>3. Once(s) /\ e \notin Elements(s) => Once(t)
    BY <1>1 DEF Elements, Once
  <1>4. \A p, q : Before(s, p, q) => Before(t, p, q)
    BY <1>1 DEF Before
  <1>5. ASSUME e \notin Elements(s), NEW p, NEW q, Before(t, p, q)
        PROVE  Before(s, p, q) \/ (q = e /\ p \in Elements(s))
    <2>1. PICK i \in DOMAIN t, j \in DOMAIN t : i < j /\ t[i] = p /\ t[j] = q
      BY <1>5 DEF Before
    <2>2. i \in DOMAIN s
      BY <1>1, <2>1
    <2> QED BY <1>1, <2>1, <2>2 DEF Before, Elements
  <1> QED BY <1>1, <1>2, <1>3, <1>4, <1>5 DEF t

\* The first element leaves a sequence.
LEMMA HeadLeft ==
  ASSUME NEW S, NEW s \in Seq(S), s # <<>>
  PROVE  Head(s) \in S /\ Tail(s) \in Seq(S) /\ Elements(s) = {Head(s)} \cup Elements(Tail(s))
  <1> DEFINE t == Tail(s)
  <1>1. /\ t \in Seq(S) /\ Head(s) = s[1] /\ s[1] \in S /\ 1 \in DOMAIN s
        /\ \A i \in DOMAIN t : i + 1 \in DOMAIN s /\ t[i] = s[i + 1]
        /\ \A j \in DOMAIN s \ {1} : j - 1 \in DOMAIN t /\ t[j - 1] = s[j]
    OBVIOUS
  <1> HIDE DEF t
  <1>2. Elements(s) = {s[1]} \cup Elements(t)
    BY <1>1 DEF Elements
  <1> QED BY <1>1, <1>2 DEF t

\* The empty sequence.
LEMMA Empty == Elements(<<>>) = {} /\ Once(<<>>) /\ \A p, q : ~Before(<<>>, p, q)
  BY DEF Elements, Once, Before

-----------------------------------------------------------------------------
(* The steps of the repli *)

\* The first state of the repli.
LEMMA RepliInit == R!Init => RepliInv
  <1> SUFFICES ASSUME R!Init PROVE RepliInv
    OBVIOUS
  <1>1. /\ counter = 0 /\ epoch = 0 /\ targets \in Lists /\ writer = "idle" /\ original = <<>>
        /\ copies = {} /\ bypassed = {}
        /\ rpc = [m \in Messages |-> "new"] /\ tl = [m \in Messages |-> <<>>]
        /\ lists = [m \in Messages |-> {}]
    BY DEF R!Init
  <1>2. R!TypeOK
    <2>1. MaxRestarts \in Nat
      BY ParametersAssumption DEF R!Parameters
    <2>2. /\ rpc \in [Messages -> {"new", "pass", "cloned", "forwarded", "copying", "done"}]
          /\ tl \in [Messages -> Seq(R!ReplyTargets)] /\ lists \in [Messages -> SUBSET Lists]
          /\ original \in Seq(Messages)
      BY <1>1
    <2> QED BY <1>1, <2>1, <2>2 DEF R!TypeOK
  <1>3. \A m \in Messages : RepliMsg(m)
    BY <1>1 DEF RepliMsg, R!Reached, R!Underway
  <1> QED BY <1>1, <1>2, <1>3 DEF RepliInv, R!UniqueIds

\* The repli rests.
LEMMA RepliKept == RepliInv /\ UNCHANGED repliVars => RepliInv'
  BY DEF RepliInv, RepliMsg, R!TypeOK, R!UniqueIds, R!Reached, R!Underway, repliVars

\* The other messages stay where they are.
LEMMA RepliOther ==
  ASSUME NEW q \in Messages, RepliMsg(q),
         rpc'[q] = rpc[q], tl'[q] = tl[q], lists'[q] = lists[q], targets' = targets,
         R!Reached(q)' = R!Reached(q), q \in bypassed' <=> q \in bypassed,
         Elements(original) \subseteq Elements(original')
  PROVE  RepliMsg(q)'
  BY DEF RepliMsg, R!Underway

\* restart.
LEMMA RestartStep == RepliInv /\ R!Restart => RepliInv'
  <1> SUFFICES ASSUME RepliInv, R!Restart PROVE RepliInv'
    OBVIOUS
  <1>0. /\ R!TypeOK /\ R!UniqueIds /\ \A k \in copies : k.epoch <= epoch
        /\ \A m \in Messages : RepliMsg(m)
    BY DEF RepliInv
  <1>1. CASE R!ResetCounter
    <2>1. /\ UNCHANGED <<targets, rpc, tl, original, copies, lists, bypassed>>
          /\ counter' = 0 /\ epoch' = epoch + 1 /\ epoch < MaxRestarts /\ writer' = "reset"
      BY <1>1 DEF R!ResetCounter
    <2>2. epoch \in 0..MaxRestarts /\ MaxRestarts \in Nat
      BY <1>0, ParametersAssumption DEF R!TypeOK, R!Parameters
    <2>3. epoch' \in 0..MaxRestarts
      BY <2>1, <2>2
    <2>4. \A k \in copies : k.epoch \in Nat /\ k.epoch <= epoch
      <3>1. \A k \in copies : k \in [m : Messages, to : R!ReplyTargets, id : Nat, epoch : 0..MaxRestarts]
        BY <1>0 DEF R!TypeOK
      <3>2. \A k \in copies : k.epoch \in 0..MaxRestarts
        BY <3>1
      <3> QED BY <1>0, <2>2, <3>2
    <2>5. \A k \in copies : k.epoch <= epoch' /\ k.epoch # epoch'
      BY <2>1, <2>2, <2>4
    <2>6. R!TypeOK'
      BY <1>0, <2>1, <2>3, <2>5 DEF R!TypeOK
    <2>7. R!UniqueIds'
      BY <1>0, <2>1 DEF R!UniqueIds
    <2>8. \A m \in Messages : RepliMsg(m)'
      BY <1>0, <2>1 DEF RepliMsg, R!Reached, R!Underway
    <2> QED BY <2>1, <2>5, <2>6, <2>7, <2>8 DEF RepliInv
  <1>2. CASE R!ReplaceTargets
    <2>1. /\ UNCHANGED <<counter, rpc, tl, original, copies, epoch, bypassed>>
          /\ targets' \in Lists /\ writer' = "idle"
          /\ lists' = [m \in Messages |->
               IF R!Underway(m) THEN lists[m] \cup {targets'} ELSE lists[m]]
      BY <1>2 DEF R!ReplaceTargets
    <2>2. lists' \in [Messages -> SUBSET Lists] /\ \A m \in Messages : lists[m] \subseteq lists'[m]
      BY <1>0, <2>1 DEF R!TypeOK
    <2>3. R!TypeOK'
      BY <1>0, <2>1, <2>2 DEF R!TypeOK
    <2>4. R!UniqueIds'
      BY <1>0, <2>1 DEF R!UniqueIds
    <2>5. ASSUME NEW m \in Messages
          PROVE  RepliMsg(m)'
      <3>1. R!Underway(m)' => targets' \in lists'[m]
        BY <2>1 DEF R!Underway
      <3>2. R!Reached(m)' = R!Reached(m)
        BY <2>1 DEF R!Reached
      <3> QED BY <1>0, <2>1, <2>2, <3>1, <3>2 DEF RepliMsg
    <2> QED BY <1>0, <2>1, <2>3, <2>4, <2>5 DEF RepliInv
  <1> QED BY <1>1, <1>2 DEF R!Restart

\* A message comes to the repli.
LEMMA ReceiveStep == ASSUME RepliInv, NEW m \in Messages, R!Arrive(m) PROVE RepliInv'
  <1>0. /\ R!TypeOK /\ R!UniqueIds /\ \A k \in copies : k.epoch <= epoch
        /\ \A q \in Messages : RepliMsg(q)
    BY DEF RepliInv
  <1>1. /\ UNCHANGED <<targets, writer, tl, original, copies, epoch>>
        /\ rpc[m] = "new"
        /\ lists' = [lists EXCEPT ![m] = {targets}]
        /\ counter' \in {counter, counter + 1}
        /\ \/ rpc' = [rpc EXCEPT ![m] = "pass"] /\ bypassed' = bypassed \cup {m}
           \/ rpc' = [rpc EXCEPT ![m] = "cloned"] /\ bypassed' = bypassed
    BY DEF R!Arrive, R!Count
  <1>2. R!TypeOK'
    <2>1. rpc' \in [Messages -> {"new", "pass", "cloned", "forwarded", "copying", "done"}]
      BY <1>0, <1>1 DEF R!TypeOK
    <2>2. lists' \in [Messages -> SUBSET Lists] /\ bypassed' \subseteq Messages
      BY <1>0, <1>1 DEF R!TypeOK
    <2>3. counter' \in Nat /\ \A n \in Nat : n <= counter => n <= counter'
      BY <1>0, <1>1 DEF R!TypeOK
    <2>4. \A k \in copies : k.id \in Nat
      <3>1. \A k \in copies : k \in [m : Messages, to : R!ReplyTargets, id : Nat, epoch : 0..MaxRestarts]
        BY <1>0 DEF R!TypeOK
      <3> QED BY <3>1
    <2> QED BY <1>0, <1>1, <2>1, <2>2, <2>3, <2>4 DEF R!TypeOK
  <1>3. R!UniqueIds'
    BY <1>0, <1>1 DEF R!UniqueIds
  <1>4. ASSUME NEW q \in Messages
        PROVE  RepliMsg(q)'
    <2>1. R!Reached(q)' = R!Reached(q)
      BY <1>1 DEF R!Reached
    <2>2. CASE q = m
      <3>1. /\ rpc'[m] \in {"pass", "cloned"} /\ lists'[m] = {targets'} /\ tl'[m] = <<>>
            /\ rpc'[m] = "pass" <=> m \in bypassed'
            /\ R!Reached(m)' = {}
        BY <1>0, <1>1, <2>1, <2>2 DEF R!TypeOK, RepliMsg
      <3> QED BY <2>2, <3>1 DEF RepliMsg
    <2>3. CASE q # m
      <3>1. rpc'[q] = rpc[q] /\ lists'[q] = lists[q] /\ (q \in bypassed' <=> q \in bypassed)
        BY <1>0, <1>1, <2>3 DEF R!TypeOK
      <3> QED BY <1>0, <1>1, <2>1, <3>1, RepliOther
    <2> QED BY <2>2, <2>3
  <1> QED BY <1>0, <1>1, <1>2, <1>3, <1>4 DEF RepliInv

\* The target gets the message, the targets are copied, the call returns.
LEMMA PerformStep == ASSUME RepliInv, NEW m \in Messages, R!Perform(m) PROVE RepliInv'
  <1>0. /\ R!TypeOK /\ R!UniqueIds /\ \A k \in copies : k.epoch <= epoch
        /\ \A q \in Messages : RepliMsg(q)
    BY DEF RepliInv
  <1>1. UNCHANGED <<counter, targets, writer, epoch, copies, lists, bypassed>>
    BY DEF R!Perform, R!Forward, R!Snapshot, R!Return, R!setup
  <1>2. /\ rpc \in [Messages -> {"new", "pass", "cloned", "forwarded", "copying", "done"}]
        /\ tl \in [Messages -> Seq(R!ReplyTargets)] /\ original \in Seq(Messages)
        /\ targets \in Seq(R!ReplyTargets)
    BY <1>0, ParametersAssumption DEF R!TypeOK, R!Parameters
  <1>3. /\ rpc' \in [Messages -> {"new", "pass", "cloned", "forwarded", "copying", "done"}]
        /\ tl' \in [Messages -> Seq(R!ReplyTargets)] /\ original' \in Seq(Messages)
        /\ Elements(original) \subseteq Elements(original')
        /\ \A q \in Messages \ {m} : rpc'[q] = rpc[q] /\ tl'[q] = tl[q]
    <2>1. CASE R!Forward(m)
      <3>1. original' = Append(original, m) /\ tl' = tl
        BY <2>1 DEF R!Forward
      <3>2. original' \in Seq(Messages) /\ Elements(original) \subseteq Elements(original')
        BY <1>2, <3>1, Appended
      <3> QED BY <1>2, <2>1, <3>1, <3>2 DEF R!Forward
    <2>2. CASE R!Snapshot(m)
      BY <1>2, <2>2 DEF R!Snapshot
    <2>3. CASE R!Return(m)
      BY <1>2, <2>3 DEF R!Return
    <2> QED BY <2>1, <2>2, <2>3 DEF R!Perform
  <1>4. R!TypeOK'
    BY <1>0, <1>1, <1>3 DEF R!TypeOK
  <1>5. R!UniqueIds'
    BY <1>0, <1>1 DEF R!UniqueIds
  <1>6. \A q \in Messages : R!Reached(q)' = R!Reached(q)
    BY <1>1 DEF R!Reached
  <1>7. RepliMsg(m)'
    <2>0. RepliMsg(m)
      BY <1>0
    <2>1. CASE R!Forward(m)
      <3>1. /\ rpc'[m] = (IF rpc[m] = "pass" THEN "done" ELSE "forwarded")
            /\ rpc[m] \in {"pass", "cloned"} /\ tl' = tl /\ m \in Elements(original')
        BY <1>2, <2>1, Appended DEF R!Forward
      <3> QED BY <1>1, <1>6, <2>0, <3>1 DEF RepliMsg, R!Underway
    <2>2. CASE R!Snapshot(m)
      <3>1. /\ rpc[m] = "forwarded" /\ rpc'[m] = "copying" /\ tl'[m] = targets /\ original' = original
        BY <1>2, <2>2 DEF R!Snapshot
      <3>2. targets \in lists[m] /\ R!Reached(m) = {}
        BY <2>0, <3>1 DEF RepliMsg, R!Underway
      <3> QED BY <1>1, <1>6, <2>0, <3>1, <3>2 DEF RepliMsg, R!Underway
    <2>3. CASE R!Return(m)
      <3>1. /\ rpc[m] = "copying" /\ rpc'[m] = "done" /\ tl[m] = <<>> /\ tl' = tl
            /\ original' = original
        BY <1>2, <2>3 DEF R!Return
      <3> QED BY <1>1, <1>6, <2>0, <3>1 DEF RepliMsg, R!Underway
    <2> QED BY <2>1, <2>2, <2>3 DEF R!Perform
  <1>8. \A q \in Messages \ {m} : RepliMsg(q)'
    BY <1>0, <1>1, <1>3, <1>6, RepliOther
  <1> QED BY <1>0, <1>1, <1>4, <1>5, <1>7, <1>8 DEF RepliInv

\* A reply target gets its copy, with a number above all that were given since restart.
LEMMA CopyStep == ASSUME RepliInv, NEW m \in Messages, R!Copy(m) PROVE RepliInv'
  <1> DEFINE k == [m |-> m, to |-> Head(tl[m]), id |-> R!Number(m), epoch |-> epoch]
  <1>0. /\ R!TypeOK /\ R!UniqueIds /\ \A l \in copies : l.epoch <= epoch
        /\ \A q \in Messages : RepliMsg(q)
    BY DEF RepliInv
  <1>1. /\ UNCHANGED <<targets, writer, rpc, original, epoch, lists, bypassed>>
        /\ rpc[m] = "copying" /\ tl[m] # <<>>
        /\ tl' = [tl EXCEPT ![m] = Tail(@)]
        /\ copies' = copies \cup {k}
        /\ R!Count(m)
    BY DEF R!Copy
  <1>2. /\ counter \in Nat /\ epoch \in 0..MaxRestarts /\ MaxRestarts \in Nat
        /\ tl \in [Messages -> Seq(R!ReplyTargets)]
        /\ copies \subseteq [m : Messages, to : R!ReplyTargets, id : Nat, epoch : 0..MaxRestarts]
        /\ \A l \in copies : l.epoch = epoch => l.id <= counter
    BY <1>0, ParametersAssumption DEF R!TypeOK, R!Parameters
  <1>3. /\ Head(tl[m]) \in R!ReplyTargets /\ Tail(tl[m]) \in Seq(R!ReplyTargets)
        /\ Elements(tl[m]) = {Head(tl[m])} \cup Elements(Tail(tl[m]))
    BY <1>1, <1>2, HeadLeft
  <1>4. /\ tl' \in [Messages -> Seq(R!ReplyTargets)] /\ tl'[m] = Tail(tl[m])
        /\ \A q \in Messages \ {m} : tl'[q] = tl[q]
    BY <1>1, <1>2, <1>3
  <1>5. /\ counter' \in Nat /\ counter <= counter' /\ k.id <= counter' /\ k.id \in Nat
        /\ k.id = 0 \/ counter < k.id
    BY <1>1, <1>2 DEF R!Count, R!Number, R!NoId
  <1>6. k.m = m /\ k.to = Head(tl[m]) /\ k.epoch = epoch
    OBVIOUS
  <1>7. k \in [m : Messages, to : R!ReplyTargets, id : Nat, epoch : 0..MaxRestarts]
    BY <1>2, <1>3, <1>5
  <1> HIDE DEF k
  <1>8. \A l \in copies : l.id \in Nat
    <2>1. \A l \in copies : l \in [m : Messages, to : R!ReplyTargets, id : Nat, epoch : 0..MaxRestarts]
      BY <1>2
    <2> QED BY <2>1
  <1>9. R!TypeOK'
    <2>1. \A l \in copies' : l.epoch = epoch' => l.id <= counter'
      BY <1>1, <1>2, <1>5, <1>8
    <2>2. copies' \subseteq [m : Messages, to : R!ReplyTargets, id : Nat, epoch : 0..MaxRestarts]
      BY <1>1, <1>2, <1>7
    <2> QED BY <1>0, <1>1, <1>4, <1>5, <2>1, <2>2 DEF R!TypeOK
  <1>10. R!UniqueIds'
    <2>1. \A l \in copies : ~(l.id = k.id /\ l.epoch = k.epoch /\ k.id # 0)
      BY <1>2, <1>5, <1>6, <1>8
    <2> QED BY <1>0, <1>1, <2>1 DEF R!UniqueIds, R!NoId
  <1>11. \A l \in copies' : l.epoch <= epoch'
    BY <1>0, <1>1, <1>2, <1>6
  <1>12. ASSUME NEW q \in Messages
         PROVE  RepliMsg(q)'
    <2>1. CASE q = m
      <3>1. R!Reached(m)' = R!Reached(m) \cup {Head(tl[m])}
        BY <1>1, <1>6 DEF R!Reached
      <3>2. R!Reached(m)' \cup Elements(tl'[m]) = R!Reached(m) \cup Elements(tl[m])
        BY <1>3, <1>4, <3>1
      <3> QED BY <1>0, <1>1, <2>1, <3>2 DEF RepliMsg, R!Underway
    <2>2. CASE q # m
      <3>1. R!Reached(q)' = R!Reached(q)
        BY <1>1, <1>6, <2>2 DEF R!Reached
      <3> QED BY <1>0, <1>1, <1>4, <2>2, <3>1, RepliOther
    <2> QED BY <2>1, <2>2
  <1> QED BY <1>9, <1>10, <1>11, <1>12 DEF RepliInv

-----------------------------------------------------------------------------
(* The steps of the hub *)

\* The first state of the hub.
LEMMA HubInit == H!Init => HubInv
  <1> SUFFICES ASSUME H!Init PROVE HubInv
    OBVIOUS
  <1>1. /\ dead = {} /\ passed = <<>> /\ muted = {}
        /\ member = [c \in Members |-> "out"] /\ heard = [c \in Members |-> <<>>]
        /\ hpc = [m \in Messages |-> "new"] /\ cli = [m \in Messages |-> {}]
        /\ from = [m \in Messages |-> H!NoOne] /\ began = [m \in Messages |-> {}]
    BY DEF H!Init
  <1>2. H!TypeOK
    <2>1. passed \in Seq(Messages) /\ heard \in [Members -> Seq(Messages)]
      BY <1>1
    <2> QED BY <1>1, <2>1 DEF H!TypeOK
  <1>3. \A m \in Messages : HubMsg(m)
    BY <1>1, Empty DEF HubMsg
  <1>4. Once(passed) /\ \A c \in Members : Once(heard[c])
    BY <1>1, Empty
  <1> QED BY <1>2, <1>3, <1>4 DEF HubInv

\* The hub rests.
LEMMA HubKept == HubInv /\ UNCHANGED hubVars => HubInv'
  BY DEF HubInv, HubMsg, H!TypeOK, hubVars

\* Somebody comes or goes. Nobody comes twice.
LEMMA ConnectionStep == HubInv /\ H!Connection => HubInv'
  <1> SUFFICES ASSUME HubInv, NEW c \in Members, H!RegIo(c) \/ H!UnregIo(c) \/ H!Die(c)
               PROVE  HubInv'
    BY DEF H!Connection
  <1>0. UNCHANGED <<hpc, from, cli, began, muted, heard, passed>>
    BY DEF H!RegIo, H!UnregIo, H!Die, H!calls
  <1>1. H!TypeOK /\ \A m \in Messages : HubMsg(m)
    BY DEF HubInv
  <1>2. /\ member' \in [Members -> {"out", "in", "gone"}]
        /\ dead \subseteq dead' /\ dead' \subseteq {x \in Members : member'[x] # "out"}
        /\ \A x \in Members : member[x] # "out" => member'[x] # "out"
        /\ \A x \in Members : member[x] # "out" /\ member'[x] = "in" => member[x] = "in"
    BY <1>1 DEF H!TypeOK, H!RegIo, H!UnregIo, H!Die
  <1>3. H!TypeOK'
    BY <1>0, <1>1, <1>2 DEF H!TypeOK
  <1>4. \A m \in Messages : HubMsg(m)'
    BY <1>0, <1>1, <1>2 DEF HubMsg
  <1> QED BY <1>0, <1>3, <1>4 DEF HubInv

\* The other messages stay where they are.
LEMMA HubOther ==
  ASSUME NEW q \in Messages, HubMsg(q), UNCHANGED <<member, dead>>,
         hpc'[q] = hpc[q], from'[q] = from[q], cli'[q] = cli[q], began'[q] = began[q],
         q \in muted' <=> q \in muted, q \in Elements(passed') <=> q \in Elements(passed),
         \A c \in Members : q \in Elements(heard'[c]) <=> q \in Elements(heard[c])
  PROVE  HubMsg(q)'
  BY DEF HubMsg

\* A message comes to the hub.
LEMMA HubArriveStep ==
  ASSUME HubInv, NEW m \in Messages, NEW x \in Members \cup {RepliId}, H!Arrive(m, x)
  PROVE  HubInv'
  <1>0. /\ UNCHANGED <<member, dead, cli, heard, passed>>
        /\ hpc[m] = "new" /\ from' = [from EXCEPT ![m] = x] /\ began' = [began EXCEPT ![m] = H!map]
        /\ \/ hpc' = [hpc EXCEPT ![m] = "forward"] /\ muted' = muted \cup {m}
           \/ hpc' = [hpc EXCEPT ![m] = "begun"] /\ muted' = muted
    BY DEF H!Arrive, H!registry
  <1>1. H!TypeOK /\ \A q \in Messages : HubMsg(q)
    BY DEF HubInv
  <1>2. /\ hpc' \in [Messages -> {"new", "begun", "broadcast", "forward", "done"}]
        /\ from' \in [Messages -> Members \cup {RepliId} \cup {H!NoOne}]
        /\ began' \in [Messages -> SUBSET Members] /\ muted' \subseteq Messages
    BY <1>0, <1>1 DEF H!TypeOK, H!map
  <1>3. H!TypeOK'
    BY <1>0, <1>1, <1>2 DEF H!TypeOK
  <1>4. ASSUME NEW q \in Messages
        PROVE  HubMsg(q)'
    <2>1. CASE q = m
      <3>1. /\ hpc'[m] \in {"forward", "begun"} /\ (hpc'[m] = "forward" <=> m \in muted')
            /\ began'[m] = H!map /\ cli'[m] = {} /\ m \notin Elements(passed')
            /\ \A c \in Members : m \notin Elements(heard'[c])
        BY <1>0, <1>1 DEF H!TypeOK, HubMsg
      <3> QED BY <1>0, <2>1, <3>1 DEF HubMsg, H!map
    <2>2. CASE q # m
      <3>1. /\ hpc'[q] = hpc[q] /\ from'[q] = from[q] /\ began'[q] = began[q]
            /\ q \in muted' <=> q \in muted
        BY <1>0, <1>1, <2>2 DEF H!TypeOK
      <3> QED BY <1>0, <1>1, <3>1, HubOther
    <2> QED BY <2>1, <2>2
  <1> QED BY <1>0, <1>3, <1>4 DEF HubInv

\* The members are copied.
LEMMA HubCopyStep == ASSUME HubInv, NEW m \in Messages, H!Copy(m) PROVE HubInv'
  <1>0. /\ UNCHANGED <<member, dead, from, began, muted, heard, passed>>
        /\ hpc[m] = "begun" /\ hpc' = [hpc EXCEPT ![m] = "broadcast"]
        /\ cli' = [cli EXCEPT ![m] = H!map \ {from[m]}]
    BY DEF H!Copy, H!registry
  <1>1. H!TypeOK /\ \A q \in Messages : HubMsg(q)
    BY DEF HubInv
  <1>2. /\ hpc' \in [Messages -> {"new", "begun", "broadcast", "forward", "done"}]
        /\ cli' \in [Messages -> SUBSET Members]
    BY <1>0, <1>1 DEF H!TypeOK, H!map
  <1>3. H!TypeOK'
    BY <1>0, <1>1, <1>2 DEF H!TypeOK
  <1>4. ASSUME NEW q \in Messages
        PROVE  HubMsg(q)'
    <2>1. CASE q = m
      <3>1. hpc'[m] = "broadcast" /\ cli'[m] = {c \in Members : member[c] = "in"} \ {from[m]}
        BY <1>0, <1>1 DEF H!TypeOK, H!map
      <3> QED BY <1>0, <1>1, <2>1, <3>1 DEF HubMsg
    <2>2. CASE q # m
      <3>1. hpc'[q] = hpc[q] /\ cli'[q] = cli[q]
        BY <1>0, <1>1, <2>2 DEF H!TypeOK
      <3> QED BY <1>0, <1>1, <3>1, HubOther
    <2> QED BY <2>1, <2>2
  <1> QED BY <1>0, <1>3, <1>4 DEF HubInv

\* A member is sent a message.
LEMMA HubSendStep == ASSUME HubInv, NEW m \in Messages, H!Send(m) PROVE HubInv'
  <1>0. PICK c \in cli[m] :
          /\ UNCHANGED <<member, dead, hpc, from, began, muted, passed>>
          /\ hpc[m] = "broadcast"
          /\ cli' = [cli EXCEPT ![m] = @ \ {c}]
          /\ heard' = IF c \in dead THEN heard ELSE [heard EXCEPT ![c] = Append(@, m)]
    BY DEF H!Send, H!registry
  <1>1. H!TypeOK /\ (\A x \in Members : Once(heard[x])) /\ \A q \in Messages : HubMsg(q)
    BY DEF HubInv
  <1>2. /\ c \in Members /\ cli \in [Messages -> SUBSET Members]
        /\ heard \in [Members -> Seq(Messages)]
    BY <1>1 DEF H!TypeOK
  <1>3. /\ cli' \in [Messages -> SUBSET Members] /\ cli'[m] = cli[m] \ {c}
        /\ \A q \in Messages \ {m} : cli'[q] = cli[q]
    BY <1>0, <1>2
  <1>4. m \notin Elements(heard[c]) /\ from[m] # c
    BY <1>1, <1>2 DEF HubMsg
  <1>5. /\ heard' \in [Members -> Seq(Messages)]
        /\ \A x \in Members \ {c} : heard'[x] = heard[x]
        /\ Once(heard'[c])
        /\ c \in dead => heard'[c] = heard[c]
        /\ c \notin dead => Elements(heard'[c]) = Elements(heard[c]) \cup {m}
    <2>1. CASE c \in dead
      BY <1>0, <1>1, <1>2, <2>1
    <2>2. CASE c \notin dead
      <3>1. heard' = [heard EXCEPT ![c] = Append(@, m)]
        BY <1>0, <2>2
      <3>2. /\ Append(heard[c], m) \in Seq(Messages) /\ Once(Append(heard[c], m))
            /\ Elements(Append(heard[c], m)) = Elements(heard[c]) \cup {m}
        BY <1>1, <1>2, <1>4, Appended
      <3> QED BY <1>2, <2>2, <3>1, <3>2
    <2> QED BY <2>1, <2>2
  <1>6. H!TypeOK'
    BY <1>0, <1>1, <1>3, <1>5 DEF H!TypeOK
  <1>7. ASSUME NEW q \in Messages
        PROVE  HubMsg(q)'
    <2>1. CASE q = m
      <3>1. \A x \in Members : m \in Elements(heard'[x]) <=>
              m \in Elements(heard[x]) \/ (x = c /\ c \notin dead)
        BY <1>2, <1>4, <1>5
      <3> QED BY <1>0, <1>1, <1>2, <1>3, <1>4, <2>1, <3>1 DEF HubMsg
    <2>2. CASE q # m
      <3>1. \A x \in Members : q \in Elements(heard'[x]) <=> q \in Elements(heard[x])
        BY <1>2, <1>5, <2>2
      <3> QED BY <1>0, <1>1, <1>3, <2>2, <3>1, HubOther
    <2> QED BY <2>1, <2>2
  <1>8. \A x \in Members : Once(heard'[x])
    BY <1>1, <1>5
  <1>9. Once(passed')
    BY <1>0 DEF HubInv
  <1> QED BY <1>6, <1>7, <1>8, <1>9 DEF HubInv

\* The target of the hub gets the message.
LEMMA HubForwardStep == ASSUME HubInv, NEW m \in Messages, H!Forward(m) PROVE HubInv'
  <1>0. /\ UNCHANGED <<member, dead, from, cli, began, muted, heard>>
        /\ hpc[m] \in {"forward", "broadcast"} /\ (hpc[m] = "broadcast" => cli[m] = {})
        /\ hpc' = [hpc EXCEPT ![m] = "done"]
        /\ passed' = Append(passed, m)
    BY DEF H!Forward, H!registry
  <1>1. H!TypeOK /\ Once(passed) /\ \A q \in Messages : HubMsg(q)
    BY DEF HubInv
  <1>2. m \notin Elements(passed) /\ cli[m] = {}
    BY <1>0, <1>1 DEF HubMsg
  <1>3. passed' \in Seq(Messages) /\ Once(passed') /\ Elements(passed') = Elements(passed) \cup {m}
    BY <1>0, <1>1, <1>2, Appended DEF H!TypeOK
  <1>4. hpc' \in [Messages -> {"new", "begun", "broadcast", "forward", "done"}]
    BY <1>0, <1>1 DEF H!TypeOK
  <1>5. H!TypeOK'
    BY <1>0, <1>1, <1>3, <1>4 DEF H!TypeOK
  <1>6. ASSUME NEW q \in Messages
        PROVE  HubMsg(q)'
    <2>1. CASE q = m
      <3>1. hpc'[m] = "done" /\ m \in Elements(passed') /\ (hpc[m] = "forward" => m \in muted)
        BY <1>0, <1>1, <1>3 DEF H!TypeOK, HubMsg
      <3> QED BY <1>0, <1>1, <1>2, <2>1, <3>1 DEF HubMsg
    <2>2. CASE q # m
      <3>1. hpc'[q] = hpc[q] /\ (q \in Elements(passed') <=> q \in Elements(passed))
        BY <1>0, <1>1, <1>3, <2>2 DEF H!TypeOK
      <3> QED BY <1>0, <1>1, <3>1, HubOther
    <2> QED BY <2>1, <2>2
  <1> QED BY <1>0, <1>3, <1>5, <1>6 DEF HubInv

-----------------------------------------------------------------------------
(* The two together *)

\* Nothing happens to a message.
LEMMA LinkKept == Link /\ UNCHANGED <<rpc, original, hpc, heard, passed, earlier>> => Link'
  BY DEF Link, Call, InHub, Over, InOrder, Before

\* What somebody gets last is not from a call that was over when another began.
LEMMA LaterInOrder ==
  ASSUME NEW s \in Seq(Messages), NEW e \in Messages, e \notin Elements(s), NEW past,
         InOrder(s, past), \A m \in Messages : e \notin past[m]
  PROVE  InOrder(Append(s, e), past)
  <1>1. ASSUME NEW m \in Messages, NEW n \in past[m], Before(Append(s, e), m, n)
        PROVE  FALSE
    <2>1. n # e
      BY <1>1
    <2>2. Before(s, m, n)
      BY <1>1, <2>1, Appended
    <2> QED BY <2>2 DEF InOrder
  <1> QED BY <1>1 DEF InOrder

\* A call begins: nobody has heard of its message.
LEMMA BeginLink ==
  ASSUME IInv, NEW m \in Messages, rpc[m] = "new", hpc[m] = "new", Begin(m),
         UNCHANGED <<original, heard, passed>>,
         \A n \in Messages \ {m} : rpc'[n] = rpc[n] /\ hpc'[n] = hpc[n],
         \/ rpc'[m] \in {"pass", "cloned"} /\ hpc'[m] = "new"
         \/ rpc'[m] = "new" /\ hpc'[m] \in {"forward", "begun"}
  PROVE  Link'
  <1>1. Link /\ HubMsg(m) /\ \A n \in Messages : Call(n)
    BY DEF IInv, HubInv, Link
  <1>2. /\ earlier' \in [Messages -> SUBSET Messages]
        /\ earlier'[m] = {n \in Messages : Over(n)}
        /\ \A n \in Messages \ {m} : earlier'[n] = earlier[n]
    BY <1>1 DEF Link, Begin
  <1>3. ~Over(m) /\ \A n \in Messages : Over(n) => Over(n)'
    BY DEF Over
  <1>4. /\ m \notin Elements(original) /\ m \notin Elements(passed)
        /\ \A c \in Members : m \notin Elements(heard[c])
    BY <1>1 DEF HubMsg, Call
  <1>5. ASSUME NEW s, m \notin Elements(s), InOrder(s, earlier)
        PROVE  InOrder(s, earlier')
    <2>1. \A n : ~Before(s, m, n)
      BY <1>5 DEF Before, Elements
    <2> QED BY <1>2, <1>5, <2>1 DEF InOrder
  <1>6. Call(m)'
    BY <1>2, <1>3, <1>4 DEF Call, InHub
  <1>7. ASSUME NEW n \in Messages \ {m}
        PROVE  Call(n)'
    BY <1>1, <1>2, <1>3 DEF Call, InHub
  <1>8. /\ InOrder(original', earlier') /\ InOrder(passed', earlier')
        /\ \A c \in Members : InOrder(heard'[c], earlier')
    BY <1>1, <1>4, <1>5 DEF Link
  <1> QED BY <1>2, <1>6, <1>7, <1>8 DEF Link

\* The calls go on: that of m does a step, the others do none.
LEMMA CallLink ==
  ASSUME Link, NEW m \in Messages, ~Over(m), UNCHANGED earlier,
         \A n \in Messages \ {m} : rpc'[n] = rpc[n] /\ hpc'[n] = hpc[n],
         \A n \in Messages \ {m} : n \in Elements(original') => n \in Elements(original),
         rpc'[m] # "new" \/ hpc'[m] # "new",
         hpc'[m] # "new" /\ rpc'[m] # "new" => rpc'[m] \in {"copying", "done"},
         InHub(m)' /\ rpc'[m] # "new" => rpc'[m] = "copying",
         m \in Elements(original') => rpc'[m] \notin {"new", "pass", "cloned"},
         InOrder(original', earlier'), InOrder(passed', earlier'),
         \A c \in Members : InOrder(heard'[c], earlier')
  PROVE  Link'
  <1>1. \A n \in Messages \ {m} : Over(n) => Over(n)'
    BY DEF Over
  <1>2. \A n \in Messages : earlier[n] \subseteq Messages /\ m \notin earlier[n]
    BY DEF Link, Call
  <1>3. \A n \in Messages : Call(n)'
    BY <1>1, <1>2 DEF Link, Call, InHub
  <1> QED BY <1>3 DEF Link

\* The repli goes on with a message.
LEMMA PerformLink ==
  ASSUME IInv, NEW m \in Messages, ~InHub(m), R!Perform(m), UNCHANGED <<hubVars, earlier>>
  PROVE  Link'
  <1>0. UNCHANGED <<hpc, heard, passed>>
    BY DEF hubVars
  <1>1. Link /\ R!TypeOK /\ Call(m) /\ \A n \in Messages : Call(n)
    BY DEF IInv, RepliInv, Link
  <1>2. \/ /\ rpc[m] \in {"pass", "cloned"} /\ rpc'[m] \in {"done", "forwarded"}
           /\ original' = Append(original, m)
        \/ /\ rpc[m] = "forwarded" /\ rpc'[m] = "copying" /\ original' = original
        \/ /\ rpc[m] = "copying" /\ rpc'[m] = "done" /\ original' = original
    BY <1>1 DEF R!TypeOK, R!Perform, R!Forward, R!Snapshot, R!Return
  <1>3. \A n \in Messages \ {m} : rpc'[n] = rpc[n]
    BY <1>1 DEF R!TypeOK, R!Perform, R!Forward, R!Snapshot, R!Return
  <1>4. ~Over(m) /\ \A n \in Messages : m \notin earlier[n]
    BY <1>1, <1>2 DEF Over, Call
  <1>5. /\ InOrder(original', earlier')
        /\ \A n \in Messages \ {m} : n \in Elements(original') => n \in Elements(original)
    <2>1. CASE original' = Append(original, m) /\ rpc[m] \in {"pass", "cloned"}
      <3>1. m \notin Elements(original) /\ original \in Seq(Messages) /\ InOrder(original, earlier)
        BY <1>1, <2>1 DEF Call, Link, R!TypeOK
      <3>2. InOrder(Append(original, m), earlier) /\ Elements(original') = Elements(original) \cup {m}
        BY <1>4, <2>1, <3>1, LaterInOrder, Appended
      <3> QED BY <2>1, <3>2
    <2>2. CASE original' = original
      BY <1>1, <2>2 DEF Link
    <2> QED BY <1>2, <2>1, <2>2
  <1>6. InOrder(passed', earlier') /\ \A c \in Members : InOrder(heard'[c], earlier')
    BY <1>0, <1>1 DEF Link
  <1>7. /\ rpc'[m] # "new"
        /\ hpc'[m] # "new" => rpc'[m] \in {"copying", "done"}
        /\ ~InHub(m)'
        /\ rpc'[m] \notin {"new", "pass", "cloned"}
    BY <1>0, <1>1, <1>2 DEF Call, InHub
  <1> QED BY <1>0, <1>1, <1>3, <1>4, <1>5, <1>6, <1>7, CallLink

\* A copy comes to the hub.
LEMMA CopyToHubLink ==
  ASSUME IInv, NEW m \in Messages, H!Arrive(m, RepliId), rpc[m] = "copying",
         UNCHANGED <<rpc, original, earlier>>
  PROVE  Link'
  <1>0. /\ UNCHANGED <<heard, passed>>
        /\ \/ hpc' = [hpc EXCEPT ![m] = "forward"]
           \/ hpc' = [hpc EXCEPT ![m] = "begun"]
    BY DEF H!Arrive
  <1>1. Link /\ H!TypeOK /\ Call(m)
    BY DEF IInv, HubInv, Link
  <1>2. \A n \in Messages \ {m} : hpc'[n] = hpc[n]
    BY <1>0, <1>1 DEF H!TypeOK
  <1>3. ~Over(m)
    BY DEF Over
  <1>4. /\ InOrder(original', earlier') /\ InOrder(passed', earlier')
        /\ \A c \in Members : InOrder(heard'[c], earlier')
    BY <1>0, <1>1 DEF Link
  <1> QED BY <1>0, <1>1, <1>2, <1>3, <1>4, CallLink DEF Call

\* The hub goes on with a message.
LEMMA BroadcastLink ==
  ASSUME IInv, NEW m \in Messages, H!Copy(m) \/ H!Send(m) \/ H!Forward(m),
         UNCHANGED <<repliVars, earlier>>
  PROVE  Link'
  <1>0. UNCHANGED <<rpc, original>>
    BY DEF repliVars
  <1>1. Link /\ H!TypeOK /\ HubMsg(m) /\ Call(m) /\ \A n \in Messages : Call(n)
    BY DEF IInv, HubInv, Link
  <1>2. InHub(m) /\ hpc'[m] # "new" /\ \A n \in Messages \ {m} : hpc'[n] = hpc[n]
    BY <1>1 DEF H!TypeOK, H!Copy, H!Send, H!Forward, InHub
  <1>3. ~Over(m) /\ \A n \in Messages : m \notin earlier[n]
    BY <1>1, <1>2 DEF Over, Call, InHub
  <1>4. InOrder(original', earlier')
    BY <1>0, <1>1 DEF Link
  <1>5. InOrder(passed', earlier') /\ \A c \in Members : InOrder(heard'[c], earlier')
    <2>1. CASE H!Copy(m)
      BY <1>1, <2>1 DEF H!Copy, Link
    <2>2. CASE H!Send(m)
      <3>1. PICK c \in cli[m] :
              /\ passed' = passed
              /\ heard' = IF c \in dead THEN heard ELSE [heard EXCEPT ![c] = Append(@, m)]
        BY <2>2 DEF H!Send
      <3>2. c \in Members /\ heard \in [Members -> Seq(Messages)] /\ m \notin Elements(heard[c])
        BY <1>1, <3>1 DEF H!TypeOK, HubMsg
      <3>3. InOrder(Append(heard[c], m), earlier)
        BY <1>1, <1>3, <3>2, LaterInOrder DEF Link
      <3>4. \A x \in Members : heard'[x] = heard[x] \/ heard'[x] = Append(heard[c], m)
        BY <3>1, <3>2
      <3> QED BY <1>1, <3>1, <3>3, <3>4 DEF Link
    <2>3. CASE H!Forward(m)
      <3>1. heard' = heard /\ passed' = Append(passed, m) /\ hpc[m] # "done"
        BY <2>3 DEF H!Forward
      <3>2. m \notin Elements(passed) /\ passed \in Seq(Messages)
        BY <1>1, <3>1 DEF HubMsg, H!TypeOK
      <3>3. InOrder(Append(passed, m), earlier)
        BY <1>1, <1>3, <3>2, LaterInOrder DEF Link
      <3> QED BY <1>1, <3>1, <3>3 DEF Link
    <2> QED BY <2>1, <2>2, <2>3
  <1> QED BY <1>0, <1>1, <1>2, <1>3, <1>4, <1>5, CallLink DEF Call, InHub

\* Every step.
LEMMA Inductive == IInv /\ [Next]_vars => IInv'
  <1> SUFFICES ASSUME IInv, [Next]_vars PROVE IInv'
    OBVIOUS
  <1>0. RepliInv /\ HubInv /\ Link
    BY DEF IInv
  <1>1. CASE UNCHANGED vars
    <2>1. UNCHANGED <<rpc, original, hpc, heard, passed, earlier>> /\ UNCHANGED repliVars /\ UNCHANGED hubVars
      BY <1>1 DEF vars, repliVars, hubVars
    <2> QED BY <1>0, <2>1, RepliKept, HubKept, LinkKept DEF IInv
  <1>2. ASSUME NEW m \in Messages, Receive(m)
        PROVE  IInv'
    <2>1. R!Arrive(m) /\ UNCHANGED hubVars /\ Begin(m) /\ rpc[m] = "new" /\ hpc[m] = "new"
      BY <1>2 DEF Receive, R!Arrive
    <2>2. /\ UNCHANGED <<original, hpc, heard, passed>> /\ rpc'[m] \in {"pass", "cloned"}
          /\ \A n \in Messages \ {m} : rpc'[n] = rpc[n]
      BY <1>0, <2>1 DEF R!Arrive, hubVars, RepliInv, R!TypeOK
    <2>3. Link'
      BY <2>1, <2>2, BeginLink
    <2> QED BY <1>0, <2>1, <2>3, ReceiveStep, HubKept DEF IInv
  <1>3. ASSUME NEW m \in Messages, CopyToOther(m)
        PROVE  IInv'
    <2>1. R!Copy(m) /\ UNCHANGED <<hubVars, earlier>>
      BY <1>3 DEF CopyToOther
    <2>2. UNCHANGED <<rpc, original, hpc, heard, passed, earlier>>
      BY <2>1 DEF R!Copy, hubVars
    <2> QED BY <1>0, <2>1, <2>2, CopyStep, HubKept, LinkKept DEF IInv
  <1>4. ASSUME NEW m \in Messages, CopyToHub(m)
        PROVE  IInv'
    <2>1. R!Copy(m) /\ H!Arrive(m, RepliId)
      BY <1>4 DEF CopyToHub
    <2>2. UNCHANGED <<rpc, original, earlier>> /\ rpc[m] = "copying"
      BY <1>4, <2>1 DEF R!Copy, CopyToHub
    <2>3. Link'
      BY <2>1, <2>2, CopyToHubLink
    <2> QED BY <1>0, <2>1, <2>3, CopyStep, HubArriveStep DEF IInv
  <1>5. CASE RepliStep
    <2>1. CASE R!Restart
      <3>1. UNCHANGED <<hubVars, earlier>>
        BY <1>5 DEF RepliStep
      <3>2. UNCHANGED <<rpc, original, hpc, heard, passed, earlier>>
        BY <2>1, <3>1 DEF R!Restart, R!ResetCounter, R!ReplaceTargets, hubVars
      <3> QED BY <1>0, <2>1, <3>1, <3>2, RestartStep, HubKept, LinkKept DEF IInv
    <2>2. ASSUME NEW m \in Messages, ~InHub(m), R!Perform(m)
          PROVE  IInv'
      <3>1. UNCHANGED <<hubVars, earlier>>
        BY <1>5 DEF RepliStep
      <3>2. Link'
        BY <2>2, <3>1, PerformLink
      <3> QED BY <1>0, <2>2, <3>1, <3>2, PerformStep, HubKept DEF IInv
    <2> QED BY <1>5, <2>1, <2>2 DEF RepliStep
  <1>6. CASE HubStep
    <2>0. UNCHANGED <<repliVars, earlier>>
      BY <1>6 DEF HubStep
    <2>1. CASE H!Connection
      <3>1. UNCHANGED <<rpc, original, hpc, heard, passed, earlier>>
        BY <2>0, <2>1 DEF H!Connection, H!RegIo, H!UnregIo, H!Die, H!calls, repliVars
      <3> QED BY <1>0, <2>0, <2>1, <3>1, RepliKept, ConnectionStep, LinkKept DEF IInv
    <2>2. CASE H!Broadcast
      <3>1. PICK m \in Messages : H!Copy(m) \/ H!Send(m) \/ H!Forward(m)
        BY <2>2 DEF H!Broadcast
      <3>2. HubInv'
        BY <1>0, <3>1, HubCopyStep, HubSendStep, HubForwardStep
      <3>3. Link'
        BY <2>0, <3>1, BroadcastLink
      <3> QED BY <1>0, <2>0, <3>2, <3>3, RepliKept DEF IInv
    <2> QED BY <1>6, <2>1, <2>2 DEF HubStep
  <1>7. ASSUME NEW m \in Messages, NEW c \in Members, SendToHub(m, c)
        PROVE  IInv'
    <2>1. /\ H!Arrive(m, c) /\ UNCHANGED repliVars /\ Begin(m)
          /\ rpc[m] = "new" /\ hpc[m] = "new"
      BY <1>7 DEF SendToHub, H!Arrive
    <2>2. /\ UNCHANGED <<original, rpc, heard, passed>> /\ hpc'[m] \in {"forward", "begun"}
          /\ \A n \in Messages \ {m} : hpc'[n] = hpc[n]
      BY <1>0, <2>1 DEF H!Arrive, repliVars, HubInv, H!TypeOK
    <2>3. Link'
      BY <2>1, <2>2, BeginLink
    <2> QED BY <1>0, <2>1, <2>3, RepliKept, HubArriveStep DEF IInv
  <1> QED BY <1>1, <1>2, <1>3, <1>4, <1>5, <1>6, <1>7 DEF Next, Done

-----------------------------------------------------------------------------
(* Theorems *)

\* The invariant of every run.
LEMMA Invariant == Spec => []IInv
  <1>1. Init => IInv
    <2> SUFFICES ASSUME Init PROVE IInv
      OBVIOUS
    <2>1. R!Init /\ H!Init
      BY DEF Init
    <2>2. /\ earlier = [m \in Messages |-> {}] /\ original = <<>>
          /\ \A m \in Messages : rpc[m] = "new" /\ hpc[m] = "new"
      BY DEF Init, R!Init, H!Init
    <2>3. \A s : InOrder(s, earlier)
      BY <2>2 DEF InOrder
    <2>4. Link
      BY <2>2, <2>3, Empty DEF Link, Call, InHub
    <2> QED BY <2>1, <2>4, RepliInit, HubInit DEF IInv
  <1> QED BY <1>1, Inductive, PTL DEF Spec

\* The types of jsonrpc-repli and jsonrpc-hub; the counter is never behind its copies.
THEOREM TypeCorrect == Spec => []TypeOK
  <1>1. IInv => TypeOK
    BY DEF IInv, RepliInv, HubInv, Link, TypeOK
  <1> QED BY <1>1, Invariant, PTL

\* No two copies of requests have one identifier, between one restart and the next.
THEOREM UniqueIdsCorrect == Spec => []UniqueIds
  <1>1. IInv => UniqueIds
    BY DEF IInv, RepliInv, UniqueIds
  <1> QED BY <1>1, Invariant, PTL

\* The copies of a message go to one list of targets, and none is ahead of the original.
THEOREM WholeListCorrect == Spec => []WholeList
  <1>1. IInv => WholeList
    <2> SUFFICES ASSUME IInv, NEW m \in Messages
                 PROVE  /\ R!Reached(m) # {} => \E i \in DOMAIN original : original[i] = m
                        /\ rpc[m] = "done" =>
                             IF m \in bypassed THEN R!Reached(m) = {}
                             ELSE \E l \in lists[m] : R!Reached(m) = {l[i] : i \in DOMAIN l}
      BY DEF WholeList, R!WholeList
    <2>1. RepliMsg(m)
      BY DEF IInv, RepliInv
    <2>2. R!Reached(m) # {} => m \in Elements(original)
      BY <2>1 DEF RepliMsg
    <2>3. ASSUME rpc[m] = "done", m \notin bypassed
          PROVE  \E l \in lists[m] : R!Reached(m) = Elements(l)
      <3>1. Elements(tl[m]) = {}
        BY <2>1, <2>3, Empty DEF RepliMsg
      <3> QED BY <2>1, <2>3, <3>1 DEF RepliMsg
    <2>4. m \in bypassed => R!Reached(m) = {}
      BY <2>1 DEF RepliMsg
    <2> QED BY <2>2, <2>3, <2>4 DEF Elements
  <1> QED BY <1>1, Invariant, PTL

\* The hub counts as everybody does.
LEMMA SameCardinality == \A S : H!Cardinality(S) = Cardinality(S)
  BY DEF H!Cardinality, Cardinality

\* How often a message occurs in a sequence without repetitions.
LEMMA OccursOnce ==
  ASSUME NEW s, Once(s), NEW m
  PROVE  Cardinality(H!Occurrences(s, m)) = IF m \in Elements(s) THEN 1 ELSE 0
  <1>1. CASE m \in Elements(s)
    <2>1. PICK i \in DOMAIN s : s[i] = m
      BY <1>1 DEF Elements
    <2>2. H!Occurrences(s, m) = {i}
      BY <2>1 DEF H!Occurrences, Once
    <2> QED BY <1>1, <2>2, FS_Singleton
  <1>2. CASE m \notin Elements(s)
    <2>1. H!Occurrences(s, m) = {}
      BY <1>2 DEF H!Occurrences, Elements
    <2> QED BY <1>2, <2>1, FS_EmptySet
  <1> QED BY <1>1, <1>2

\* Nobody hears a message twice or hears himself, and nobody who stays misses one.
THEOREM HeardOnceCorrect == Spec => []HeardOnce
  <1>1. IInv => HeardOnce
    <2> SUFFICES ASSUME IInv, NEW m \in Messages, NEW c \in Members
                 PROVE  LET n == Cardinality(H!Occurrences(heard[c], m))
                        IN  /\ n <= 1
                            /\ n = 1 => m \notin muted /\ from[m] # c
                            /\ hpc[m] = "done" /\ m \notin muted
                               /\ c \in (began[m] \cap H!map) \ (dead \cup {from[m]}) => n = 1
      BY SameCardinality DEF HeardOnce, H!HeardOnce
    <2>1. HubMsg(m) /\ Once(heard[c])
      BY DEF IInv, HubInv
    <2>2. Cardinality(H!Occurrences(heard[c], m)) = IF m \in Elements(heard[c]) THEN 1 ELSE 0
      BY <2>1, OccursOnce
    <2>3. m \in Elements(heard[c]) => m \notin muted /\ from[m] # c
      BY <2>1 DEF HubMsg
    <2>4. hpc[m] = "done" /\ m \notin muted /\ c \in (began[m] \cap H!map) \ (dead \cup {from[m]})
            => m \in Elements(heard[c])
      BY <2>1 DEF HubMsg, H!map
    <2> QED BY <2>2, <2>3, <2>4
  <1> QED BY <1>1, Invariant, PTL

\* When one call had returned before another began, nobody hears the message of the later
\* one first, however many calls run at once in the repli and in the hub.
THEOREM SameOrderCorrect == Spec => []SameOrder
  <1>1. IInv => SameOrder
    BY DEF IInv, Link, InOrder, SameOrder
  <1> QED BY <1>1, Invariant, PTL

-----------------------------------------------------------------------------
(* What each of them does by itself *)

\* Behind the hub's back the repli does nothing that a repli by itself would not do: a
\* reply target that is a hub, and takes its time over each copy, changes nothing in
\* repli.cpp; so what holds of every Repli holds here.
THEOREM RepliByItself == Spec => R!Spec
  <1>1. Init => R!Init
    BY DEF Init
  <1>2. ASSUME [Next]_vars
        PROVE  [R!Next]_(R!vars)
    <2> USE DEF R!vars, R!setup
    <2>1. CASE RepliStep
      BY <2>1 DEF RepliStep, R!Next
    <2>2. CASE HubStep \/ Done \/ UNCHANGED vars
      BY <2>2 DEF HubStep, Done, vars, repliVars
    <2>3. ASSUME NEW m \in Messages, Receive(m) \/ CopyToOther(m) \/ CopyToHub(m)
          PROVE  R!Next
      BY <2>3 DEF Receive, CopyToOther, CopyToHub, R!Next
    <2>4. ASSUME NEW m \in Messages, NEW c \in Members, SendToHub(m, c)
          PROVE  UNCHANGED R!vars
      BY <2>4 DEF SendToHub, repliVars
    <2> QED BY <1>2, <2>1, <2>2, <2>3, <2>4 DEF Next
  <1> QED BY <1>1, <1>2, PTL DEF Spec, R!Spec

\* The hub does nothing that a hub by itself would not do, if the repli is one of those
\* that call it without being registered.
THEOREM HubByItself == Spec => H!Spec
  <1>1. Init => H!Init
    BY DEF Init
  <1>2. ASSUME [Next]_vars
        PROVE  [H!Next]_(H!vars)
    <2> USE DEF H!vars, H!registry, H!calls
    <2>1. CASE HubStep
      BY <2>1 DEF HubStep, H!Next
    <2>2. CASE RepliStep \/ Done \/ UNCHANGED vars
      BY <2>2 DEF RepliStep, Done, vars, hubVars
    <2>3. ASSUME NEW m \in Messages, Receive(m) \/ CopyToOther(m) \/ CopyToHub(m)
          PROVE  [H!Next]_(H!vars)
      BY <2>3 DEF Receive, CopyToOther, CopyToHub, hubVars, H!Next
    <2>4. ASSUME NEW m \in Messages, NEW c \in Members, SendToHub(m, c)
          PROVE  H!Next
      BY <2>4 DEF SendToHub, H!Next
    <2> QED BY <1>2, <2>1, <2>2, <2>3, <2>4 DEF Next
  <1> QED BY <1>1, <1>2, PTL DEF Spec, H!Spec
=============================================================================
