------------------------------- MODULE StubProofs -------------------------------
(***************************************************************************)
(* What jsonrpc-stub promises of the answers to requests, for every set of *)
(* messages, identifiers and options: nobody is answered twice and nobody  *)
(* loses the answer to a stale identifier, unless an identifier was in use *)
(* twice at the target; and nobody is forgotten.                           *)
(***************************************************************************)
EXTENDS Stub, FiniteSetTheorems, TLAPS

Types ==
  /\ conf \in Confs /\ suspended \in BOOLEAN
  /\ itf \in {"none", "client", "registering", "stub", "closed"}
  /\ handler \subseteq Confs /\ wait \subseteq Ids
  /\ pc \in [Everything -> Stages]
  /\ pstub \in [Messages -> SUBSET Confs]
  /\ held \in [Messages -> {"raw", "wrapped", "mute"}]
  /\ idOf \in [Everything -> Ids \cup {NoId}]
  /\ answers \in [Everything -> Seq({"fake", "real"})]
  /\ shared \subseteq Everything /\ swallowed \subseteq Messages /\ thrown \subseteq Everything

\* Whose options a message has: those of the stab_handler of the connection, which
\* stay the same from reg_io to unreg_io.
Hands ==
  /\ itf \in {"registering", "stub"} => \E c \in Confs : handler = {c}
  /\ itf \notin {"registering", "stub"} => handler = {}
  /\ \A m \in Messages :
       /\ pstub[m] = {} \/ \E c \in Confs : pstub[m] = {c}
       /\ pc[m] \in {"found", "made"} => pstub[m] # {}
       /\ pstub[m] # {} => itf \in {"stub", "closed"} /\ (itf = "stub" => pstub[m] = handler)
  /\ \A c \in Calls : pc[c] \notin {"found", "made"}

\* A message that the target has has an identifier, and two that have the same one at
\* the same time are known to.
Identifiers ==
  /\ \A m \in Everything :
       /\ pc[m] = "new" => idOf[m] = NoId
       /\ pc[m] # "new" /\ (m \notin Notifies \/ pc[m] = "request") => idOf[m] \in Ids
  /\ \A p, q \in Everything :
       p # q /\ Pending(p) /\ Pending(q) /\ idOf[p] = idOf[q] /\ idOf[p] \in Ids => p \in shared

Advanced(m) == m \in Requests /\ \E opt \in pstub[m] : Advance(opt)

\* What has become of a message.
Msg(m) ==
  /\ pc[m] \in {"new", "found"} => answers[m] = <<>>
  /\ pc[m] \in {"made", "request"} => answers[m] = IF Advanced(m) THEN <<"fake">> ELSE <<>>
  /\ pc[m] = "notify" => Len(answers[m]) <= 1 /\ (Advanced(m) => answers[m] = <<"fake">>)
  /\ pc[m] = "done" =>
       /\ Len(answers[m]) <= 2 /\ (m \notin shared => Len(answers[m]) <= 1)
       /\ Advanced(m) => answers[m] # <<>> /\ answers[m][1] = "fake"
  /\ Advanced(m) /\ pc[m] \in {"made", "request"} =>
       held[m] = "mute" /\ (m \notin shared => idOf[m] \in wait)
  /\ m \in swallowed => pc[m] = "done" /\ (m \in Requests /\ answers[m] = <<>> => pstub[m] = {})

IInv == Types /\ Hands /\ Identifiers /\ \A m \in Everything : Msg(m)

-----------------------------------------------------------------------------
(* Lemmas *)

\* One message is identified, or goes on with the identifier it has.
LEMMA Identified ==
  ASSUME Types, Identifiers, NEW m \in Everything, NEW i \in Ids, NEW s \in Stages \ {"new"},
         pc' = [pc EXCEPT ![m] = s], Identify(m, i)
  PROVE  Identifiers' /\ shared \subseteq shared' /\ shared' \subseteq Everything
         /\ idOf' = [idOf EXCEPT ![m] = i]
  <1> DEFINE others == {q \in Everything \ {m} : idOf[q] = i /\ Pending(q)}
  <1>0. /\ pc \in [Everything -> Stages] /\ idOf \in [Everything -> Ids \cup {NoId}]
        /\ shared \subseteq Everything
    BY DEF Types
  <1>1. idOf' = [idOf EXCEPT ![m] = i]
        /\ shared' = shared \cup (IF others = {} THEN {} ELSE others \cup {m})
    BY DEF Identify
  <1>2. idOf'[m] = i /\ pc'[m] = s /\ \A q \in Everything \ {m} : idOf'[q] = idOf[q] /\ pc'[q] = pc[q]
    BY <1>0, <1>1
  <1>3. shared \subseteq shared' /\ shared' \subseteq Everything
    BY <1>0, <1>1
  <1>4. ASSUME NEW q \in Everything
        PROVE  /\ pc'[q] = "new" => idOf'[q] = NoId
               /\ pc'[q] # "new" /\ (q \notin Notifies \/ pc'[q] = "request") => idOf'[q] \in Ids
    BY <1>2 DEF Identifiers
  <1>5. ASSUME NEW p \in Everything, NEW q \in Everything, p # q, Pending(p)', Pending(q)',
               idOf'[p] = idOf'[q], idOf'[p] \in Ids
        PROVE  p \in shared'
    <2>1. CASE p = m
      <3>1. q \in others
        BY <1>2, <1>5, <2>1 DEF Pending
      <3> QED BY <1>1, <2>1, <3>1
    <2>2. CASE q = m
      <3>1. p \in others
        BY <1>2, <1>5, <2>2 DEF Pending
      <3> QED BY <1>1, <3>1
    <2>3. CASE p # m /\ q # m
      <3>1. Pending(p) /\ Pending(q) /\ idOf[p] = idOf[q] /\ idOf[p] \in Ids
        BY <1>2, <1>5, <2>3 DEF Pending
      <3> QED BY <1>3, <1>5, <3>1 DEF Identifiers
    <2> QED BY <2>1, <2>2, <2>3
  <1> QED BY <1>1, <1>3, <1>4, <1>5 DEF Identifiers

\* A message goes on with the identifier it has, or without one.
LEMMA IdentifiersKept ==
  ASSUME Types, Identifiers, NEW m \in Everything, NEW s \in Stages \ {"new"},
         pc' = [pc EXCEPT ![m] = s], UNCHANGED <<idOf, shared>>,
         \/ pc[m] # "new" /\ (s = "request" => idOf[m] \in Ids)
         \/ m \in Notifies /\ pc[m] = "new" /\ s # "request",
         pc[m] # "done"
  PROVE  Identifiers'
  <1>0. /\ pc \in [Everything -> Stages] /\ idOf' = idOf /\ shared' = shared
    BY DEF Types
  <1>1. pc'[m] = s /\ \A q \in Everything \ {m} : pc'[q] = pc[q]
    BY <1>0
  <1>2. ASSUME NEW q \in Everything
        PROVE  /\ pc'[q] = "new" => idOf'[q] = NoId
               /\ pc'[q] # "new" /\ (q \notin Notifies \/ pc'[q] = "request") => idOf'[q] \in Ids
    BY <1>0, <1>1 DEF Identifiers
  <1>3. ASSUME NEW p \in Everything, Pending(p)', idOf'[p] \in Ids
        PROVE  Pending(p)
    BY <1>0, <1>1, <1>3, IdsAssumption DEF Pending, Identifiers
  <1>4. ASSUME NEW p \in Everything, NEW q \in Everything, p # q, Pending(p)', Pending(q)',
               idOf'[p] = idOf'[q], idOf'[p] \in Ids
        PROVE  p \in shared'
    <2>1. Pending(p) /\ Pending(q)
      BY <1>0, <1>3, <1>4
    <2> QED BY <1>0, <1>4, <2>1 DEF Identifiers
  <1> QED BY <1>2, <1>4 DEF Identifiers

\* The others stay as they are.
LEMMA OthersKept ==
  ASSUME NEW q \in Everything, Msg(q),
         pc'[q] = pc[q], answers'[q] = answers[q], idOf'[q] = idOf[q],
         q \in Messages => pstub'[q] = pstub[q] /\ held'[q] = held[q],
         shared \subseteq shared', q \in swallowed' => q \in swallowed,
         Pending(q) /\ q \notin shared' /\ idOf[q] \in wait => idOf[q] \in wait'
  PROVE  Msg(q)'
  <1>1. Advanced(q)' <=> Advanced(q)
    BY DEF Advanced, Messages
  <1>2. Advanced(q) => q \in Messages
    BY DEF Advanced, Messages
  <1>3. /\ pc'[q] \in {"new", "found"} => answers'[q] = <<>>
        /\ pc'[q] \in {"made", "request"} => answers'[q] = IF Advanced(q)' THEN <<"fake">> ELSE <<>>
        /\ pc'[q] = "notify" =>
             Len(answers'[q]) <= 1 /\ (Advanced(q)' => answers'[q] = <<"fake">>)
    BY <1>1 DEF Msg
  <1>4. pc'[q] = "done" =>
          /\ Len(answers'[q]) <= 2 /\ (q \notin shared' => Len(answers'[q]) <= 1)
          /\ Advanced(q)' => answers'[q] # <<>> /\ answers'[q][1] = "fake"
    BY <1>1 DEF Msg
  <1>5. Advanced(q)' /\ pc'[q] \in {"made", "request"} =>
          held'[q] = "mute" /\ (q \notin shared' => idOf'[q] \in wait')
    BY <1>1, <1>2 DEF Msg, Pending
  <1>6. q \in swallowed' =>
          pc'[q] = "done" /\ (q \in Requests /\ answers'[q] = <<>> => pstub'[q] = {})
    BY DEF Msg, Messages
  <1> QED BY <1>3, <1>4, <1>5, <1>6 DEF Msg

\* The first answer and the second.
LEMMA Answers ==
  ASSUME Types, NEW m \in Everything, NEW a \in {"fake", "real"}, Gets(m, a)
  PROVE  /\ answers' \in [Everything -> Seq({"fake", "real"})]
         /\ answers[m] = <<>> => answers'[m] = <<a>>
         /\ answers[m] = <<"fake">> => Len(answers'[m]) = 2 /\ answers'[m][1] = "fake"
         /\ \A q \in Everything \ {m} : answers'[q] = answers[q]
  <1>1. answers \in [Everything -> Seq({"fake", "real"})]
        /\ answers' = [answers EXCEPT ![m] = Append(answers[m], a)]
    BY DEF Types, Gets
  <1>2. Append(answers[m], a) \in Seq({"fake", "real"})
    BY <1>1
  <1>3. answers'[m] = Append(answers[m], a) /\ \A q \in Everything \ {m} : answers'[q] = answers[q]
    BY <1>1
  <1>4. answers' \in [Everything -> Seq({"fake", "real"})]
    BY <1>1, <1>2
  <1>5. answers[m] = <<>> => answers'[m] = <<a>>
    BY <1>3
  <1>6. answers[m] = <<"fake">> => Len(answers'[m]) = 2 /\ answers'[m][1] = "fake"
    BY <1>1, <1>3
  <1> QED BY <1>3, <1>4, <1>5, <1>6

\* A set of one element has one.
LEMMA One ==
  ASSUME NEW T, NEW c \in T, NEW h \in T, {c} = {h}
  PROVE  c = h
  OBVIOUS

-----------------------------------------------------------------------------
(* The steps *)

\* The first state.
LEMMA InitStep == Init => IInv
  <1> SUFFICES ASSUME Init PROVE IInv
    OBVIOUS
  <1>1. Types
    <2>1. suspended \in BOOLEAN
      BY DEF Init
    <2>2. /\ pc \in [Everything -> Stages] /\ idOf \in [Everything -> Ids \cup {NoId}]
          /\ pstub \in [Messages -> SUBSET Confs]
          /\ held \in [Messages -> {"raw", "wrapped", "mute"}]
      BY DEF Init, Stages
    <2>3. answers \in [Everything -> Seq({"fake", "real"})]
      BY DEF Init
    <2> QED BY <2>1, <2>2, <2>3 DEF Init, Types
  <1>2. Hands
    BY DEF Init, Hands, Everything
  <1>3. Identifiers
    BY DEF Init, Identifiers, Pending
  <1>4. \A m \in Everything : Msg(m)
    <2> SUFFICES ASSUME NEW m \in Everything PROVE Msg(m)
      OBVIOUS
    <2>1. pc[m] = "new" /\ answers[m] = <<>> /\ m \notin swallowed
      BY DEF Init
    <2> QED BY <2>1 DEF Msg
  <1> QED BY <1>1, <1>2, <1>3, <1>4 DEF IInv

\* Registration.
LEMMA RegIoStep == IInv /\ RegIo => IInv'
  <1> SUFFICES ASSUME IInv, RegIo PROVE IInv'
    OBVIOUS
  <1>0. UNCHANGED <<conf, suspended, wait, pc, pstub, held, idOf, answers, shared, swallowed, thrown>>
    BY DEF RegIo, settings, calls, history
  <1>1. Types' /\ Hands'
    <2>1. Types /\ Hands
      BY DEF IInv
    <2>2. itf' \in {"client", "registering"}
          /\ handler' = IF itf' = "registering" THEN {conf} ELSE {}
      BY <2>1 DEF RegIo
    <2>3. \A m \in Messages : pstub[m] = {}
      BY <2>1 DEF Hands, RegIo
    <2>4. Types'
      BY <1>0, <2>1, <2>2 DEF Types
    <2>5. Hands'
      BY <1>0, <2>1, <2>2, <2>3 DEF Types, Hands
    <2> QED BY <2>4, <2>5
  <1>2. Identifiers'
    BY <1>0 DEF IInv, Identifiers, Pending
  <1>3. \A m \in Everything : Msg(m)'
    BY <1>0, OthersKept DEF IInv
  <1> QED BY <1>1, <1>2, <1>3 DEF IInv

\* The stab_handler comes to the map.
LEMMA InsertHandlerStep == IInv /\ InsertHandler => IInv'
  <1> SUFFICES ASSUME IInv, InsertHandler PROVE IInv'
    OBVIOUS
  <1>0. UNCHANGED <<conf, suspended, handler, wait, pc, pstub, held, idOf, answers, shared, swallowed, thrown>>
    BY DEF InsertHandler, settings, calls, history
  <1>1. Types' /\ Hands'
    BY <1>0 DEF IInv, Types, Hands, InsertHandler
  <1>2. Identifiers'
    BY <1>0 DEF IInv, Identifiers, Pending
  <1>3. \A m \in Everything : Msg(m)'
    BY <1>0, OthersKept DEF IInv
  <1> QED BY <1>1, <1>2, <1>3 DEF IInv

\* The end of the connection.
LEMMA UnregIoStep == IInv /\ UnregIo => IInv'
  <1> SUFFICES ASSUME IInv, UnregIo PROVE IInv'
    OBVIOUS
  <1>0. UNCHANGED <<conf, suspended, wait, pc, pstub, held, idOf, answers, shared, swallowed, thrown>>
    BY DEF UnregIo, settings, calls, history
  <1>1. Types' /\ Hands'
    BY <1>0 DEF IInv, Types, Hands, UnregIo
  <1>2. Identifiers'
    BY <1>0 DEF IInv, Identifiers, Pending
  <1>3. \A m \in Everything : Msg(m)'
    BY <1>0, OthersKept DEF IInv
  <1> QED BY <1>1, <1>2, <1>3 DEF IInv

\* Reconfiguration, suspension, and a step that changes nothing.
LEMMA SettingsStep == IInv /\ (Suspend \/ Restart \/ UNCHANGED vars) => IInv'
  <1> SUFFICES ASSUME IInv, Suspend \/ Restart \/ UNCHANGED vars PROVE IInv'
    OBVIOUS
  <1>0. UNCHANGED <<itf, handler, wait, pc, pstub, held, idOf, answers, shared, swallowed, thrown>>
    BY DEF Suspend, Restart, vars, calls, history
  <1>1. conf' \in Confs /\ suspended' \in BOOLEAN
    BY DEF IInv, Types, Suspend, Restart, vars, settings
  <1>2. Types' /\ Hands'
    BY <1>0, <1>1 DEF IInv, Types, Hands
  <1>3. Identifiers'
    BY <1>0 DEF IInv, Identifiers, Pending
  <1>4. \A m \in Everything : Msg(m)'
    BY <1>0, OthersKept DEF IInv
  <1> QED BY <1>2, <1>3, <1>4 DEF IInv

\* perform_incoming looks for the handler.
LEMMA FindStep == ASSUME IInv, NEW m \in Messages, Find(m) PROVE IInv'
  <1>0. UNCHANGED <<conf, suspended, itf, handler, wait, held, answers, swallowed, thrown>>
    BY DEF Find, settings
  <1>1. Types /\ Hands /\ Identifiers /\ \A q \in Everything : Msg(q)
    BY DEF IInv
  <1>2. m \in Everything /\ pc[m] = "new"
    BY DEF Find, Everything
  <1>3. PICK s \in {"request", "notify", "found"} :
          /\ pc' = [pc EXCEPT ![m] = s]
          /\ s = "found" <=> pstub'[m] # {}
          /\ m \in Notifies => s # "request"
    BY DEF Find, Kind
  <1>4. /\ pc' \in [Everything -> Stages] /\ pc'[m] = s
        /\ \A q \in Everything \ {m} : pc'[q] = pc[q]
    BY <1>1, <1>2, <1>3 DEF Types, Stages
  <1>5. /\ pstub' \in [Messages -> SUBSET Confs] /\ pstub'[m] \in {{}, Mapped}
        /\ \A q \in Messages \ {m} : pstub'[q] = pstub[q]
    <2>1. pstub' = [pstub EXCEPT ![m] = IF suspended THEN {} ELSE Mapped]
      BY DEF Find
    <2> QED BY <1>1, <2>1 DEF Types, Mapped
  <1>6. Identifiers' /\ shared \subseteq shared' /\ shared' \subseteq Everything
        /\ idOf' \in [Everything -> Ids \cup {NoId}]
        /\ \A q \in Everything \ {m} : idOf'[q] = idOf[q]
    <2>1. CASE m \in Notifies
      <3>1. UNCHANGED <<idOf, shared>>
        BY <2>1 DEF Find
      <3>2. Identifiers'
        BY <1>1, <1>2, <1>3, <2>1, <3>1, IdentifiersKept DEF Stages
      <3> QED BY <1>1, <3>1, <3>2 DEF Types
    <2>2. CASE m \notin Notifies
      <3>1. PICK i \in Ids : Identify(m, i)
        BY <2>2 DEF Find
      <3>2. Identifiers' /\ shared \subseteq shared' /\ shared' \subseteq Everything
            /\ idOf' = [idOf EXCEPT ![m] = i]
        BY <1>1, <1>2, <1>3, <3>1, Identified DEF Stages
      <3> QED BY <1>1, <3>2 DEF Types
    <2> QED BY <2>1, <2>2
  <1>7. Types'
    BY <1>0, <1>1, <1>4, <1>5, <1>6 DEF Types
  <1>8. Hands'
    <2>1. itf # "closed"
      BY DEF Find
    <2>2. /\ itf' \in {"registering", "stub"} => \E c \in Confs : handler' = {c}
          /\ itf' \notin {"registering", "stub"} => handler' = {}
          /\ \A c \in Calls : pc'[c] \notin {"found", "made"}
      BY <1>0, <1>1, <1>2, <1>4, KindsAssumption DEF Hands, Everything, Messages
    <2>3. ASSUME NEW q \in Messages
          PROVE  /\ pstub'[q] = {} \/ \E c \in Confs : pstub'[q] = {c}
                 /\ pc'[q] \in {"found", "made"} => pstub'[q] # {}
                 /\ pstub'[q] # {} => itf' \in {"stub", "closed"} /\ (itf' = "stub" => pstub'[q] = handler')
      <3>1. CASE q = m
        BY <1>0, <1>1, <1>3, <1>4, <1>5, <2>1, <3>1 DEF Hands, Types, Mapped
      <3>2. CASE q # m
        BY <1>0, <1>1, <1>4, <1>5, <3>2 DEF Hands, Everything
      <3> QED BY <3>1, <3>2
    <2> QED BY <2>2, <2>3 DEF Hands
  <1>9. ASSUME NEW q \in Everything
        PROVE  Msg(q)'
    <2>1. CASE q = m
      <3>1. answers'[m] = <<>> /\ m \notin swallowed'
        BY <1>0, <1>1, <1>2 DEF Msg
      <3>2. s # "found" => ~Advanced(m)'
        BY <1>3 DEF Advanced
      <3>3. Len(<<>>) = 0
        OBVIOUS
      <3> QED BY <1>4, <2>1, <3>1, <3>2, <3>3 DEF Msg
    <2>2. CASE q # m
      BY <1>0, <1>1, <1>4, <1>5, <1>6, <2>2, OthersKept
    <2> QED BY <2>1, <2>2
  <1> QED BY <1>6, <1>7, <1>8, <1>9 DEF IInv

\* make(handler, raw_id).
LEMMA MakeStep == ASSUME IInv, NEW m \in Messages, Make(m) PROVE IInv'
  <1>0. UNCHANGED <<conf, suspended, itf, handler, pstub, idOf, shared, swallowed, thrown>>
    BY DEF Make, settings, history
  <1>1. Types /\ Hands /\ Identifiers /\ \A q \in Everything : Msg(q)
    BY DEF IInv
  <1>2. m \in Everything /\ pc[m] = "found" /\ answers[m] = <<>> /\ m \notin swallowed
    BY <1>1 DEF Make, Everything, Msg
  <1>3. PICK opt \in pstub[m] :
          /\ held' = [held EXCEPT ![m] = IF Advance(opt) THEN "mute" ELSE "wrapped"]
          /\ IF Advance(opt) /\ m \in Requests
             THEN wait' = wait \cup {idOf[m]} /\ Gets(m, "fake")
             ELSE UNCHANGED <<wait, answers>>
    BY DEF Make
  <1>4. Advanced(m)' <=> m \in Requests /\ Advance(opt)
    <2>1. pstub[m] = {opt}
      BY <1>1, <1>3 DEF Hands
    <2> QED BY <1>0, <2>1 DEF Advanced
  <1>5. pc' = [pc EXCEPT ![m] = "made"]
    BY DEF Make
  <1>6. /\ pc' \in [Everything -> Stages] /\ pc'[m] = "made"
        /\ \A q \in Everything \ {m} : pc'[q] = pc[q]
    BY <1>1, <1>2, <1>5 DEF Types, Stages
  <1>7. /\ held' \in [Messages -> {"raw", "wrapped", "mute"}]
        /\ Advance(opt) => held'[m] = "mute"
        /\ \A q \in Messages \ {m} : held'[q] = held[q]
    BY <1>1, <1>3 DEF Types
  <1>8. /\ answers' \in [Everything -> Seq({"fake", "real"})]
        /\ answers'[m] = IF Advanced(m)' THEN <<"fake">> ELSE <<>>
        /\ \A q \in Everything \ {m} : answers'[q] = answers[q]
    <2>1. CASE Advance(opt) /\ m \in Requests
      BY <1>1, <1>2, <1>3, <1>4, <2>1, Answers
    <2>2. CASE ~(Advance(opt) /\ m \in Requests)
      BY <1>1, <1>2, <1>3, <1>4, <2>2 DEF Types
    <2> QED BY <2>1, <2>2
  <1>9. wait \subseteq wait' /\ wait' \subseteq Ids /\ (Advanced(m)' => idOf[m] \in wait')
    <2>1. m \in Requests => idOf[m] \in Ids
      BY <1>1, <1>2, KindsAssumption DEF Identifiers
    <2> QED BY <1>1, <1>3, <1>4, <2>1 DEF Types
  <1>10. Types'
    BY <1>0, <1>1, <1>6, <1>7, <1>8, <1>9 DEF Types
  <1>11. Hands'
    <2>1. \A q \in Messages : pc'[q] \in {"found", "made"} => pstub'[q] # {}
      BY <1>0, <1>1, <1>3, <1>6 DEF Hands, Everything
    <2>2. \A c \in Calls : pc'[c] \notin {"found", "made"}
      BY <1>1, <1>6, KindsAssumption DEF Hands, Everything, Messages
    <2> QED BY <1>0, <1>1, <2>1, <2>2 DEF Hands
  <1>12. Identifiers'
    BY <1>0, <1>1, <1>2, <1>5, IdentifiersKept DEF Stages
  <1>13. ASSUME NEW q \in Everything
         PROVE  Msg(q)'
    <2>1. CASE q = m
      BY <1>0, <1>2, <1>4, <1>6, <1>7, <1>8, <1>9, <2>1 DEF Msg
    <2>2. CASE q # m
      BY <1>0, <1>1, <1>6, <1>7, <1>8, <1>9, <2>2, OthersKept
    <2> QED BY <2>1, <2>2
  <1> QED BY <1>10, <1>11, <1>12, <1>13 DEF IInv

\* The conversion of a message, and the target gets it.
LEMMA PassStep == ASSUME IInv, NEW m \in Messages, Pass(m) PROVE IInv'
  <1>0. UNCHANGED <<conf, suspended, itf, handler, wait, pstub, held, swallowed, thrown>>
    BY DEF Pass, settings
  <1>1. Types /\ Hands /\ Identifiers /\ \A q \in Everything : Msg(q)
    BY DEF IInv
  <1>2. m \in Everything /\ pc[m] = "made" /\ m \notin swallowed
        /\ answers[m] = IF Advanced(m) THEN <<"fake">> ELSE <<>>
    BY <1>1 DEF Pass, Everything, Msg
  <1>3. PICK opt \in pstub[m], s \in {"request", "notify"} :
          /\ pc' = [pc EXCEPT ![m] = s]
          /\ \/ /\ m \in Requests /\ s = "notify" /\ UNCHANGED <<idOf, shared>>
                /\ IF Advance(opt) THEN UNCHANGED answers ELSE Gets(m, "fake")
             \/ /\ m \in Notifies /\ UNCHANGED answers
                /\ \E i \in Ids : Identify(m, i)
             \/ /\ m \in Notifies => s # "request"
                /\ UNCHANGED <<idOf, shared, answers>>
    BY DEF Pass, Kind
  <1>4. Advanced(m)' <=> Advanced(m)
    BY <1>0 DEF Advanced
  <1>5. Advanced(m) <=> m \in Requests /\ Advance(opt)
    <2>1. pstub[m] = {opt}
      BY <1>1, <1>3 DEF Hands
    <2> QED BY <2>1 DEF Advanced
  <1>6. /\ pc' \in [Everything -> Stages] /\ pc'[m] = s
        /\ \A q \in Everything \ {m} : pc'[q] = pc[q]
    BY <1>1, <1>2, <1>3 DEF Types, Stages
  <1>7. /\ answers' \in [Everything -> Seq({"fake", "real"})]
        /\ Advanced(m) => answers'[m] = <<"fake">>
        /\ ~Advanced(m) => answers'[m] \in {<<>>, <<"fake">>}
        /\ ~Advanced(m) /\ s = "request" => answers'[m] = <<>>
        /\ \A q \in Everything \ {m} : answers'[q] = answers[q]
    <2>1. CASE UNCHANGED answers
      BY <1>1, <1>2, <2>1 DEF Types
    <2>2. CASE s = "notify" /\ Gets(m, "fake") /\ ~Advance(opt)
      BY <1>1, <1>2, <1>5, <2>2, Answers
    <2> QED BY <1>3, <2>1, <2>2
  <1>8. /\ Identifiers' /\ shared \subseteq shared' /\ shared' \subseteq Everything
        /\ idOf' \in [Everything -> Ids \cup {NoId}]
        /\ \A q \in Everything \ {m} : idOf'[q] = idOf[q]
        /\ m \in Requests => idOf'[m] = idOf[m]
    <2>1. CASE UNCHANGED <<idOf, shared>>
      <3>1. s = "request" => m \notin Notifies \/ \E i \in Ids : Identify(m, i)
        BY <1>3, KindsAssumption
      <3>2. CASE s = "request" => idOf[m] \in Ids
        <4>1. Identifiers'
          BY <1>1, <1>2, <1>3, <2>1, <3>2, IdentifiersKept DEF Stages
        <4> QED BY <1>1, <2>1, <4>1 DEF Types
      <3>3. CASE s = "request" /\ idOf[m] \notin Ids
        <4>1. PICK i \in Ids : Identify(m, i)
          BY <1>1, <1>2, <3>1, <3>3 DEF Identifiers
        <4>2. Identifiers' /\ idOf' = [idOf EXCEPT ![m] = i]
          BY <1>1, <1>2, <1>3, <4>1, Identified DEF Stages
        <4> QED BY <1>1, <1>2, <2>1, <3>3, <4>2 DEF Types
      <3> QED BY <3>2, <3>3
    <2>2. CASE m \in Notifies /\ \E i \in Ids : Identify(m, i)
      <3>1. PICK i \in Ids : Identify(m, i)
        BY <2>2
      <3>2. Identifiers' /\ shared \subseteq shared' /\ shared' \subseteq Everything
            /\ idOf' = [idOf EXCEPT ![m] = i]
        BY <1>1, <1>2, <1>3, <3>1, Identified DEF Stages
      <3> QED BY <1>1, <2>2, <3>2, KindsAssumption DEF Types
    <2> QED BY <1>3, <2>1, <2>2
  <1>9. Types'
    BY <1>0, <1>1, <1>6, <1>7, <1>8 DEF Types
  <1>10. Hands'
    <2>1. \A q \in Messages : pc'[q] \in {"found", "made"} => pstub'[q] # {}
      BY <1>0, <1>1, <1>3, <1>6 DEF Hands, Everything
    <2>2. \A c \in Calls : pc'[c] \notin {"found", "made"}
      BY <1>1, <1>3, <1>6, KindsAssumption DEF Hands, Everything, Messages
    <2> QED BY <1>0, <1>1, <2>1, <2>2 DEF Hands
  <1>11. ASSUME NEW q \in Everything
         PROVE  Msg(q)'
    <2>1. CASE q = m
      <3>1. Advanced(m) => held'[m] = "mute" /\ (m \notin shared' => idOf'[m] \in wait')
        BY <1>0, <1>1, <1>2, <1>5, <1>8 DEF Msg
      <3>2. pc'[m] = "notify" =>
              Len(answers'[m]) <= 1 /\ (Advanced(m) => answers'[m] = <<"fake">>)
        <4>1. CASE answers'[m] = <<>>
          BY <1>7, <4>1
        <4>2. CASE answers'[m] = <<"fake">>
          BY <1>7, <4>2
        <4> QED BY <1>7, <4>1, <4>2
      <3> QED BY <1>0, <1>2, <1>3, <1>4, <1>6, <1>7, <2>1, <3>1, <3>2 DEF Msg
    <2>2. CASE q # m
      BY <1>0, <1>1, <1>6, <1>7, <1>8, <2>2, OthersKept
    <2> QED BY <2>1, <2>2
  <1> QED BY <1>8, <1>9, <1>10, <1>11 DEF IInv

\* A message is over with one more answer, which is not given to a request that was
\* answered in advance, or with none.
LEMMA FinishStep ==
  ASSUME IInv, NEW m \in Everything, pc[m] = "request", Finish(m),
         UNCHANGED <<conf, suspended, itf, handler, pstub, held, idOf, shared>>,
         \/ UNCHANGED answers
         \/ Advanced(m) => m \in shared /\ \E a \in {"fake", "real"} : Gets(m, a),
         ~Advanced(m) => UNCHANGED answers \/ \E a \in {"fake", "real"} : Gets(m, a),
         wait' \subseteq Ids,
         \A i \in wait \ wait' : i = idOf[m],
         \/ UNCHANGED swallowed
         \/ /\ m \in Messages /\ swallowed' = swallowed \cup {m}
            /\ m \in Requests /\ ~Advanced(m) => pstub[m] = {},
         thrown' \subseteq Everything
  PROVE  IInv'
  <1>1. Types /\ Hands /\ Identifiers /\ \A q \in Everything : Msg(q)
    BY DEF IInv
  <1>2. m \notin swallowed /\ answers[m] = IF Advanced(m) THEN <<"fake">> ELSE <<>>
    BY <1>1 DEF Msg
  <1>3. Advanced(m)' <=> Advanced(m)
    BY DEF Advanced
  <1>4. /\ pc' = [pc EXCEPT ![m] = "done"]
        /\ pc' \in [Everything -> Stages] /\ pc'[m] = "done"
        /\ \A q \in Everything \ {m} : pc'[q] = pc[q]
    BY <1>1 DEF Types, Stages, Finish
  <1>5. /\ answers' \in [Everything -> Seq({"fake", "real"})]
        /\ \A q \in Everything \ {m} : answers'[q] = answers[q]
        /\ Len(answers'[m]) <= 2 /\ (m \notin shared => Len(answers'[m]) <= 1)
        /\ Advanced(m) => answers'[m] # <<>> /\ answers'[m][1] = "fake"
    <2>1. CASE UNCHANGED answers
      <3>1. CASE Advanced(m)
        <4>1. answers'[m] = <<"fake">>
          BY <1>2, <2>1, <3>1
        <4>2. Len(answers'[m]) = 1 /\ answers'[m] # <<>> /\ answers'[m][1] = "fake"
          BY <4>1
        <4> QED BY <1>1, <2>1, <4>2 DEF Types
      <3>2. CASE ~Advanced(m)
        BY <1>1, <1>2, <2>1, <3>2 DEF Types
      <3> QED BY <3>1, <3>2
    <2>2. CASE (Advanced(m) => m \in shared) /\ \E a \in {"fake", "real"} : Gets(m, a)
      <3>0. PICK a \in {"fake", "real"} : Gets(m, a)
        BY <2>2
      <3>1. CASE Advanced(m)
        <4>1. Len(answers'[m]) = 2 /\ answers'[m][1] = "fake"
          BY <1>1, <1>2, <3>0, <3>1, Answers
        <4> QED BY <1>1, <2>2, <3>0, <3>1, <4>1, Answers
      <3>2. CASE ~Advanced(m)
        <4>1. answers'[m] = <<a>>
          BY <1>1, <1>2, <3>0, <3>2, Answers
        <4> QED BY <1>1, <3>0, <3>2, <4>1, Answers
      <3> QED BY <3>1, <3>2
    <2> QED BY <2>1, <2>2
  <1>6. Types'
    BY <1>1, <1>4, <1>5 DEF Types
  <1>7. Hands'
    BY <1>1, <1>4 DEF Hands, Everything, Messages
  <1>8. Identifiers'
    BY <1>1, <1>4, IdentifiersKept DEF Stages
  <1>9. ASSUME NEW q \in Everything
        PROVE  Msg(q)'
    <2>1. CASE q = m
      <3>1. m \in swallowed' => (m \in Requests /\ answers'[m] = <<>> => pstub'[m] = {})
        BY <1>2, <1>5
      <3> QED BY <1>3, <1>4, <1>5, <2>1, <3>1 DEF Msg
    <2>2. CASE q # m
      <3>1. Pending(q) /\ q \notin shared' /\ idOf[q] \in wait => idOf[q] \in wait'
        BY <1>1, <2>2 DEF Types, Identifiers, Pending
      <3> QED BY <1>1, <1>4, <1>5, <2>2, <3>1, OthersKept
    <2> QED BY <2>1, <2>2
  <1> QED BY <1>6, <1>7, <1>8, <1>9 DEF IInv

\* The target answers by the handler.
LEMMA ByHandlerStep == ASSUME IInv, NEW m \in Messages, ByHandler(m) PROVE IInv'
  <1>0. UNCHANGED <<conf, suspended, itf, handler, wait, pstub, held, idOf, shared, swallowed>>
    BY DEF ByHandler, settings
  <1>1. m \in Everything /\ Types /\ Msg(m)
    BY DEF IInv, Everything
  <1>2. pc[m] = "request" /\ Finish(m)
    BY DEF ByHandler
  <1>3. /\ UNCHANGED answers \/ (~Advanced(m) /\ Gets(m, "real"))
        /\ thrown' \subseteq Everything
    BY <1>1, <1>2 DEF ByHandler, Effective, Msg, Types
  <1> QED BY <1>0, <1>1, <1>2, <1>3, FinishStep DEF Types

\* An answer is never given to the handler of another message.
LEMMA AnswersAnswerStep ==
  ASSUME Types, Identifiers, NEW m \in Everything, pc[m] = "request", NEW opt, NEW kind,
         AnswersAnswer(m, opt, kind)
  PROVE  /\ UNCHANGED answers \/ \E a \in {"fake", "real"} : Gets(m, a)
         /\ wait \subseteq wait' /\ wait' \subseteq Ids
         /\ thrown' \subseteq Everything
  <1>1. idOf[m] \in Ids
    BY DEF Identifiers
  <1> QED BY <1>1 DEF Types, AnswersAnswer, Substitute

\* The target answers by the interface.
LEMMA ByInterfaceStep ==
  ASSUME IInv, NEW m \in Messages, NEW kind, ByInterface(m, kind) PROVE IInv'
  <1>0. UNCHANGED <<conf, suspended, itf, handler, pstub, held, idOf, shared>>
    BY DEF ByInterface, settings
  <1>1. m \in Everything /\ Types /\ Hands /\ Identifiers /\ Msg(m)
    BY DEF IInv, Everything
  <1>2. pc[m] = "request" /\ Finish(m)
    BY DEF ByInterface
  <1>3. CASE itf = "client" /\ Gets(m, "real") /\ UNCHANGED <<wait, swallowed, thrown>>
    <2>1. ~Advanced(m)
      BY <1>1, <1>3 DEF Hands, Advanced
    <2> QED BY <1>0, <1>1, <1>2, <1>3, <2>1, FinishStep DEF Types
  <1>4. ASSUME itf \in {"registering", "stub"}, NEW opt \in handler, Advance(opt), idOf[m] \in wait,
               wait' = wait \ {idOf[m]}, swallowed' = swallowed \cup {m}, UNCHANGED <<answers, thrown>>
        PROVE  IInv'
    <2>1. m \in Requests /\ ~Advanced(m) => pstub[m] = {}
      BY <1>1, <1>4 DEF Hands, Advanced
    <2> QED BY <1>0, <1>1, <1>2, <1>4, <2>1, FinishStep DEF Types
  <1>5. ASSUME itf \in {"registering", "stub"}, NEW opt \in handler, ~(Advance(opt) /\ idOf[m] \in wait),
               AnswersAnswer(m, opt, kind), UNCHANGED swallowed
        PROVE  IInv'
    <2>1. Advanced(m) => m \in shared
      <3>1. ASSUME Advanced(m)
            PROVE  Advance(opt)
        <4>1. pstub[m] = handler /\ \E c \in Confs : handler = {c}
          BY <1>1, <1>5, <3>1 DEF Hands, Advanced
        <4> QED BY <1>5, <3>1, <4>1 DEF Advanced
      <3> QED BY <1>1, <1>2, <1>5, <3>1 DEF Msg
    <2>2. /\ UNCHANGED answers \/ \E a \in {"fake", "real"} : Gets(m, a)
          /\ wait \subseteq wait' /\ wait' \subseteq Ids
          /\ thrown' \subseteq Everything
      BY <1>1, <1>2, <1>5, AnswersAnswerStep
    <2> QED BY <1>0, <1>1, <1>2, <1>5, <2>1, <2>2, FinishStep
  <1> QED BY <1>3, <1>4, <1>5 DEF ByInterface

\* The target calls the client.
LEMMA CallOutStep == ASSUME IInv, NEW c \in Calls, CallOut(c) PROVE IInv'
  <1>0. UNCHANGED <<conf, suspended, itf, handler, wait, pstub, held, swallowed, thrown>>
    BY DEF CallOut, settings
  <1>1. Types /\ Hands /\ Identifiers /\ \A q \in Everything : Msg(q)
    BY DEF IInv
  <1>2. c \in Everything /\ pc[c] = "new" /\ answers[c] = <<>> /\ c \notin swallowed
        /\ c \notin Messages
    BY <1>1, KindsAssumption DEF CallOut, Everything, Messages, Msg
  <1>3. PICK i \in Ids : Identify(c, i)
    BY DEF CallOut
  <1>4. PICK s \in {"request", "notify"} :
          /\ pc' = [pc EXCEPT ![c] = s]
          /\ UNCHANGED answers \/ (s = "notify" /\ Gets(c, "fake"))
    BY DEF CallOut
  <1>5. /\ pc' \in [Everything -> Stages] /\ pc'[c] = s
        /\ \A q \in Everything \ {c} : pc'[q] = pc[q]
    BY <1>1, <1>2, <1>4 DEF Types, Stages
  <1>6. /\ answers' \in [Everything -> Seq({"fake", "real"})]
        /\ answers'[c] = <<>> \/ (s = "notify" /\ answers'[c] = <<"fake">>)
        /\ \A q \in Everything \ {c} : answers'[q] = answers[q]
    BY <1>1, <1>2, <1>4, Answers DEF Types
  <1>7. /\ Identifiers' /\ shared \subseteq shared' /\ shared' \subseteq Everything
        /\ idOf' = [idOf EXCEPT ![c] = i]
    BY <1>1, <1>2, <1>3, <1>4, Identified DEF Stages
  <1>8. idOf' \in [Everything -> Ids \cup {NoId}] /\ \A q \in Everything \ {c} : idOf'[q] = idOf[q]
    BY <1>1, <1>7 DEF Types
  <1>9. Types' /\ Hands'
    <2>1. Types'
      BY <1>0, <1>1, <1>5, <1>6, <1>7, <1>8 DEF Types
    <2>2. Hands'
      BY <1>0, <1>1, <1>2, <1>5 DEF Hands, Everything
    <2> QED BY <2>1, <2>2
  <1>10. ASSUME NEW q \in Everything
         PROVE  Msg(q)'
    <2>1. CASE q = c
      <3>1. ~Advanced(c)'
        BY <1>2 DEF Advanced, Messages
      <3>2. Len(answers'[c]) <= 1
        <4>1. CASE answers'[c] = <<>>
          BY <4>1
        <4>2. CASE answers'[c] = <<"fake">>
          BY <4>2
        <4> QED BY <1>6, <4>1, <4>2
      <3> QED BY <1>0, <1>2, <1>5, <1>6, <2>1, <3>1, <3>2 DEF Msg
    <2>2. CASE q # c
      BY <1>0, <1>1, <1>5, <1>6, <1>7, <1>8, <2>2, OthersKept
    <2> QED BY <2>1, <2>2
  <1> QED BY <1>7, <1>9, <1>10 DEF IInv

\* The client answers.
LEMMA ReplyStep == ASSUME IInv, NEW c \in Calls, NEW kind, Reply(c, kind) PROVE IInv'
  <1>0. UNCHANGED <<conf, suspended, itf, handler, pstub, held, idOf, shared, swallowed>>
    BY DEF Reply, settings
  <1>1. c \in Everything /\ Types /\ Identifiers
    BY DEF IInv, Everything
  <1>2. pc[c] = "request" /\ Finish(c)
    BY DEF Reply
  <1>3. ~Advanced(c)
    BY KindsAssumption DEF Advanced
  <1>4. /\ UNCHANGED answers \/ \E a \in {"fake", "real"} : Gets(c, a)
        /\ wait \subseteq wait' /\ wait' \subseteq Ids
        /\ thrown' \subseteq Everything
    <2>1. CASE Gets(c, "real") /\ UNCHANGED <<wait, thrown>>
      BY <1>1, <2>1 DEF Types
    <2>2. CASE \E opt \in Mapped : AnswersAnswer(c, opt, kind)
      BY <1>1, <1>2, <2>2, AnswersAnswerStep
    <2> QED BY <2>1, <2>2 DEF Reply
  <1> QED BY <1>0, <1>1, <1>2, <1>3, <1>4, FinishStep

-----------------------------------------------------------------------------
(* Theorems *)

\* Every step.
LEMMA Inductive == IInv /\ [Next]_vars => IInv'
  <1> SUFFICES ASSUME IInv, [Next]_vars PROVE IInv'
    OBVIOUS
  <1>1. CASE Environment
    BY <1>1, RegIoStep, InsertHandlerStep, UnregIoStep, SettingsStep DEF Environment
  <1>2. CASE \E m \in Messages : Incoming(m)
    BY <1>2, FindStep, MakeStep, PassStep DEF Incoming
  <1>3. CASE \E m \in Messages : Answer(m)
    BY <1>3, ByHandlerStep, ByInterfaceStep DEF Answer
  <1>4. CASE \E c \in Calls : CallOut(c) \/ \E kind \in Kinds : Reply(c, kind)
    BY <1>4, CallOutStep, ReplyStep
  <1>5. CASE Done \/ UNCHANGED vars
    BY <1>5, SettingsStep DEF Done
  <1> QED BY <1>1, <1>2, <1>3, <1>4, <1>5 DEF Next

\* The invariant of every run.
LEMMA Invariant == Spec => []IInv
  <1> QED BY InitStep, Inductive, PTL DEF Spec

\* The target has a stab_handler to call from reg_io to unreg_io and no longer, with the
\* options of the connection, and no message is answered more than twice.
THEOREM TypeCorrect == Spec => []TypeOK
  <1>1. IInv => TypeOK
    <2> SUFFICES ASSUME IInv PROVE TypeOK
      OBVIOUS
    <2>1. Types /\ Hands /\ \A q \in Everything : Msg(q)
      BY DEF IInv
    <2>0. Cardinality({}) = 0 /\ \A c \in Confs : Cardinality({c}) = 1
      BY FS_EmptySet, FS_Singleton
    <2>2. Cardinality(handler) = (IF itf \in {"registering", "stub"} THEN 1 ELSE 0)
      <3>1. /\ itf \in {"registering", "stub"} => \E c \in Confs : handler = {c}
            /\ itf \notin {"registering", "stub"} => handler = {}
        BY <2>1 DEF Hands
      <3>2. CASE itf \in {"registering", "stub"}
        <4>1. PICK c \in Confs : handler = {c}
          BY <3>1, <3>2
        <4>2. Cardinality(handler) = 1
          BY <2>0, <4>1
        <4> QED BY <3>2, <4>2
      <3>3. CASE itf \notin {"registering", "stub"}
        BY <2>0, <3>1, <3>3
      <3> QED BY <3>2, <3>3
    <2>3. ASSUME NEW m \in Messages, pc[m] \in {"found", "made"}
          PROVE  Cardinality(pstub[m]) = 1
      <3>1. PICK c \in Confs : pstub[m] = {c}
        BY <2>1, <2>3 DEF Hands
      <3> QED BY <2>0, <3>1
    <2>4. ASSUME NEW m \in Everything
          PROVE  idOf[m] \in Ids \cup {NoId} /\ Len(answers[m]) <= 2
      <3>1. pc[m] \in Stages /\ Len(answers[m]) \in Nat
        BY <2>1 DEF Types
      <3>2. CASE answers[m] = <<>>
        BY <2>1, <3>2 DEF Types
      <3>3. CASE answers[m] = <<"fake">>
        BY <2>1, <3>3 DEF Types
      <3>4. CASE Len(answers[m]) <= 2
        BY <2>1, <3>4 DEF Types
      <3> QED BY <2>1, <3>1, <3>2, <3>3, <3>4 DEF Msg, Stages
    <2>5. \A m \in Messages : pstub[m] \subseteq Confs /\ held[m] \in {"raw", "wrapped", "mute"}
      BY <2>1 DEF Types
    <2> QED BY <2>1, <2>2, <2>3, <2>4, <2>5 DEF TypeOK, Types
  <1> QED BY <1>1, Invariant, PTL

\* No request is answered twice, whatever is suspended, reconfigured or closed
\* meanwhile, unless its identifier was in use twice at the target.
THEOREM OneAnswerCorrect == Spec => []OneAnswer
  <1>1. IInv => OneAnswer
    <2> SUFFICES ASSUME IInv, NEW m \in Everything, m \notin shared PROVE Len(answers[m]) <= 1
      BY DEF OneAnswer
    <2>1. Types /\ Msg(m)
      BY DEF IInv
    <2>2. pc[m] \in Stages
      BY <2>1 DEF Types
    <2>3. CASE answers[m] = <<>>
      BY <2>3
    <2>4. CASE answers[m] = <<"fake">>
      BY <2>4
    <2> QED BY <2>1, <2>2, <2>3, <2>4 DEF Msg, Stages
  <1> QED BY <1>1, Invariant, PTL

\* _wait_responce stops no answer that a client waits for, but of a request that went
\* round the stub while it was suspended or not yet in _handler_map.
THEOREM StoppedCorrect == Spec => []StoppedWereAnswered
  <1>1. IInv => StoppedWereAnswered
    BY DEF IInv, Msg, StoppedWereAnswered, Everything, Messages
  <1> QED BY <1>1, Invariant, PTL

\* In advance mode the substitute comes first and, unless the identifier was in use
\* twice at the target, alone.
THEOREM AdvanceCorrect == Spec => []AnsweredInAdvance
  <1>1. IInv => AnsweredInAdvance
    <2> SUFFICES ASSUME IInv, NEW m \in Requests, \E opt \in pstub[m] : Advance(opt),
                        pc[m] \in {"request", "notify", "done"}
                 PROVE  answers[m] # <<>> /\ answers[m][1] = "fake"
                        /\ (m \notin shared => Len(answers[m]) = 1)
      BY DEF AnsweredInAdvance
    <2>1. Types /\ Msg(m) /\ Advanced(m) /\ m \in Everything
      BY DEF IInv, Advanced, Everything, Messages
    <2>2. CASE pc[m] = "done"
      <3>1. /\ answers[m] # <<>> /\ answers[m][1] = "fake"
            /\ m \notin shared => Len(answers[m]) <= 1
        BY <2>1, <2>2 DEF Msg
      <3>2. answers[m] \in Seq({"fake", "real"})
        BY <2>1 DEF Types
      <3>3. Len(answers[m]) \in Nat /\ Len(answers[m]) # 0
        BY <3>1, <3>2
      <3>4. ASSUME m \notin shared
            PROVE  Len(answers[m]) = 1
        <4>1. \A n \in Nat : n # 0 /\ n <= 1 => n = 1
          OBVIOUS
        <4> QED BY <3>1, <3>3, <3>4, <4>1
      <3> QED BY <3>1, <3>4
    <2>3. CASE pc[m] # "done"
      <3>1. answers[m] = <<"fake">>
        BY <2>1, <2>3 DEF Msg
      <3> QED BY <3>1
    <2> QED BY <2>2, <2>3
  <1> QED BY <1>1, Invariant, PTL

-----------------------------------------------------------------------------
(* Nobody is forgotten *)

\* A wrapped handler and a mute one were made by the stab_handler of the connection.
Answerer(m) ==
  /\ pc[m] = "new" => held[m] = "raw"
  /\ held[m] = "wrapped" => pstub[m] # {}
  /\ held[m] = "mute" => \E opt \in pstub[m] : Advance(opt)

\* Who waits for nothing any more has an answer, or has lost it in a named way.
NoneForgotten ==
  \A m \in Requests \cup Calls :
    pc[m] \in {"notify", "done"} => answers[m] # <<>> \/ Unanswerable(m)

Answerers == \A m \in Messages : Answerer(m)

\* A handler that is called leaves an answer.
LEMMA Answered ==
  ASSUME Types, NEW m \in Everything, NEW a \in {"fake", "real"}, Gets(m, a)
  PROVE  answers'[m] # <<>> /\ \A q \in Everything : answers[q] # <<>> => answers'[q] # <<>>
  <1>1. answers \in [Everything -> Seq({"fake", "real"})]
        /\ answers' = [answers EXCEPT ![m] = Append(answers[m], a)]
    BY DEF Types, Gets
  <1>2. Append(answers[m], a) # <<>>
    BY <1>1
  <1> QED BY <1>1, <1>2

\* What becomes of a call that its side answers by the stab_handler.
LEMMA AnswersOrThrows ==
  ASSUME Types, NEW m \in Everything, NEW opt, NEW kind, AnswersAnswer(m, opt, kind)
  PROVE  \/ \E a \in {"fake", "real"} : Gets(m, a) /\ UNCHANGED thrown
         \/ UNCHANGED answers /\ thrown' = thrown \cup {m}
  BY DEF AnswersAnswer, Substitute

\* Answers and reasons stay.
LEMMA Lasting ==
  ASSUME IInv, [Next]_vars, NEW q \in Requests \cup Calls, pc[q] \in {"notify", "done"},
         answers[q] # <<>> \/ Unanswerable(q)
  PROVE  answers'[q] # <<>> \/ Unanswerable(q)'
  <1>1. Types /\ Hands /\ q \in Everything
    BY DEF IInv, Everything, Messages
  <1>2. \/ UNCHANGED answers
        \/ \E m \in Everything : \E a \in {"fake", "real"} : Gets(m, a)
    <2>1. CASE Environment \/ Done \/ UNCHANGED vars
      BY <2>1 DEF Environment, RegIo, InsertHandler, UnregIo, Suspend, Restart, Done, vars
    <2>2. ASSUME NEW m \in Messages, Incoming(m) \/ Answer(m)
          PROVE  UNCHANGED answers \/ \E a \in {"fake", "real"} : Gets(m, a)
      BY <2>2 DEF Incoming, Answer, Find, Make, Pass, ByHandler, ByInterface, AnswersAnswer, Substitute
    <2>3. ASSUME NEW c \in Calls, CallOut(c) \/ \E kind \in Kinds : Reply(c, kind)
          PROVE  UNCHANGED answers \/ \E a \in {"fake", "real"} : Gets(c, a)
      BY <2>3 DEF CallOut, Reply, AnswersAnswer, Substitute
    <2> QED BY <2>1, <2>2, <2>3 DEF Next, Everything
  <1>3. answers[q] # <<>> => answers'[q] # <<>>
    BY <1>1, <1>2, Answered
  <1>4. /\ itf = "closed" => itf' = "closed"
        /\ handler' = handler \/ itf' = "closed" \/ itf = "none"
        /\ thrown \subseteq thrown' /\ swallowed \subseteq swallowed'
        /\ \A m \in Messages : pc[m] # "new" => pstub'[m] = pstub[m]
    <2>1. CASE Environment \/ Done \/ UNCHANGED vars
      BY <2>1 DEF Environment, RegIo, InsertHandler, UnregIo, Suspend, Restart, Done, vars, calls, history
    <2>2. ASSUME NEW m \in Messages, Find(m)
          PROVE  /\ UNCHANGED <<itf, handler, thrown, swallowed>>
                 /\ \A p \in Messages : pc[p] # "new" => pstub'[p] = pstub[p]
      BY <1>1, <2>2 DEF Find, Types
    <2>3. ASSUME NEW m \in Messages, Make(m) \/ Pass(m) \/ ByHandler(m)
          PROVE  UNCHANGED <<itf, handler, swallowed, pstub>> /\ thrown \subseteq thrown'
      BY <2>3 DEF Make, Pass, ByHandler, history
    <2>4. ASSUME NEW m \in Messages, NEW kind \in Kinds, ByInterface(m, kind)
          PROVE  UNCHANGED <<itf, handler, pstub>> /\ thrown \subseteq thrown' /\ swallowed \subseteq swallowed'
      BY <2>4 DEF ByInterface, AnswersAnswer
    <2>5. ASSUME NEW c \in Calls, CallOut(c)
          PROVE  UNCHANGED <<itf, handler, thrown, swallowed, pstub>>
      BY <2>5 DEF CallOut
    <2>6. ASSUME NEW c \in Calls, NEW kind \in Kinds, Reply(c, kind)
          PROVE  UNCHANGED <<itf, handler, swallowed, pstub>> /\ thrown \subseteq thrown'
      BY <2>6 DEF Reply, AnswersAnswer
    <2> QED BY <2>1, <2>2, <2>3, <2>4, <2>5, <2>6 DEF Next, Incoming, Answer
  <1>5. itf = "none" => handler = {}
    BY <1>1 DEF Hands
  <1>6. q \in swallowed => q \in Messages
    BY <1>1 DEF Types
  <1> QED BY <1>3, <1>4, <1>5, <1>6 DEF Unanswerable

\* Handlers are made from the options that the message has met.
LEMMA AnswererStep == IInv /\ Answerers /\ [Next]_vars => Answerers'
  <1> SUFFICES ASSUME IInv, Answerers, [Next]_vars, NEW q \in Messages PROVE Answerer(q)'
    BY DEF Answerers
  <1>1. Types /\ Hands /\ Answerer(q) /\ q \in Everything
    BY DEF IInv, Answerers, Everything
  <1>2. CASE UNCHANGED <<held, pstub>> /\ (pc'[q] = "new" => pc[q] = "new")
    BY <1>1, <1>2 DEF Answerer
  <1>3. ASSUME NEW m \in Messages, Find(m) PROVE Answerer(q)'
    <2>1. CASE q = m
      BY <1>1, <1>3, <2>1 DEF Find, Answerer
    <2>2. CASE q # m
      BY <1>1, <1>3, <2>2 DEF Find, Answerer, Types
    <2> QED BY <2>1, <2>2
  <1>4. ASSUME NEW m \in Messages, Make(m) PROVE Answerer(q)'
    <2>1. UNCHANGED pstub /\ pc' = [pc EXCEPT ![m] = "made"]
      BY <1>4 DEF Make
    <2>2. PICK opt \in pstub[m] : held' = [held EXCEPT ![m] = IF Advance(opt) THEN "mute" ELSE "wrapped"]
      BY <1>4 DEF Make
    <2> QED BY <1>1, <2>1, <2>2 DEF Answerer, Types
  <1>5. ASSUME NEW m \in Messages, Pass(m) PROVE Answerer(q)'
    BY <1>1, <1>5, <1>2 DEF Pass, Kind, Types
  <1>6. ASSUME NEW m \in Messages, Answer(m) PROVE Answerer(q)'
    BY <1>1, <1>6, <1>2 DEF Answer, ByHandler, ByInterface, Finish, Types
  <1>7. ASSUME NEW c \in Calls, CallOut(c) \/ \E kind \in Kinds : Reply(c, kind) PROVE Answerer(q)'
    BY <1>1, <1>7, <1>2 DEF CallOut, Reply, Finish, Types
  <1>8. CASE Environment \/ Done \/ UNCHANGED vars
    BY <1>1, <1>8, <1>2 DEF Environment, RegIo, InsertHandler, UnregIo, Suspend, Restart, Done, vars, calls
  <1> QED BY <1>3, <1>4, <1>5, <1>6, <1>7, <1>8 DEF Next, Incoming

\* A message of the client that the target answers, or that it gets without its handler.
LEMMA ForgottenByNone ==
  ASSUME IInv, Answerers, NEW q \in Requests, Pass(q) \/ Answer(q), pc'[q] \in {"notify", "done"}
  PROVE  answers'[q] # <<>> \/ Unanswerable(q)'
  <1>1. Types /\ Hands /\ Msg(q) /\ Answerer(q) /\ q \in Everything /\ q \in Messages
    BY DEF IInv, Answerers, Everything, Messages
  <1>2. Advanced(q) /\ pc[q] \in {"made", "request"} => answers[q] # <<>>
    <2>1. Advanced(q) /\ pc[q] \in {"made", "request"} => answers[q] = <<"fake">>
      BY <1>1 DEF Msg
    <2>2. <<"fake">> # <<>>
      OBVIOUS
    <2> QED BY <2>1, <2>2
  <1>3. ASSUME Advanced(q), pc[q] \in {"made", "request"}, UNCHANGED answers
        PROVE  answers'[q] # <<>>
    BY <1>2, <1>3
  <1>4. CASE Pass(q)
    <2>1. PICK opt \in pstub[q] :
            IF Advance(opt) THEN UNCHANGED answers ELSE Gets(q, "fake")
      BY <1>1, <1>4, KindsAssumption DEF Pass, Kind, Types
    <2>2. pc[q] = "made"
      BY <1>4 DEF Pass
    <2>3. CASE Advance(opt)
      BY <1>3, <2>1, <2>2, <2>3 DEF Advanced
    <2> QED BY <1>1, <2>1, <2>3, Answered
  <1>5. CASE ByHandler(q)
    <2>1. pc[q] = "request" /\ itf' = itf
          /\ IF held[q] = "raw" \/ (held[q] = "wrapped" /\ Alive)
             THEN Gets(q, "real") ELSE UNCHANGED answers
      BY <1>5, KindsAssumption DEF ByHandler, Effective
    <2>2. CASE held[q] = "mute"
      <3>1. Advanced(q)
        BY <1>1, <2>2 DEF Answerer, Advanced
      <3> QED BY <1>3, <2>1, <2>2, <3>1
    <2>3. CASE held[q] = "wrapped" /\ ~Alive
      <3>1. handler = {} /\ pstub[q] # {}
        BY <1>1, <2>3 DEF Alive, Answerer
      <3>2. itf = "closed"
        BY <1>1, <3>1 DEF Hands
      <3> QED BY <2>1, <3>2 DEF Unanswerable
    <2>4. CASE held[q] = "raw" \/ (held[q] = "wrapped" /\ Alive)
      BY <1>1, <2>1, <2>4, Answered
    <2>5. held[q] \in {"raw", "wrapped", "mute"}
      BY <1>1 DEF Types
    <2> QED BY <2>2, <2>3, <2>4, <2>5
  <1>6. ASSUME NEW kind \in Kinds, ByInterface(q, kind)
        PROVE  answers'[q] # <<>> \/ Unanswerable(q)'
    <2>1. pc[q] = "request" /\ pstub' = pstub
      BY <1>6 DEF ByInterface
    <2>2. CASE Gets(q, "real")
      BY <1>1, <2>2, Answered
    <2>3. ASSUME NEW opt \in handler, Advance(opt), swallowed' = swallowed \cup {q}, UNCHANGED answers,
                 itf \in {"registering", "stub"}
          PROVE  answers'[q] # <<>> \/ Unanswerable(q)'
      <3>1. CASE pstub[q] = {}
        BY <2>1, <2>3, <3>1 DEF Unanswerable
      <3>2. CASE pstub[q] # {}
        <4>1. Advanced(q)
          BY <1>1, <2>3, <3>2 DEF Hands, Advanced
        <4> QED BY <1>3, <2>1, <2>3, <4>1
      <3> QED BY <3>1, <3>2
    <2>4. ASSUME NEW opt \in handler, AnswersAnswer(q, opt, kind)
          PROVE  answers'[q] # <<>> \/ Unanswerable(q)'
      BY <1>1, <2>4, AnswersOrThrows, Answered DEF Unanswerable
    <2> QED BY <1>6, <2>2, <2>3, <2>4 DEF ByInterface
  <1> QED BY <1>4, <1>5, <1>6 DEF Answer

\* Nor is a call of the target.
LEMMA CallsNotForgotten ==
  ASSUME IInv, NEW q \in Calls, CallOut(q) \/ \E kind \in Kinds : Reply(q, kind),
         pc'[q] \in {"notify", "done"}
  PROVE  answers'[q] # <<>> \/ Unanswerable(q)'
  <1>1. Types /\ q \in Everything
    BY DEF IInv, Everything
  <1>2. CASE CallOut(q)
    <2>1. handler' = handler /\ pc \in [Everything -> Stages]
      BY <1>1, <1>2 DEF CallOut, Types
    <2>2. PICK opt \in handler : /\ opt.to_notify
                                /\ IF Advance(opt) THEN UNCHANGED answers ELSE Gets(q, "fake")
      BY <1>1, <1>2, <2>1 DEF CallOut
    <2>3. CASE Advance(opt)
      BY <2>1, <2>2, <2>3 DEF Unanswerable
    <2> QED BY <1>1, <2>2, <2>3, Answered
  <1>3. ASSUME NEW kind \in Kinds, Reply(q, kind)
        PROVE  answers'[q] # <<>> \/ Unanswerable(q)'
    <2>1. CASE Gets(q, "real")
      BY <1>1, <2>1, Answered
    <2>2. ASSUME NEW opt \in Mapped, AnswersAnswer(q, opt, kind)
          PROVE  answers'[q] # <<>> \/ Unanswerable(q)'
      BY <1>1, <2>2, AnswersOrThrows, Answered DEF Unanswerable
    <2> QED BY <1>3, <2>1, <2>2 DEF Reply
  <1> QED BY <1>2, <1>3

\* Who waits for nothing any more after a step was in the same case before it, or it was
\* that one's step.
LEMMA Closing ==
  ASSUME IInv, [Next]_vars, NEW q \in Requests \cup Calls, pc'[q] \in {"notify", "done"},
         pc[q] \notin {"notify", "done"}
  PROVE  \/ q \in Requests /\ (Pass(q) \/ Answer(q))
         \/ q \in Calls /\ (CallOut(q) \/ \E kind \in Kinds : Reply(q, kind))
  <1>0. q \in Everything /\ pc \in [Everything -> Stages]
    BY DEF IInv, Types, Everything, Messages
  <1>1. CASE Environment \/ Done \/ UNCHANGED vars
    BY <1>1 DEF Environment, RegIo, InsertHandler, UnregIo, Suspend, Restart, Done, vars, calls
  <1>2. ASSUME NEW m \in Messages, Find(m) \/ Make(m)
        PROVE  FALSE
    <2>1. PICK s \in {"request", "notify", "found", "made"} :
            pc' = [pc EXCEPT ![m] = s] /\ (s = "notify" => m \in Notifies)
      BY <1>2 DEF Find, Make, Kind
    <2> QED BY <1>0, <2>1, KindsAssumption DEF Messages
  <1>3. ASSUME NEW m \in Messages, Pass(m) \/ Answer(m)
        PROVE  q = m
    <2>1. PICK s \in Stages : pc' = [pc EXCEPT ![m] = s]
      BY <1>3 DEF Pass, Answer, ByHandler, ByInterface, Finish, Kind, Stages
    <2> QED BY <1>0, <2>1
  <1>4. ASSUME NEW c \in Calls, CallOut(c) \/ \E kind \in Kinds : Reply(c, kind)
        PROVE  q = c
    <2>1. PICK s \in Stages : pc' = [pc EXCEPT ![c] = s]
      BY <1>4 DEF CallOut, Reply, Finish, Stages
    <2> QED BY <1>0, <2>1
  <1> QED BY <1>1, <1>2, <1>3, <1>4, KindsAssumption DEF Next, Incoming, Messages

\* The safety half of EventuallyAnswered: a request of the client and a call of the target
\* that are over, or have become notifications, have an answer; or the connection is
\* closed, the answer went to an empty handler or to a stale identifier after the request
\* had gone round the stub, or the call was made a notification in advance mode (stub.cpp:79).
THEOREM NoneForgottenCorrect == Spec => []NoneForgotten
  <1>1. Init => Answerers /\ NoneForgotten
    BY DEF Init, Answerers, Answerer, NoneForgotten, Everything, Messages
  <1>2. IInv /\ Answerers /\ NoneForgotten /\ [Next]_vars => NoneForgotten'
    <2> SUFFICES ASSUME IInv, Answerers, NoneForgotten, [Next]_vars,
                        NEW q \in Requests \cup Calls, pc'[q] \in {"notify", "done"}
                 PROVE  answers'[q] # <<>> \/ Unanswerable(q)'
      BY DEF NoneForgotten
    <2>1. CASE pc[q] \in {"notify", "done"}
      BY <2>1, Lasting DEF NoneForgotten
    <2>2. CASE pc[q] \notin {"notify", "done"}
      BY <2>2, Closing, ForgottenByNone, CallsNotForgotten
    <2> QED BY <2>1, <2>2
  <1> QED BY <1>1, <1>2, Invariant, AnswererStep, PTL DEF Spec
=============================================================================
