------------------------------ MODULE QueueProofs ------------------------------
(***************************************************************************)
(* What jsonrpc-queue promises of each message, for every set of messages, *)
(* connections and threads, and every capacity of the two workflows, and   *)
(* that it implements QueuePromise.                                        *)
(***************************************************************************)
EXTENDS Queue, SequenceTheorems, FiniteSetTheorems, TLAPS

\* Where messages are.
Queued == Range(tasks)
Held == UNION {hands[w] : w \in Workers}
Executed == Range(executed)
Back == Range(responses)

Fates == Queued \cup Held \cup Executed \cup refused \cup untracked

Types ==
  /\ from \in [Messages -> Clients] /\ connected \subseteq Clients
  /\ suspended \in BOOLEAN /\ callback \in BOOLEAN
  /\ tasks \in Seq(Messages) /\ hands \in [Workers -> SUBSET Messages]
  /\ open \subseteq Requests /\ wrapped \subseteq Requests
  /\ responses \in Seq(Requests)
  /\ arrived \in Seq(Messages) /\ executed \in Seq(Messages)
  /\ answers \in [Requests -> Nat]
  /\ direct \subseteq Messages /\ refused \subseteq Messages
  /\ untracked \subseteq Requests /\ lost \subseteq Requests
  /\ Len(tasks) <= Capacity /\ Len(responses) <= CallbackCapacity

\* A message is in one place, once.
Places ==
  /\ IsInjective(tasks) /\ IsInjective(executed) /\ IsInjective(responses)
  /\ \A w \in Workers : \A m, q \in hands[w] : m = q
  /\ \A w, x \in Workers : hands[w] \cap hands[x] # {} => w = x
  /\ Queued \cap Held = {}
  /\ (Queued \cup Held) \cap (Executed \cup refused \cup untracked) = {}
  /\ Executed \cap (refused \cup untracked) = {} /\ refused \cap untracked = {}
  /\ Range(arrived) = Fates

\* A request that was executed is with the target, on its way back, answered or lost.
Returns ==
  /\ open \cup Back \cup lost \subseteq Executed
  /\ open \cap Back = {} /\ open \cap lost = {} /\ Back \cap lost = {}
  /\ \A r \in Requests :
       answers[r] = IF r \in refused \cup (Executed \ (open \cup Back \cup lost)) THEN 1 ELSE 0

Before(s, m, q) == \E i, j \in DOMAIN s : i < j /\ s[i] = m /\ s[j] = q

\* The queue is in the order of arrival, and what has passed it came before.
Order ==
  /\ \A i, j \in DOMAIN tasks : i < j => Before(arrived, tasks[i], tasks[j])
  /\ \A q \in Queued, m \in (Executed \ direct) \cup Held : Before(arrived, m, q)

IInv == Types /\ Places /\ Returns /\ Order

-----------------------------------------------------------------------------
(* Sequences without repetitions *)

\* A sequence gets one more element.
LEMMA Appended ==
  ASSUME NEW S, NEW s \in Seq(S), NEW e \in S
  PROVE  /\ Append(s, e) \in Seq(S) /\ Len(Append(s, e)) = Len(s) + 1
         /\ Range(Append(s, e)) = Range(s) \cup {e}
         /\ IsInjective(s) /\ e \notin Range(s) => IsInjective(Append(s, e))
  <1> DEFINE t == Append(s, e)
  <1>1. /\ t \in Seq(S) /\ Len(t) = Len(s) + 1 /\ Len(s) \in Nat
        /\ DOMAIN s = 1 .. Len(s) /\ DOMAIN t = 1 .. Len(s) + 1
        /\ \A i \in 1 .. Len(s) : t[i] = s[i]
        /\ t[Len(s) + 1] = e
    OBVIOUS
  <1> HIDE DEF t
  <1>2. DOMAIN t = DOMAIN s \cup {Len(s) + 1} /\ Len(s) + 1 \notin DOMAIN s
    BY <1>1
  <1>3. Range(t) = Range(s) \cup {e}
    BY <1>1, <1>2 DEF Range
  <1>4. IsInjective(s) /\ e \notin Range(s) => IsInjective(t)
    BY <1>1, <1>2 DEF Range, IsInjective
  <1> QED BY <1>1, <1>3, <1>4 DEF t

\* The first element leaves a sequence.
LEMMA HeadLeft ==
  ASSUME NEW S, NEW s \in Seq(S), s # <<>>, IsInjective(s)
  PROVE  /\ Tail(s) \in Seq(S) /\ IsInjective(Tail(s)) /\ Len(Tail(s)) = Len(s) - 1
         /\ Head(s) \in S /\ Head(s) \in Range(s) /\ Range(Tail(s)) = Range(s) \ {Head(s)}
         /\ \A i \in DOMAIN Tail(s) : i + 1 \in DOMAIN s /\ Tail(s)[i] = s[i + 1]
  <1> DEFINE t == Tail(s)
  <1>1. /\ t \in Seq(S) /\ Len(t) = Len(s) - 1 /\ Len(s) \in Nat \ {0}
        /\ DOMAIN s = 1 .. Len(s) /\ DOMAIN t = 1 .. Len(s) - 1
        /\ \A i \in 1 .. Len(s) - 1 : t[i] = s[i + 1]
        /\ Head(s) = s[1] /\ s[1] \in S
    OBVIOUS
  <1> HIDE DEF t
  <1>2. /\ 1 \in DOMAIN s
        /\ \A i \in DOMAIN t : i + 1 \in DOMAIN s /\ i + 1 # 1 /\ t[i] = s[i + 1]
        /\ \A j \in DOMAIN s \ {1} : j - 1 \in DOMAIN t /\ t[j - 1] = s[j]
    BY <1>1
  <1>3. Range(t) = Range(s) \ {s[1]}
    BY <1>2 DEF Range, IsInjective
  <1>4. IsInjective(t)
    BY <1>1, <1>2 DEF IsInjective
  <1>5. s[1] \in Range(s)
    BY <1>2 DEF Range
  <1> QED BY <1>1, <1>2, <1>3, <1>4, <1>5 DEF t

\* The v-th element leaves a sequence; the others keep their order.
LEMMA Removed ==
  ASSUME NEW S, NEW s \in Seq(S), IsInjective(s), NEW v \in 1 .. Len(s)
  PROVE  /\ RemoveAt(s, v) \in Seq(S) /\ IsInjective(RemoveAt(s, v))
         /\ Len(RemoveAt(s, v)) = Len(s) - 1
         /\ s[v] \in Range(s) /\ Range(RemoveAt(s, v)) = Range(s) \ {s[v]}
         /\ \A i, j \in DOMAIN RemoveAt(s, v) : i < j =>
              \E k, l \in DOMAIN s :
                k < l /\ RemoveAt(s, v)[i] = s[k] /\ RemoveAt(s, v)[j] = s[l]
  <1> DEFINE t == RemoveAt(s, v)
             n == Len(s)
             at(i) == IF i < v THEN i ELSE i + 1
             back(j) == IF j < v THEN j ELSE j - 1
  <1>1. n \in Nat /\ DOMAIN s = 1 .. n /\ v \in 1 .. n /\ \A i \in 1 .. n : s[i] \in S
    OBVIOUS
  <1>2. /\ t \in Seq(S) /\ Len(t) = n - 1 /\ DOMAIN t = 1 .. n - 1
        /\ \A i \in 1 .. n - 1 : t[i] = s[at(i)]
    <2> DEFINE a == SubSeq(s, 1, v - 1)
               b == SubSeq(s, v + 1, n)
    <2>1. a \in Seq(S) /\ Len(a) = v - 1 /\ \A i \in 1 .. v - 1 : a[i] = s[i]
      BY <1>1
    <2>2. b \in Seq(S) /\ Len(b) = n - v /\ \A i \in 1 .. n - v : b[i] = s[v + i]
      <3>1. v + 1 \in Int /\ n \in Int /\ \A i \in v + 1 .. n : s[i] \in S
        BY <1>1
      <3>2. /\ b \in Seq(S) /\ Len(b) = IF v + 1 <= n THEN n - (v + 1) + 1 ELSE 0
            /\ \A i \in 1 .. n - (v + 1) + 1 : b[i] = s[(v + 1) + i - 1]
        BY <3>1, SubSeqProperties
      <3> HIDE DEF b, n
      <3>3. Len(b) = n - v /\ n - (v + 1) + 1 = n - v
        BY <1>1, <3>2
      <3>4. \A i \in 1 .. n - v : (v + 1) + i - 1 = v + i
        BY <1>1
      <3> QED BY <3>2, <3>3, <3>4
    <2>3. t = a \o b
      BY DEF RemoveAt
    <2> HIDE DEF a, b, t, n
    <2>4. t \in Seq(S) /\ Len(t) = (v - 1) + (n - v)
      <3>1. a \in Seq(S) /\ b \in Seq(S) /\ Len(a) = v - 1 /\ Len(b) = n - v
        BY <2>1, <2>2
      <3>2. a \o b \in Seq(S) /\ Len(a \o b) = Len(a) + Len(b)
        BY <3>1, ConcatProperties
      <3> QED BY <2>3, <3>1, <3>2
    <2>5. Len(t) = n - 1 /\ DOMAIN t = 1 .. n - 1
      BY <1>1, <2>4
    <2>6. ASSUME NEW i \in 1 .. n - 1
          PROVE  t[i] = s[at(i)]
      <3>1. CASE i < v
        BY <1>1, <2>1, <2>2, <2>3, <3>1
      <3>2. CASE ~(i < v)
        <4>1. t[i] = b[i - (v - 1)] /\ i - (v - 1) \in 1 .. n - v
          BY <1>1, <2>1, <2>2, <2>3, <3>2
        <4>2. b[i - (v - 1)] = s[v + (i - (v - 1))]
          BY <2>2, <4>1
        <4>3. v + (i - (v - 1)) = i + 1
          BY <1>1
        <4> QED BY <3>2, <4>1, <4>2, <4>3
      <3> QED BY <3>1, <3>2
    <2> QED BY <2>4, <2>5, <2>6
  <1> HIDE DEF t, n
  <1>3. /\ \A i \in DOMAIN t : at(i) \in DOMAIN s /\ at(i) # v /\ t[i] = s[at(i)]
        /\ \A j \in DOMAIN s \ {v} : back(j) \in DOMAIN t /\ at(back(j)) = j
        /\ \A i, j \in DOMAIN t : i < j => at(i) < at(j)
        /\ \A i, j \in DOMAIN t : at(i) = at(j) => i = j
    <2>1. \A i \in DOMAIN t : at(i) \in DOMAIN s /\ at(i) # v /\ t[i] = s[at(i)]
      BY <1>1, <1>2
    <2>2. \A j \in DOMAIN s \ {v} : back(j) \in DOMAIN t /\ at(back(j)) = j
      BY <1>1, <1>2
    <2>3. \A i, j \in DOMAIN t : i < j => at(i) < at(j)
      BY <1>1, <1>2
    <2>4. \A i, j \in DOMAIN t : at(i) = at(j) => i = j
      BY <1>1, <1>2
    <2> HIDE DEF at, back
    <2> QED BY <2>1, <2>2, <2>3, <2>4
  <1> HIDE DEF at, back
  <1>4. s[v] \in Range(s) /\ Range(t) = Range(s) \ {s[v]}
    BY <1>1, <1>3 DEF Range, IsInjective
  <1>5. IsInjective(t)
    BY <1>3 DEF IsInjective
  <1>6. ASSUME NEW i \in DOMAIN t, NEW j \in DOMAIN t, i < j
        PROVE  \E k, l \in DOMAIN s : k < l /\ t[i] = s[k] /\ t[j] = s[l]
    BY <1>3, <1>6
  <1> QED BY <1>2, <1>4, <1>5, <1>6 DEF t, n

-----------------------------------------------------------------------------
(* The steps *)

\* A message arrives after those that are there.
LEMMA Arrival ==
  ASSUME IInv, NEW m \in Messages, Arrive(m)
  PROVE  /\ m \notin Fates /\ arrived' \in Seq(Messages)
         /\ Range(arrived)' = Fates \cup {m}
         /\ \A q, p : Before(arrived, q, p) => Before(arrived', q, p)
         /\ \A q \in Fates : Before(arrived', q, m)
  <1>1. /\ arrived \in Seq(Messages) /\ Range(arrived) = Fates
        /\ m \notin Range(arrived) /\ arrived' = Append(arrived, m)
    BY DEF IInv, Types, Places, Arrive
  <1>2. arrived' \in Seq(Messages) /\ Range(arrived)' = Fates \cup {m}
    BY <1>1, Appended
  <1> DEFINE n == Len(arrived)
  <1>3. /\ n \in Nat /\ DOMAIN arrived = 1 .. n /\ DOMAIN arrived' = 1 .. n + 1
        /\ \A i \in 1 .. n : arrived'[i] = arrived[i]
        /\ arrived'[n + 1] = m
    BY <1>1
  <1> HIDE DEF n
  <1>4. /\ \A i \in DOMAIN arrived : i \in DOMAIN arrived' /\ arrived'[i] = arrived[i] /\ i < n + 1
        /\ n + 1 \in DOMAIN arrived'
    BY <1>3
  <1>5. \A q, p : Before(arrived, q, p) => Before(arrived', q, p)
    BY <1>4 DEF Before
  <1>6. \A q \in Fates : Before(arrived', q, m)
    BY <1>1, <1>3, <1>4 DEF Before, Range
  <1> QED BY <1>1, <1>2, <1>5, <1>6

\* The first state.
LEMMA InitStep == Init => IInv
  <1> SUFFICES ASSUME Init PROVE IInv
    OBVIOUS
  <1>1. /\ Queued = {} /\ Held = {} /\ Executed = {} /\ Back = {} /\ Range(arrived) = {}
        /\ refused = {} /\ untracked = {} /\ open = {} /\ lost = {}
    BY DEF Init, Queued, Held, Executed, Back, Range
  <1>2. Types
    <2>1. /\ tasks \in Seq(Messages) /\ responses \in Seq(Requests)
          /\ arrived \in Seq(Messages) /\ executed \in Seq(Messages)
      BY DEF Init
    <2>3. Len(tasks) <= Capacity /\ Len(responses) <= CallbackCapacity
      BY CapacityAssumption DEF Init
    <2>2. answers \in [Requests -> Nat] /\ hands \in [Workers -> SUBSET Messages]
      BY DEF Init
    <2> QED BY <2>1, <2>2, <2>3 DEF Init, Types
  <1>3. Places
    <2>1. IsInjective(tasks) /\ IsInjective(executed) /\ IsInjective(responses)
      BY DEF Init, IsInjective
    <2>2. \A w \in Workers : hands[w] = {}
      BY DEF Init
    <2> QED BY <1>1, <2>1, <2>2 DEF Places, Fates
  <1>4. Returns
    BY <1>1 DEF Init, Returns
  <1>5. Order
    BY <1>1 DEF Init, Order
  <1> QED BY <1>2, <1>3, <1>4, <1>5 DEF IInv

\* A message goes to the target of a suspended queue.
LEMMA PassThroughStep == ASSUME IInv, NEW m \in Messages, PassThrough(m) PROVE IInv'
  <1>0. /\ UNCHANGED <<from, connected, suspended, callback, tasks, hands, wrapped, responses,
                       answers, refused, untracked, lost>>
        /\ executed' = Append(executed, m) /\ open' = open \cup ({m} \cap Requests)
        /\ direct' = direct \cup {m}
    BY DEF PassThrough, Execute, settings, work
  <1>1. Types /\ Places /\ Returns /\ Order
    BY DEF IInv
  <1>2. /\ m \notin Fates /\ arrived' \in Seq(Messages) /\ Range(arrived)' = Fates \cup {m}
        /\ \A q, p : Before(arrived, q, p) => Before(arrived', q, p)
    BY Arrival DEF PassThrough
  <1>3. /\ executed' \in Seq(Messages) /\ IsInjective(executed)' /\ Executed' = Executed \cup {m}
    BY <1>0, <1>1, <1>2, Appended DEF Types, Places, Executed, Fates
  <1>4. Queued' = Queued /\ Held' = Held /\ Back' = Back
    BY <1>0 DEF Queued, Held, Back
  <1>5. Types'
    BY <1>0, <1>1, <1>2, <1>3 DEF Types
  <1>6. Places'
    BY <1>0, <1>1, <1>2, <1>3, <1>4 DEF Places, Fates
  <1>7. Returns'
    BY <1>0, <1>1, <1>2, <1>3, <1>4 DEF Returns, Fates
  <1>8. Order'
    BY <1>0, <1>1, <1>2, <1>3, <1>4 DEF Order
  <1> QED BY <1>5, <1>6, <1>7, <1>8 DEF IInv

\* A message goes to the queue.
LEMMA PostStep == ASSUME IInv, NEW m \in Messages, Post(m) PROVE IInv'
  <1>0. /\ UNCHANGED <<from, connected, suspended, callback, hands, open, wrapped, responses,
                       executed, answers, direct, refused, untracked, lost>>
        /\ tasks' = Append(tasks, m) /\ Len(tasks) < Capacity
    BY DEF Post, settings, replying
  <1>1. Types /\ Places /\ Returns /\ Order
    BY DEF IInv
  <1>2. /\ m \notin Fates /\ arrived' \in Seq(Messages) /\ Range(arrived)' = Fates \cup {m}
        /\ \A q, p : Before(arrived, q, p) => Before(arrived', q, p)
        /\ \A q \in Fates : Before(arrived', q, m)
    BY Arrival DEF Post
  <1>3. /\ tasks' \in Seq(Messages) /\ IsInjective(tasks)' /\ Queued' = Queued \cup {m}
        /\ Len(tasks') = Len(tasks) + 1
    BY <1>0, <1>1, <1>2, Appended DEF Types, Places, Queued, Fates
  <1>4. Executed' = Executed /\ Held' = Held /\ Back' = Back
    BY <1>0 DEF Executed, Held, Back
  <1>5. Types'
    <2>1. Len(tasks') <= Capacity
      BY <1>0, <1>1, <1>3, CapacityAssumption DEF Types
    <2> QED BY <1>0, <1>1, <1>2, <1>3, <2>1 DEF Types
  <1>6. Places'
    BY <1>0, <1>1, <1>2, <1>3, <1>4 DEF Places, Fates
  <1>7. Returns'
    BY <1>0, <1>1, <1>4 DEF Returns
  <1>8. Order'
    <2>1. /\ DOMAIN tasks = 1 .. Len(tasks) /\ DOMAIN tasks' = 1 .. Len(tasks) + 1
          /\ \A i \in 1 .. Len(tasks) : tasks'[i] = tasks[i]
          /\ tasks'[Len(tasks) + 1] = m /\ Len(tasks) \in Nat
      BY <1>0, <1>1 DEF Types
    <2>2. ASSUME NEW i \in DOMAIN tasks', NEW j \in DOMAIN tasks', i < j
          PROVE  Before(arrived', tasks'[i], tasks'[j])
      <3>1. i \in DOMAIN tasks /\ tasks'[i] = tasks[i] /\ tasks[i] \in Fates
        <4>1. i \in DOMAIN tasks /\ tasks'[i] = tasks[i]
          BY <2>1, <2>2
        <4> QED BY <4>1 DEF Fates, Queued, Range
      <3>2. CASE j \in DOMAIN tasks
        BY <1>1, <1>2, <2>1, <2>2, <3>1, <3>2 DEF Order
      <3>3. CASE j \notin DOMAIN tasks
        BY <1>2, <2>1, <2>2, <3>1, <3>3
      <3> QED BY <3>2, <3>3
    <2>3. ASSUME NEW q \in Queued', NEW p \in (Executed \ direct)' \cup Held'
          PROVE  Before(arrived', p, q)
      BY <1>0, <1>1, <1>2, <1>3, <1>4, <2>3 DEF Order, Fates
    <2> QED BY <2>2, <2>3 DEF Order
  <1> QED BY <1>5, <1>6, <1>7, <1>8 DEF IInv

\* A message meets a full queue: it, or another, is refused.
LEMMA PostFullStep == ASSUME IInv, NEW m \in Messages, PostFull(m) PROVE IInv'
  <1> DEFINE s == Append(tasks, m)
  <1>0. PICK v \in 1 .. Capacity + 1 :
          /\ Overflow(m, v, RemoveAt(s, v))
          /\ DropAnswer(s[v])
    BY DEF PostFull
  <1>1. /\ UNCHANGED <<from, connected, suspended, callback, hands, open, wrapped, responses,
                       executed, direct, untracked, lost>>
        /\ tasks' = RemoveAt(s, v) /\ refused' = refused \cup {s[v]} /\ Len(tasks) = Capacity
        /\ Arrive(m)
    BY <1>0 DEF Overflow, settings, replying
  <1>2. Types /\ Places /\ Returns /\ Order
    BY DEF IInv
  <1>3. /\ m \notin Fates /\ arrived' \in Seq(Messages) /\ Range(arrived)' = Fates \cup {m}
        /\ \A q, p : Before(arrived, q, p) => Before(arrived', q, p)
        /\ \A q \in Fates : Before(arrived', q, m)
    BY <1>1, Arrival
  <1>4. /\ s \in Seq(Messages) /\ Len(s) = Capacity + 1 /\ Range(s) = Queued \cup {m} /\ IsInjective(s)
    BY <1>1, <1>2, <1>3, Appended DEF Types, Places, Queued, Fates
  <1>5. /\ DOMAIN tasks = 1 .. Capacity /\ DOMAIN s = 1 .. Capacity + 1
        /\ \A i \in 1 .. Capacity : s[i] = tasks[i]
        /\ s[Capacity + 1] = m
    <2>1. tasks \in Seq(Messages) /\ Len(tasks) = Capacity
      BY <1>1, <1>2 DEF Types
    <2> QED BY <2>1
  <1> HIDE DEF s
  <1>6. /\ tasks' \in Seq(Messages) /\ IsInjective(tasks)' /\ Len(tasks') = Capacity
        /\ s[v] \in Queued \cup {m} /\ Queued' = (Queued \cup {m}) \ {s[v]}
        /\ \A i, j \in DOMAIN tasks' : i < j =>
             \E k, l \in DOMAIN s : k < l /\ tasks'[i] = s[k] /\ tasks'[j] = s[l]
    <2> DEFINE t == RemoveAt(s, v)
    <2>1. v \in 1 .. Len(s) /\ Len(s) - 1 = Capacity
      BY <1>4, CapacityAssumption
    <2>2. s \in Seq(Messages) /\ IsInjective(s)
      BY <1>4
    <2>3. /\ t \in Seq(Messages) /\ IsInjective(t) /\ Len(t) = Len(s) - 1
          /\ s[v] \in Range(s) /\ Range(t) = Range(s) \ {s[v]}
      BY <2>1, <2>2, Removed
    <2>4. \A i, j \in DOMAIN t : i < j =>
            \E k, l \in DOMAIN s : k < l /\ t[i] = s[k] /\ t[j] = s[l]
      BY <2>1, <2>2, Removed
    <2> HIDE DEF t
    <2>5. tasks' = t
      BY <1>1 DEF t
    <2> QED BY <1>4, <2>1, <2>3, <2>4, <2>5 DEF Queued
  <1>7. Executed' = Executed /\ Held' = Held /\ Back' = Back
    BY <1>1 DEF Executed, Held, Back
  <1>8. s[v] \in Messages
    BY <1>4, <1>6 DEF Range
  <1>9. /\ answers' \in [Requests -> Nat]
        /\ s[v] \in Requests => answers'[s[v]] = answers[s[v]] + 1
        /\ \A r \in Requests \ {s[v]} : answers'[r] = answers[r]
    BY <1>0, <1>2 DEF Types, DropAnswer, Answered
  <1>10. Types'
    <2>1. Len(tasks') <= Capacity
      BY <1>6, CapacityAssumption
    <2> QED BY <1>1, <1>2, <1>3, <1>6, <1>8, <1>9, <2>1 DEF Types
  <1>11. Places'
    BY <1>1, <1>2, <1>3, <1>6, <1>7 DEF Places, Fates
  <1>12. Returns'
    <2>1. s[v] \notin Executed /\ s[v] \notin refused
      BY <1>2, <1>3, <1>6 DEF Places, Fates
    <2>2. s[v] \in Requests => answers[s[v]] = 0
      BY <1>2, <2>1 DEF Returns
    <2>3. s[v] \in Requests => answers'[s[v]] = 1
      BY <1>9, <2>2
    <2> QED BY <1>1, <1>2, <1>7, <1>9, <2>1, <2>3 DEF Returns
  <1>13. Order'
    <2>1. ASSUME NEW k \in DOMAIN s, NEW l \in DOMAIN s, k < l
          PROVE  Before(arrived', s[k], s[l])
      <3>1. k \in DOMAIN tasks /\ s[k] = tasks[k]
        BY <1>5, <2>1, CapacityAssumption
      <3>2. s[k] \in Fates
        BY <3>1 DEF Fates, Queued, Range
      <3>3. CASE l \in DOMAIN tasks
        BY <1>2, <1>3, <1>5, <2>1, <3>1, <3>3 DEF Order
      <3>4. CASE l \notin DOMAIN tasks
        <4>1. l = Capacity + 1
          BY <1>5, <3>4, CapacityAssumption
        <4> QED BY <1>3, <1>5, <3>2, <4>1
      <3> QED BY <3>3, <3>4
    <2>2. ASSUME NEW i \in DOMAIN tasks', NEW j \in DOMAIN tasks', i < j
          PROVE  Before(arrived', tasks'[i], tasks'[j])
      BY <1>6, <2>1, <2>2
    <2>3. ASSUME NEW q \in Queued', NEW p \in (Executed \ direct)' \cup Held'
          PROVE  Before(arrived', p, q)
      BY <1>1, <1>2, <1>3, <1>6, <1>7, <2>3 DEF Order, Fates
    <2> QED BY <2>2, <2>3 DEF Order
  <1> QED BY <1>10, <1>11, <1>12, <1>13 DEF IInv

\* A thread takes the first message of the queue.
LEMMA TakeStep == ASSUME IInv, NEW w \in Workers, Take(w) PROVE IInv'
  <1>0. /\ UNCHANGED <<from, connected, suspended, callback, open, wrapped, responses, arrived,
                       executed, answers, direct, refused, untracked, lost>>
        /\ tasks # <<>> /\ hands[w] = {}
        /\ hands' = [hands EXCEPT ![w] = {Head(tasks)}] /\ tasks' = Tail(tasks)
    BY DEF Take, settings, replying, history
  <1>1. Types /\ Places /\ Returns /\ Order
    BY DEF IInv
  <1> DEFINE h == Head(tasks)
  <1>2. /\ tasks \in Seq(Messages) /\ IsInjective(tasks) /\ hands \in [Workers -> SUBSET Messages]
        /\ Len(tasks) <= Capacity
    BY <1>1 DEF Types, Places
  <1>3. /\ tasks' \in Seq(Messages) /\ IsInjective(tasks') /\ Len(tasks') = Len(tasks) - 1
        /\ h \in Messages /\ h \in Queued /\ Queued' = Queued \ {h}
        /\ \A i \in DOMAIN tasks' : i + 1 \in DOMAIN tasks /\ tasks'[i] = tasks[i + 1]
    BY <1>0, <1>2, HeadLeft DEF Queued
  <1>4. /\ DOMAIN tasks = 1 .. Len(tasks) /\ DOMAIN tasks' \subseteq Nat \ {0} /\ h = tasks[1]
        /\ Len(tasks) \in Nat \ {0}
    BY <1>0, <1>2, <1>3
  <1> HIDE DEF h
  <1>5. /\ hands' \in [Workers -> SUBSET Messages] /\ hands'[w] = {h}
        /\ \A x \in Workers \ {w} : hands'[x] = hands[x]
    BY <1>0, <1>2, <1>3 DEF h
  <1>6. Held' = Held \cup {h}
    BY <1>0, <1>5 DEF Held
  <1>7. Executed' = Executed /\ Back' = Back
    BY <1>0 DEF Executed, Back
  <1>8. Types'
    <2>1. Len(tasks') <= Capacity
      BY <1>2, <1>3, <1>4, CapacityAssumption
    <2> QED BY <1>0, <1>1, <1>3, <1>5, <2>1 DEF Types
  <1>9. Places'
    <2>1. h \notin Held /\ h \notin Executed /\ h \notin refused /\ h \notin untracked
      BY <1>1, <1>3 DEF Places
    <2>2. \A x \in Workers : hands[x] \subseteq Held
      BY DEF Held
    <2>3. \A x \in Workers : \A m, q \in hands'[x] : m = q
      BY <1>1, <1>5 DEF Places
    <2>4. \A x, y \in Workers : hands'[x] \cap hands'[y] # {} => x = y
      BY <1>1, <1>5, <2>1, <2>2 DEF Places
    <2> QED BY <1>0, <1>1, <1>3, <1>6, <1>7, <2>1, <2>3, <2>4 DEF Places, Fates
  <1>10. Returns'
    BY <1>0, <1>1, <1>7 DEF Returns
  <1>11. Order'
    <2>1. ASSUME NEW i \in DOMAIN tasks', NEW j \in DOMAIN tasks', i < j
          PROVE  Before(arrived, tasks'[i], tasks'[j])
      <3>1. i + 1 < j + 1
        BY <1>4, <2>1
      <3> QED BY <1>1, <1>3, <2>1, <3>1 DEF Order
    <2>2. ASSUME NEW q \in Queued'
          PROVE  Before(arrived, h, q)
      <3>1. PICK k \in DOMAIN tasks' : q = tasks'[k]
        BY <2>2 DEF Queued, Range
      <3>2. 1 < k + 1 /\ 1 \in DOMAIN tasks
        BY <1>4, <3>1
      <3> QED BY <1>1, <1>3, <1>4, <3>1, <3>2 DEF Order
    <2>3. ASSUME NEW q \in Queued', NEW p \in (Executed \ direct) \cup (Held \cup {h})
          PROVE  Before(arrived, p, q)
      BY <1>1, <1>3, <2>2, <2>3 DEF Order
    <2> QED BY <1>0, <1>6, <1>7, <2>1, <2>3 DEF Order
  <1> QED BY <1>8, <1>9, <1>10, <1>11 DEF IInv

\* A thread is done with its message.
LEMMA HandEmptied ==
  ASSUME Types, Places, NEW w \in Workers, NEW m \in hands[w], hands' = [hands EXCEPT ![w] = {}]
  PROVE  /\ hands' \in [Workers -> SUBSET Messages]
         /\ m \in Messages /\ m \in Held /\ Held' = Held \ {m}
         /\ \A x \in Workers : hands'[x] \subseteq hands[x]
  <1>1. hands \in [Workers -> SUBSET Messages]
    BY DEF Types
  <1>2. /\ hands' \in [Workers -> SUBSET Messages] /\ hands'[w] = {}
        /\ \A x \in Workers \ {w} : hands'[x] = hands[x]
    BY <1>1
  <1>3. hands[w] = {m} /\ \A x \in Workers \ {w} : m \notin hands[x]
    BY DEF Places
  <1>4. Held' = Held \ {m}
    BY <1>2, <1>3 DEF Held
  <1>5. m \in Messages /\ m \in Held
    BY <1>1 DEF Held
  <1> QED BY <1>2, <1>4, <1>5

\* The task drops a request whose client has gone.
LEMMA DropUntrackedStep == ASSUME IInv, NEW w \in Workers, DropUntracked(w) PROVE IInv'
  <1>0. /\ UNCHANGED <<from, connected, suspended, callback, tasks, open, wrapped, responses, arrived,
                       executed, answers, direct, refused, lost>>
        /\ hands' = [hands EXCEPT ![w] = {}]
    BY DEF DropUntracked, settings, replying
  <1>1. PICK m \in hands[w] : m \in Requests /\ untracked' = untracked \cup {m}
    BY DEF DropUntracked, Gone
  <1>2. Types /\ Places /\ Returns /\ Order
    BY DEF IInv
  <1>3. /\ hands' \in [Workers -> SUBSET Messages]
        /\ m \in Held /\ Held' = Held \ {m}
        /\ \A x \in Workers : hands'[x] \subseteq hands[x]
    BY <1>0, <1>1, <1>2, HandEmptied
  <1>4. Queued' = Queued /\ Executed' = Executed /\ Back' = Back
    BY <1>0 DEF Queued, Executed, Back
  <1>5. Types'
    BY <1>0, <1>1, <1>2, <1>3 DEF Types
  <1>6. Places'
    <2>1. \A x \in Workers : \A p, q \in hands'[x] : p = q
      BY <1>2, <1>3 DEF Places
    <2>2. \A x, y \in Workers : hands'[x] \cap hands'[y] # {} => x = y
      BY <1>2, <1>3 DEF Places
    <2> QED BY <1>0, <1>1, <1>2, <1>3, <1>4, <2>1, <2>2 DEF Places, Fates
  <1>7. Returns'
    BY <1>0, <1>2, <1>4 DEF Returns
  <1>8. Order'
    BY <1>0, <1>2, <1>3, <1>4 DEF Order
  <1> QED BY <1>5, <1>6, <1>7, <1>8 DEF IInv

\* The task passes a message to the target.
LEMMA RunStep == ASSUME IInv, NEW w \in Workers, Run(w) PROVE IInv'
  <1>0. /\ UNCHANGED <<from, connected, suspended, callback, tasks, responses, arrived,
                       answers, direct, refused, untracked, lost>>
        /\ hands' = [hands EXCEPT ![w] = {}]
    BY DEF Run, settings
  <1>1. PICK m \in hands[w] :
          /\ executed' = Append(executed, m)
          /\ open' = open \cup ({m} \cap Requests)
          /\ wrapped' \in {wrapped, wrapped \cup ({m} \cap Requests)}
    BY DEF Run, Execute
  <1>2. Types /\ Places /\ Returns /\ Order
    BY DEF IInv
  <1>3. /\ hands' \in [Workers -> SUBSET Messages]
        /\ m \in Messages /\ m \in Held /\ Held' = Held \ {m}
        /\ \A x \in Workers : hands'[x] \subseteq hands[x]
    BY <1>0, <1>1, <1>2, HandEmptied
  <1>4. m \notin Executed /\ m \notin refused /\ m \notin untracked
    BY <1>2, <1>3 DEF Places
  <1>5. /\ executed' \in Seq(Messages) /\ IsInjective(executed') /\ Executed' = Executed \cup {m}
    BY <1>1, <1>2, <1>3, <1>4, Appended DEF Types, Places, Executed
  <1>6. Queued' = Queued /\ Back' = Back
    BY <1>0 DEF Queued, Back
  <1>7. Types'
    BY <1>0, <1>1, <1>2, <1>3, <1>5 DEF Types
  <1>8. Places'
    <2>1. \A x \in Workers : \A p, q \in hands'[x] : p = q
      BY <1>2, <1>3 DEF Places
    <2>2. \A x, y \in Workers : hands'[x] \cap hands'[y] # {} => x = y
      BY <1>2, <1>3 DEF Places
    <2> QED BY <1>0, <1>2, <1>3, <1>4, <1>5, <1>6, <2>1, <2>2 DEF Places, Fates
  <1>9. Returns'
    <2>1. m \in Requests => answers[m] = 0
      BY <1>2, <1>4 DEF Returns
    <2> QED BY <1>0, <1>1, <1>2, <1>4, <1>5, <1>6, <2>1 DEF Returns
  <1>10. Order'
    BY <1>0, <1>2, <1>3, <1>5, <1>6 DEF Order
  <1> QED BY <1>7, <1>8, <1>9, <1>10 DEF IInv

\* The answers change nothing else.
LEMMA ReturnStep ==
  ASSUME IInv, Returns',
         UNCHANGED <<from, connected, suspended, callback, tasks, hands, wrapped, arrived, executed,
                     direct, refused, untracked>>,
         open' \subseteq Requests, lost' \subseteq Requests, answers' \in [Requests -> Nat],
         responses' \in Seq(Requests), Len(responses') <= CallbackCapacity, IsInjective(responses')
  PROVE  IInv'
  <1>1. Types /\ Places /\ Order
    BY DEF IInv
  <1>2. Queued' = Queued /\ Held' = Held /\ Executed' = Executed
    BY DEF Queued, Held, Executed
  <1>3. Types'
    BY <1>1 DEF Types
  <1>4. Places'
    BY <1>1, <1>2 DEF Places, Fates
  <1>5. Order'
    BY <1>1, <1>2 DEF Order
  <1> QED BY <1>3, <1>4, <1>5 DEF IInv

\* The target answers, and the client has the answer at once.
LEMMA RespondDirectlyStep == ASSUME IInv, NEW r \in Requests, RespondDirectly(r) PROVE IInv'
  <1>0. /\ UNCHANGED <<from, connected, suspended, callback, tasks, hands, wrapped, responses, arrived,
                       executed, direct, refused, untracked, lost>>
        /\ r \in open /\ open' = open \ {r} /\ answers' = [answers EXCEPT ![r] = @ + 1]
    BY DEF RespondDirectly, Handle, Answered, settings, work
  <1>1. Types /\ Places /\ Returns
    BY DEF IInv
  <1>2. Executed' = Executed /\ Back' = Back
    BY <1>0 DEF Executed, Back
  <1>3. /\ answers' \in [Requests -> Nat] /\ answers'[r] = answers[r] + 1
        /\ \A q \in Requests \ {r} : answers'[q] = answers[q]
    BY <1>0, <1>1 DEF Types
  <1>4. r \in Executed /\ r \notin refused /\ r \notin Back /\ r \notin lost
    BY <1>0, <1>1 DEF Returns, Places
  <1>5. answers'[r] = 1
    BY <1>0, <1>1, <1>3, <1>4 DEF Returns
  <1>6. Returns'
    BY <1>0, <1>1, <1>2, <1>3, <1>4, <1>5 DEF Returns
  <1> QED BY <1>0, <1>1, <1>3, <1>6, ReturnStep DEF Types, Places

\* The target answers, and the answer goes to the callback workflow.
LEMMA RespondByCallbackStep == ASSUME IInv, NEW r \in Requests, RespondByCallback(r) PROVE IInv'
  <1>0. /\ UNCHANGED <<from, connected, suspended, callback, tasks, hands, wrapped, arrived,
                       executed, answers, direct, refused, untracked, lost>>
        /\ r \in open /\ open' = open \ {r} /\ responses' = Append(responses, r)
        /\ Len(responses) < CallbackCapacity
    BY DEF RespondByCallback, settings, work, history
  <1>1. Types /\ Places /\ Returns
    BY DEF IInv
  <1>2. r \notin Back
    BY <1>0, <1>1 DEF Returns
  <1>3. /\ responses' \in Seq(Requests) /\ IsInjective(responses') /\ Back' = Back \cup {r}
        /\ Len(responses') = Len(responses) + 1
    BY <1>0, <1>1, <1>2, Appended DEF Types, Places, Back
  <1>4. Len(responses') <= CallbackCapacity
    BY <1>0, <1>1, <1>3, CapacityAssumption DEF Types
  <1>5. Executed' = Executed
    BY <1>0 DEF Executed
  <1>6. Returns'
    BY <1>0, <1>1, <1>3, <1>5 DEF Returns
  <1> QED BY <1>0, <1>1, <1>3, <1>4, <1>6, ReturnStep DEF Types

\* The callback workflow is full.
LEMMA LoseResponseStep == ASSUME IInv, NEW r \in Requests, LoseResponse(r) PROVE IInv'
  <1> DEFINE s == Append(responses, r)
  <1>0. PICK v \in 1 .. CallbackCapacity + 1 :
          /\ UNCHANGED <<from, connected, suspended, callback, tasks, hands, wrapped, arrived,
                         executed, answers, direct, refused, untracked>>
          /\ r \in open /\ open' = open \ {r} /\ Len(responses) = CallbackCapacity
          /\ responses' = RemoveAt(s, v) /\ lost' = lost \cup {s[v]}
    BY DEF LoseResponse, settings, work
  <1>1. Types /\ Places /\ Returns
    BY DEF IInv
  <1>2. r \notin Back
    BY <1>0, <1>1 DEF Returns
  <1>3. /\ s \in Seq(Requests) /\ IsInjective(s) /\ Range(s) = Back \cup {r}
        /\ Len(s) = CallbackCapacity + 1
    BY <1>0, <1>1, <1>2, Appended DEF Types, Places, Back
  <1> HIDE DEF s
  <1>4. /\ responses' \in Seq(Requests) /\ IsInjective(responses')
        /\ Len(responses') = CallbackCapacity
        /\ s[v] \in Back \cup {r} /\ s[v] \in Requests
        /\ Back' = (Back \cup {r}) \ {s[v]}
    <2> DEFINE t == RemoveAt(s, v)
    <2>1. v \in 1 .. Len(s) /\ Len(s) - 1 = CallbackCapacity
      BY <1>3, CapacityAssumption
    <2>2. s \in Seq(Requests) /\ IsInjective(s)
      BY <1>3
    <2>3. /\ t \in Seq(Requests) /\ IsInjective(t) /\ Len(t) = Len(s) - 1
          /\ s[v] \in Range(s) /\ Range(t) = Range(s) \ {s[v]}
      BY <2>1, <2>2, Removed
    <2>4. s[v] \in Requests
      BY <2>1, <2>2
    <2> HIDE DEF t
    <2>5. responses' = t
      BY <1>0 DEF t
    <2> QED BY <1>3, <2>1, <2>3, <2>4, <2>5 DEF Back
  <1>5. Executed' = Executed
    BY <1>0 DEF Executed
  <1>6. Returns'
    BY <1>0, <1>1, <1>4, <1>5 DEF Returns
  <1>7. Len(responses') <= CallbackCapacity
    BY <1>4, CapacityAssumption
  <1> QED BY <1>0, <1>1, <1>4, <1>6, <1>7, ReturnStep DEF Types

\* The callback workflow passes an answer on.
LEMMA DeliverStep == IInv /\ Deliver => IInv'
  <1> SUFFICES ASSUME IInv, Deliver PROVE IInv'
    OBVIOUS
  <1> DEFINE r == Head(responses)
  <1>0. /\ UNCHANGED <<from, connected, suspended, callback, tasks, hands, open, wrapped, arrived,
                       executed, direct, refused, untracked, lost>>
        /\ responses # <<>> /\ responses' = Tail(responses)
        /\ answers' = [answers EXCEPT ![r] = @ + 1]
    BY DEF Deliver, Answered, settings, work
  <1>1. Types /\ Places /\ Returns
    BY DEF IInv
  <1>2. responses \in Seq(Requests) /\ IsInjective(responses) /\ Len(responses) <= CallbackCapacity
    BY <1>1 DEF Types, Places
  <1>3. /\ responses' \in Seq(Requests) /\ IsInjective(responses')
        /\ Len(responses') = Len(responses) - 1
        /\ r \in Requests /\ r \in Back /\ Back' = Back \ {r}
    BY <1>0, <1>2, HeadLeft DEF Back
  <1>4. Len(responses') <= CallbackCapacity
    <2>1. Len(responses) \in Nat
      BY <1>2
    <2> QED BY <1>2, <1>3, <2>1, CapacityAssumption
  <1> HIDE DEF r
  <1>5. /\ answers' \in [Requests -> Nat] /\ answers'[r] = answers[r] + 1
        /\ \A q \in Requests \ {r} : answers'[q] = answers[q]
    BY <1>0, <1>1, <1>3 DEF Types
  <1>6. Executed' = Executed
    BY <1>0 DEF Executed
  <1>7. r \in Executed /\ r \notin refused /\ r \notin open /\ r \notin lost
    BY <1>1, <1>3 DEF Returns, Places
  <1>8. answers'[r] = 1
    BY <1>1, <1>3, <1>5, <1>7 DEF Returns
  <1>9. Returns'
    BY <1>0, <1>1, <1>3, <1>5, <1>6, <1>7, <1>8 DEF Returns
  <1> QED BY <1>0, <1>1, <1>3, <1>4, <1>5, <1>9, ReturnStep DEF Types

\* The environment, and a step that changes nothing.
LEMMA EnvironmentStep ==
  IInv /\ (Suspend \/ Reconfigure \/ (\E c \in Clients : Disconnect(c)) \/ UNCHANGED vars) => IInv'
  <1> SUFFICES ASSUME IInv,
                      Suspend \/ Reconfigure \/ (\E c \in Clients : Disconnect(c)) \/ UNCHANGED vars
               PROVE  IInv'
    OBVIOUS
  <1>0. UNCHANGED <<from, tasks, hands, open, wrapped, responses, arrived, executed, answers,
                    direct, refused, untracked, lost>>
    BY DEF Suspend, Reconfigure, Disconnect, vars, settings, work, replying, history
  <1>1. Types /\ Places /\ Returns /\ Order
    BY DEF IInv
  <1>2. suspended' \in BOOLEAN /\ callback' \in BOOLEAN /\ connected' \subseteq Clients
    BY <1>1 DEF Types, Suspend, Reconfigure, Disconnect, vars, settings
  <1>3. Queued' = Queued /\ Held' = Held /\ Executed' = Executed /\ Back' = Back
    BY <1>0 DEF Queued, Held, Executed, Back
  <1>4. Types'
    BY <1>0, <1>1, <1>2 DEF Types
  <1>5. Places'
    BY <1>0, <1>1, <1>3 DEF Places, Fates
  <1>6. Returns'
    BY <1>0, <1>1, <1>3 DEF Returns
  <1>7. Order'
    BY <1>0, <1>1, <1>3 DEF Order
  <1> QED BY <1>4, <1>5, <1>6, <1>7 DEF IInv

-----------------------------------------------------------------------------
(* Theorems *)

\* Every step.
LEMMA Inductive == IInv /\ [Next]_vars => IInv'
  <1> SUFFICES ASSUME IInv, [Next]_vars PROVE IInv'
    OBVIOUS
  <1>1. CASE \E m \in Messages : Perform(m)
    BY <1>1, PassThroughStep, PostStep, PostFullStep DEF Perform
  <1>2. CASE \E w \in Workers : Worker(w)
    BY <1>2, TakeStep, RunStep, DropUntrackedStep DEF Worker
  <1>3. CASE \E r \in Requests : Target(r)
    BY <1>3, RespondDirectlyStep, RespondByCallbackStep, LoseResponseStep DEF Target
  <1>4. CASE Deliver
    BY <1>4, DeliverStep
  <1>5. CASE Suspend \/ Reconfigure \/ (\E c \in Clients : Disconnect(c)) \/ UNCHANGED vars
    BY <1>5, EnvironmentStep
  <1> QED BY <1>1, <1>2, <1>3, <1>4, <1>5 DEF Next

\* The invariant of every run.
LEMMA Invariant == Spec => []IInv
  <1> QED BY InitStep, Inductive, PTL DEF Spec

\* The types of jsonrpc-queue.
THEOREM TypeCorrect == Spec => []TypeOK
  <1>1. IInv => TypeOK
    BY DEF IInv, Types, TypeOK
  <1> QED BY <1>1, Invariant, PTL

\* A request has one fate and one answer at most, and none disappears, for every
\* interleaving of the threads, the target, restart, stop and suspend.
THEOREM OneFateCorrect == Spec => []OneFate
  <1>1. IInv => OneFate
    <2> SUFFICES ASSUME IInv, NEW r \in Requests, r \in Range(arrived)
                 PROVE  answers[r] + (IF Waiting(r) THEN 1 ELSE 0) + (IF Replying(r) THEN 1 ELSE 0)
                          + (IF r \in untracked THEN 1 ELSE 0) + (IF r \in lost THEN 1 ELSE 0) = 1
      BY DEF OneFate
    <2>1. Places /\ Returns
      BY DEF IInv
    <2>2. Waiting(r) <=> r \in Queued \cup Held
      BY DEF Waiting, Queued, Held
    <2>3. Replying(r) <=> r \in open \cup Back
      BY DEF Replying, Back
    <2>4. r \in Queued \cup Held \cup Executed \cup refused \cup untracked
      BY <2>1 DEF Places, Fates
    <2>5. answers[r] = IF r \in refused \cup (Executed \ (open \cup Back \cup lost)) THEN 1 ELSE 0
      BY <2>1 DEF Returns
    <2>6. CASE r \in Queued \cup Held
      <3>1. r \notin Executed \cup refused \cup untracked \cup open \cup Back \cup lost
        BY <2>1, <2>6 DEF Places, Returns
      <3> QED BY <2>2, <2>3, <2>5, <2>6, <3>1
    <2>7. CASE r \in refused \cup untracked
      <3>1. r \notin Queued \cup Held \cup Executed \cup open \cup Back \cup lost
            /\ (r \in refused <=> r \notin untracked)
        BY <2>1, <2>7 DEF Places, Returns
      <3> QED BY <2>2, <2>3, <2>5, <3>1
    <2>8. CASE r \in Executed
      <3>1. /\ r \notin Queued \cup Held \cup refused \cup untracked
            /\ ~(r \in open \cup Back /\ r \in lost)
        BY <2>1, <2>8 DEF Places, Returns
      <3> QED BY <2>2, <2>3, <2>5, <2>8, <3>1
    <2> QED BY <2>4, <2>6, <2>7, <2>8
  <1> QED BY <1>1, Invariant, PTL

RefusedNotExecuted ==
  /\ IsInjective(executed)
  /\ Range(executed) \cap (refused \cup untracked) = {}

\* A message is executed at most once, and never after it was refused or given up: the
\* client that got QueueOverflow may send the request again.
THEOREM RefusedCorrect == Spec => []RefusedNotExecuted
  <1>1. IInv => RefusedNotExecuted
    BY DEF IInv, Places, RefusedNotExecuted, Executed
  <1> QED BY <1>1, Invariant, PTL

Bounded ==
  /\ Len(tasks) <= Capacity /\ Len(responses) <= CallbackCapacity
  /\ \A r \in refused \cap Requests : answers[r] = 1

\* The bounds of both workflows hold, and a request that was refused has its answer.
THEOREM BoundedCorrect == Spec => []Bounded
  <1>1. IInv => Bounded
    BY DEF IInv, Types, Returns, Bounded
  <1> QED BY <1>1, Invariant, PTL

\* What passes the queue passes it in the order of arrival, for any number of threads.
THEOREM OrderCorrect == Spec => []InOrder
  <1>1. IInv => InOrder
    <2> SUFFICES ASSUME IInv, NEW q \in Range(tasks),
                        NEW m \in (Range(executed) \ direct) \cup UNION Range(hands)
                 PROVE  Before(arrived, m, q)
      BY DEF InOrder, Before
    <2>1. DOMAIN hands = Workers
      BY DEF IInv, Types
    <2>2. q \in Queued /\ m \in (Executed \ direct) \cup Held
      BY <2>1 DEF Queued, Executed, Held, Range
    <2> QED BY <2>2 DEF IInv, Order
  <1> QED BY <1>1, Invariant, PTL

\* With tracking the queue executes no request of a client that is gone at that moment.
THEOREM TrackingCorrect ==
  ASSUME Tracking
  PROVE  Spec => RequestsOfTheLiving
  <1> DEFINE Living ==
        \A r \in Requests : r \in Range(executed') \ Range(executed) => from[r] \in connected
  <1>1. IInv /\ [Next]_vars => [Living]_vars
    <2> SUFFICES ASSUME IInv, Next, NEW r \in Requests, r \in Range(executed') \ Range(executed)
                 PROVE  from[r] \in connected
      OBVIOUS
    <2>1. executed \in Seq(Messages) /\ hands \in [Workers -> SUBSET Messages]
      BY DEF IInv, Types
    <2>2. \A m \in Messages : executed' = Append(executed, m) => r = m
      BY <2>1, Appended
    <2>3. UNCHANGED executed => FALSE
      OBVIOUS
    <2>4. CASE \E m \in Messages : Perform(m)
      BY <2>2, <2>3, <2>4
      DEF Perform, PassThrough, Post, PostFull, Overflow, Arrive, Execute, replying
    <2>5. CASE \E w \in Workers : Worker(w)
      BY <2>1, <2>2, <2>3, <2>5 DEF Worker, Take, Run, DropUntracked, Execute, Gone, history
    <2>6. CASE (\E s \in Requests : Target(s)) \/ Deliver
      BY <2>3, <2>6
      DEF Target, RespondDirectly, Handle, RespondByCallback, LoseResponse, Deliver, history
    <2>7. CASE Suspend \/ Reconfigure \/ \E c \in Clients : Disconnect(c)
      BY <2>3, <2>7 DEF Suspend, Reconfigure, Disconnect, history
    <2> QED BY <2>4, <2>5, <2>6, <2>7 DEF Next
  <1> QED BY <1>1, Invariant, PTL DEF Spec, RequestsOfTheLiving

-----------------------------------------------------------------------------
(* The promise *)

\* No message comes twice.
ArrivedOnce == IsInjective(arrived)

Replied == {r \in Requests : answers[r] = 1}

\* Seven sets of messages, by place.
At(w, f, g, t, b, l, a) ==
  [waiting |-> w, refused |-> f, givenUp |-> g, target |-> t, back |-> b, lost |-> l, answered |-> a]

\* The whereabouts by their names in this module.
LEMMA ByName ==
  /\ Whereabouts = At(Queued \cup Held, refused, untracked, open, Back, lost, Replied)
  /\ Whereabouts.waiting = Queued \cup Held
  /\ Whereabouts.target = open /\ Whereabouts["target"] = open
  /\ Whereabouts.back = Back /\ Whereabouts["back"] = Back
  /\ Promise!Came = Range(arrived)
  BY DEF Whereabouts, At, Queued, Held, Back, Replied, Promise!Came, Range

\* The two modules count in one way.
LEMMA SameCardinality == \A S : Promise!Cardinality(S) = Cardinality(S)
  BY DEF Promise!Cardinality, Cardinality

\* The whereabouts with another set at one place.
LEMMA Put ==
  /\ \A w, f, g, t, b, l, a, u :
       At(w, f, g, t, b, l, a)["waiting"] = w /\ [At(w, f, g, t, b, l, a) EXCEPT !["waiting"] = u] = At(u, f, g, t, b, l, a)
  /\ \A w, f, g, t, b, l, a, u :
       At(w, f, g, t, b, l, a)["refused"] = f /\ [At(w, f, g, t, b, l, a) EXCEPT !["refused"] = u] = At(w, u, g, t, b, l, a)
  /\ \A w, f, g, t, b, l, a, u :
       At(w, f, g, t, b, l, a)["givenUp"] = g /\ [At(w, f, g, t, b, l, a) EXCEPT !["givenUp"] = u] = At(w, f, u, t, b, l, a)
  /\ \A w, f, g, t, b, l, a, u :
       At(w, f, g, t, b, l, a)["target"] = t /\ [At(w, f, g, t, b, l, a) EXCEPT !["target"] = u] = At(w, f, g, u, b, l, a)
  /\ \A w, f, g, t, b, l, a, u :
       At(w, f, g, t, b, l, a)["back"] = b /\ [At(w, f, g, t, b, l, a) EXCEPT !["back"] = u] = At(w, f, g, t, u, l, a)
  /\ \A w, f, g, t, b, l, a, u :
       At(w, f, g, t, b, l, a)["lost"] = l /\ [At(w, f, g, t, b, l, a) EXCEPT !["lost"] = u] = At(w, f, g, t, b, u, a)
  /\ \A w, f, g, t, b, l, a, u :
       At(w, f, g, t, b, l, a)["answered"] = a /\ [At(w, f, g, t, b, l, a) EXCEPT !["answered"] = u] = At(w, f, g, t, b, l, u)
  <1>1. ASSUME NEW w, NEW f, NEW g, NEW t, NEW b, NEW l, NEW a, NEW u
        PROVE  At(w, f, g, t, b, l, a)["waiting"] = w /\ [At(w, f, g, t, b, l, a) EXCEPT !["waiting"] = u] = At(u, f, g, t, b, l, a)
    BY DEF At
  <1>2. ASSUME NEW w, NEW f, NEW g, NEW t, NEW b, NEW l, NEW a, NEW u
        PROVE  At(w, f, g, t, b, l, a)["refused"] = f /\ [At(w, f, g, t, b, l, a) EXCEPT !["refused"] = u] = At(w, u, g, t, b, l, a)
    BY DEF At
  <1>3. ASSUME NEW w, NEW f, NEW g, NEW t, NEW b, NEW l, NEW a, NEW u
        PROVE  At(w, f, g, t, b, l, a)["givenUp"] = g /\ [At(w, f, g, t, b, l, a) EXCEPT !["givenUp"] = u] = At(w, f, u, t, b, l, a)
    BY DEF At
  <1>4. ASSUME NEW w, NEW f, NEW g, NEW t, NEW b, NEW l, NEW a, NEW u
        PROVE  At(w, f, g, t, b, l, a)["target"] = t /\ [At(w, f, g, t, b, l, a) EXCEPT !["target"] = u] = At(w, f, g, u, b, l, a)
    BY DEF At
  <1>5. ASSUME NEW w, NEW f, NEW g, NEW t, NEW b, NEW l, NEW a, NEW u
        PROVE  At(w, f, g, t, b, l, a)["back"] = b /\ [At(w, f, g, t, b, l, a) EXCEPT !["back"] = u] = At(w, f, g, t, u, l, a)
    BY DEF At
  <1>6. ASSUME NEW w, NEW f, NEW g, NEW t, NEW b, NEW l, NEW a, NEW u
        PROVE  At(w, f, g, t, b, l, a)["lost"] = l /\ [At(w, f, g, t, b, l, a) EXCEPT !["lost"] = u] = At(w, f, g, t, b, u, a)
    BY DEF At
  <1>7. ASSUME NEW w, NEW f, NEW g, NEW t, NEW b, NEW l, NEW a, NEW u
        PROVE  At(w, f, g, t, b, l, a)["answered"] = a /\ [At(w, f, g, t, b, l, a) EXCEPT !["answered"] = u] = At(w, f, g, t, b, l, u)
    BY DEF At
  <1> QED BY <1>1, <1>2, <1>3, <1>4, <1>5, <1>6, <1>7

\* What comes to a place and what leaves one.
LEMMA Moves ==
  /\ \A x, w, f, g, t, b, l, a :
       Promise!Into(x, "waiting", At(w, f, g, t, b, l, a)) = At(w \cup x, f, g, t, b, l, a)
  /\ \A x, w, f, g, t, b, l, a :
       Promise!Into(x, "refused", At(w, f, g, t, b, l, a)) = At(w, f \cup x, g, t, b, l, a)
  /\ \A x, w, f, g, t, b, l, a :
       Promise!Into(x, "givenUp", At(w, f, g, t, b, l, a)) = At(w, f, g \cup x, t, b, l, a)
  /\ \A x, w, f, g, t, b, l, a :
       Promise!Into(x, "target", At(w, f, g, t, b, l, a)) = At(w, f, g, t \cup x, b, l, a)
  /\ \A x, w, f, g, t, b, l, a :
       Promise!Into(x, "back", At(w, f, g, t, b, l, a)) = At(w, f, g, t, b \cup x, l, a)
  /\ \A x, w, f, g, t, b, l, a :
       Promise!Into(x, "lost", At(w, f, g, t, b, l, a)) = At(w, f, g, t, b, l \cup x, a)
  /\ \A x, w, f, g, t, b, l, a :
       Promise!Into(x, "answered", At(w, f, g, t, b, l, a)) = At(w, f, g, t, b, l, a \cup x)
  /\ \A x, w, f, g, t, b, l, a :
       Promise!OutOf(x, "waiting", At(w, f, g, t, b, l, a)) = At(w \ x, f, g, t, b, l, a)
  /\ \A x, w, f, g, t, b, l, a :
       Promise!OutOf(x, "target", At(w, f, g, t, b, l, a)) = At(w, f, g, t \ x, b, l, a)
  /\ \A x, w, f, g, t, b, l, a :
       Promise!OutOf(x, "back", At(w, f, g, t, b, l, a)) = At(w, f, g, t, b \ x, l, a)
  <1>1. ASSUME NEW x, NEW w, NEW f, NEW g, NEW t, NEW b, NEW l, NEW a
        PROVE  Promise!Into(x, "waiting", At(w, f, g, t, b, l, a)) = At(w \cup x, f, g, t, b, l, a)
    <2> DEFINE W == At(w, f, g, t, b, l, a)
               u == w \cup x
    <2>1. W["waiting"] \cup x = u
      BY Put
    <2> HIDE DEF u
    <2>2. [W EXCEPT !["waiting"] = u] = At(u, f, g, t, b, l, a)
      BY Put
    <2> HIDE DEF W
    <2>3. Promise!Into(x, "waiting", W) = At(u, f, g, t, b, l, a)
      BY <2>1, <2>2 DEF Promise!Into
    <2> QED BY <2>3 DEF W, u
  <1>2. ASSUME NEW x, NEW w, NEW f, NEW g, NEW t, NEW b, NEW l, NEW a
        PROVE  Promise!Into(x, "refused", At(w, f, g, t, b, l, a)) = At(w, f \cup x, g, t, b, l, a)
    <2> DEFINE W == At(w, f, g, t, b, l, a)
               u == f \cup x
    <2>1. W["refused"] \cup x = u
      BY Put
    <2> HIDE DEF u
    <2>2. [W EXCEPT !["refused"] = u] = At(w, u, g, t, b, l, a)
      BY Put
    <2> HIDE DEF W
    <2>3. Promise!Into(x, "refused", W) = At(w, u, g, t, b, l, a)
      BY <2>1, <2>2 DEF Promise!Into
    <2> QED BY <2>3 DEF W, u
  <1>3. ASSUME NEW x, NEW w, NEW f, NEW g, NEW t, NEW b, NEW l, NEW a
        PROVE  Promise!Into(x, "givenUp", At(w, f, g, t, b, l, a)) = At(w, f, g \cup x, t, b, l, a)
    <2> DEFINE W == At(w, f, g, t, b, l, a)
               u == g \cup x
    <2>1. W["givenUp"] \cup x = u
      BY Put
    <2> HIDE DEF u
    <2>2. [W EXCEPT !["givenUp"] = u] = At(w, f, u, t, b, l, a)
      BY Put
    <2> HIDE DEF W
    <2>3. Promise!Into(x, "givenUp", W) = At(w, f, u, t, b, l, a)
      BY <2>1, <2>2 DEF Promise!Into
    <2> QED BY <2>3 DEF W, u
  <1>4. ASSUME NEW x, NEW w, NEW f, NEW g, NEW t, NEW b, NEW l, NEW a
        PROVE  Promise!Into(x, "target", At(w, f, g, t, b, l, a)) = At(w, f, g, t \cup x, b, l, a)
    <2> DEFINE W == At(w, f, g, t, b, l, a)
               u == t \cup x
    <2>1. W["target"] \cup x = u
      BY Put
    <2> HIDE DEF u
    <2>2. [W EXCEPT !["target"] = u] = At(w, f, g, u, b, l, a)
      BY Put
    <2> HIDE DEF W
    <2>3. Promise!Into(x, "target", W) = At(w, f, g, u, b, l, a)
      BY <2>1, <2>2 DEF Promise!Into
    <2> QED BY <2>3 DEF W, u
  <1>5. ASSUME NEW x, NEW w, NEW f, NEW g, NEW t, NEW b, NEW l, NEW a
        PROVE  Promise!Into(x, "back", At(w, f, g, t, b, l, a)) = At(w, f, g, t, b \cup x, l, a)
    <2> DEFINE W == At(w, f, g, t, b, l, a)
               u == b \cup x
    <2>1. W["back"] \cup x = u
      BY Put
    <2> HIDE DEF u
    <2>2. [W EXCEPT !["back"] = u] = At(w, f, g, t, u, l, a)
      BY Put
    <2> HIDE DEF W
    <2>3. Promise!Into(x, "back", W) = At(w, f, g, t, u, l, a)
      BY <2>1, <2>2 DEF Promise!Into
    <2> QED BY <2>3 DEF W, u
  <1>6. ASSUME NEW x, NEW w, NEW f, NEW g, NEW t, NEW b, NEW l, NEW a
        PROVE  Promise!Into(x, "lost", At(w, f, g, t, b, l, a)) = At(w, f, g, t, b, l \cup x, a)
    <2> DEFINE W == At(w, f, g, t, b, l, a)
               u == l \cup x
    <2>1. W["lost"] \cup x = u
      BY Put
    <2> HIDE DEF u
    <2>2. [W EXCEPT !["lost"] = u] = At(w, f, g, t, b, u, a)
      BY Put
    <2> HIDE DEF W
    <2>3. Promise!Into(x, "lost", W) = At(w, f, g, t, b, u, a)
      BY <2>1, <2>2 DEF Promise!Into
    <2> QED BY <2>3 DEF W, u
  <1>7. ASSUME NEW x, NEW w, NEW f, NEW g, NEW t, NEW b, NEW l, NEW a
        PROVE  Promise!Into(x, "answered", At(w, f, g, t, b, l, a)) = At(w, f, g, t, b, l, a \cup x)
    <2> DEFINE W == At(w, f, g, t, b, l, a)
               u == a \cup x
    <2>1. W["answered"] \cup x = u
      BY Put
    <2> HIDE DEF u
    <2>2. [W EXCEPT !["answered"] = u] = At(w, f, g, t, b, l, u)
      BY Put
    <2> HIDE DEF W
    <2>3. Promise!Into(x, "answered", W) = At(w, f, g, t, b, l, u)
      BY <2>1, <2>2 DEF Promise!Into
    <2> QED BY <2>3 DEF W, u
  <1>8. ASSUME NEW x, NEW w, NEW f, NEW g, NEW t, NEW b, NEW l, NEW a
        PROVE  Promise!OutOf(x, "waiting", At(w, f, g, t, b, l, a)) = At(w \ x, f, g, t, b, l, a)
    <2> DEFINE W == At(w, f, g, t, b, l, a)
               u == w \ x
    <2>1. W["waiting"] \ x = u
      BY Put
    <2> HIDE DEF u
    <2>2. [W EXCEPT !["waiting"] = u] = At(u, f, g, t, b, l, a)
      BY Put
    <2> HIDE DEF W
    <2>3. Promise!OutOf(x, "waiting", W) = At(u, f, g, t, b, l, a)
      BY <2>1, <2>2 DEF Promise!OutOf
    <2> QED BY <2>3 DEF W, u
  <1>9. ASSUME NEW x, NEW w, NEW f, NEW g, NEW t, NEW b, NEW l, NEW a
        PROVE  Promise!OutOf(x, "target", At(w, f, g, t, b, l, a)) = At(w, f, g, t \ x, b, l, a)
    <2> DEFINE W == At(w, f, g, t, b, l, a)
               u == t \ x
    <2>1. W["target"] \ x = u
      BY Put
    <2> HIDE DEF u
    <2>2. [W EXCEPT !["target"] = u] = At(w, f, g, u, b, l, a)
      BY Put
    <2> HIDE DEF W
    <2>3. Promise!OutOf(x, "target", W) = At(w, f, g, u, b, l, a)
      BY <2>1, <2>2 DEF Promise!OutOf
    <2> QED BY <2>3 DEF W, u
  <1>10. ASSUME NEW x, NEW w, NEW f, NEW g, NEW t, NEW b, NEW l, NEW a
        PROVE  Promise!OutOf(x, "back", At(w, f, g, t, b, l, a)) = At(w, f, g, t, b \ x, l, a)
    <2> DEFINE W == At(w, f, g, t, b, l, a)
               u == b \ x
    <2>1. W["back"] \ x = u
      BY Put
    <2> HIDE DEF u
    <2>2. [W EXCEPT !["back"] = u] = At(w, f, g, t, u, l, a)
      BY Put
    <2> HIDE DEF W
    <2>3. Promise!OutOf(x, "back", W) = At(w, f, g, t, u, l, a)
      BY <2>1, <2>2 DEF Promise!OutOf
    <2> QED BY <2>3 DEF W, u
  <1> QED BY <1>1, <1>2, <1>3, <1>4, <1>5, <1>6, <1>7, <1>8, <1>9, <1>10

\* As many messages are in a sequence without repetitions as it is long.
LEMMA Counted ==
  ASSUME NEW S, NEW s \in Seq(S), IsInjective(s)
  PROVE  IsFiniteSet(Range(s)) /\ Cardinality(Range(s)) = Len(s)
  <1>1. s \in [1 .. Len(s) -> Range(s)] /\ Len(s) \in Nat
    BY DEF Range
  <1>2. s \in Bijection(1 .. Len(s), Range(s))
    BY <1>1 DEF Bijection, Injection, Surjection, IsInjective, Range
  <1>3. IsFiniteSet(1 .. Len(s)) /\ Cardinality(1 .. Len(s)) = Len(s)
    <2>1. Cardinality(1 .. Len(s)) = IF 1 > Len(s) THEN 0 ELSE Len(s) - 1 + 1
      BY <1>1, FS_Interval
    <2> QED BY <1>1, <2>1, FS_Interval
  <1> QED BY <1>2, <1>3, FS_Bijection DEF ExistsBijection

\* Threads hold no more messages than there are of them.
LEMMA FewHeld ==
  ASSUME Types, Places, NEW W \in SUBSET Workers
  PROVE  LET H == UNION {hands[w] : w \in W}
         IN  IsFiniteSet(H) /\ Cardinality(H) <= Cardinality(W)
  <1> DEFINE H == UNION {hands[w] : w \in W}
             f == [m \in H |-> CHOOSE w \in W : m \in hands[w]]
  <1>1. \A m \in H : f[m] \in W /\ m \in hands[f[m]]
    OBVIOUS
  <1>2. f \in Injection(H, W)
    BY <1>1 DEF Injection, IsInjective, Places
  <1>3. IsFiniteSet(W)
    BY WorkersAssumption, FS_Subset
  <1> QED BY <1>2, <1>3, FS_Injection

\* What waits: the queue, and no more than a message for each thread.
LEMMA HowManyWait ==
  ASSUME IInv
  PROVE  /\ Cardinality(Whereabouts.waiting) \in Nat /\ Cardinality(Workers) \in Nat
         /\ Len(tasks) <= Cardinality(Whereabouts.waiting)
         /\ Cardinality(Whereabouts.waiting) <= Len(tasks) + Cardinality(Workers)
         /\ Cardinality(Whereabouts.back) = Len(responses)
  <1>1. Types /\ Places
    BY DEF IInv
  <1>2. /\ tasks \in Seq(Messages) /\ IsInjective(tasks)
        /\ responses \in Seq(Requests) /\ IsInjective(responses)
        /\ Len(tasks) \in Nat
    BY <1>1 DEF Types, Places
  <1>3. /\ IsFiniteSet(Queued) /\ Cardinality(Queued) = Len(tasks)
        /\ Cardinality(Back) = Len(responses)
    BY <1>2, Counted DEF Queued, Back
  <1>4. IsFiniteSet(Held) /\ Cardinality(Held) <= Cardinality(Workers)
    BY <1>1, FewHeld DEF Held
  <1>5. /\ IsFiniteSet(Queued \cup Held)
        /\ Cardinality(Queued \cup Held)
             = Cardinality(Queued) + Cardinality(Held) - Cardinality(Queued \cap Held)
    BY <1>3, <1>4, FS_Union
  <1>6. Queued \cap Held = {}
    BY <1>1 DEF Places
  <1>7. Cardinality(Held) \in Nat /\ Cardinality(Workers) \in Nat /\ Cardinality({}) = 0
    BY <1>4, WorkersAssumption, FS_CardinalityType, FS_EmptySet
  <1>8. Cardinality(Queued \cap Held) = 0
    BY <1>6, <1>7
  <1> DEFINE both == Cardinality(Queued \cup Held)
             none == Cardinality(Queued \cap Held)
             held == Cardinality(Held)
  <1>9. both = Len(tasks) + held - none
    BY <1>3, <1>5
  <1>10. none = 0 /\ held \in Nat /\ Len(tasks) \in Nat
    BY <1>2, <1>7, <1>8
  <1> HIDE DEF both, none, held
  <1>11. both = Len(tasks) + held
    BY <1>9, <1>10
  <1>12. Cardinality(Whereabouts.waiting) = both /\ Cardinality(Whereabouts.back) = Len(responses)
    BY <1>3, ByName DEF both
  <1>13. held <= Cardinality(Workers) /\ Cardinality(Workers) \in Nat
    BY <1>4, <1>7 DEF held
  <1> QED BY <1>10, <1>11, <1>12, <1>13

\* A message in the hands of a thread has at most the other threads ahead of it.
LEMMA FewAhead ==
  ASSUME IInv, ArrivedOnce, NEW w \in Workers, NEW m \in hands[w]
  PROVE  Cardinality(Promise!Ahead(m)) < Cardinality(Workers)
  <1> DEFINE others == Workers \ {w}
             H == UNION {hands[x] : x \in others}
  <1>1. Types /\ Places /\ Order
    BY DEF IInv
  <1>2. m \in Held /\ Held \subseteq {m} \cup H
    BY <1>1 DEF Held, Places
  <1>3. Promise!Ahead(m) \subseteq H
    <2> SUFFICES ASSUME NEW q \in Promise!Ahead(m)
                 PROVE  q \in H
      OBVIOUS
    <2>1. q \in Queued \cup Held
      BY ByName DEF Promise!Ahead
    <2>2. PICK i \in DOMAIN arrived, j \in DOMAIN arrived :
            i < j /\ arrived[i] = q /\ arrived[j] = m
      BY DEF Promise!Ahead
    <2>3. DOMAIN arrived \subseteq Nat
      BY <1>1 DEF Types
    <2>4. q # m
      BY <2>2, <2>3 DEF ArrivedOnce, IsInjective
    <2>5. q \notin Queued
      <3> SUFFICES ASSUME q \in Queued PROVE FALSE
        OBVIOUS
      <3>1. PICK k \in DOMAIN arrived, l \in DOMAIN arrived :
              k < l /\ arrived[k] = m /\ arrived[l] = q
        BY <1>1, <1>2 DEF Order, Before
      <3>2. k = j /\ l = i
        BY <2>2, <3>1 DEF ArrivedOnce, IsInjective
      <3> QED BY <2>2, <2>3, <3>1, <3>2
    <2> QED BY <1>2, <2>1, <2>4, <2>5
  <1>4. IsFiniteSet(H) /\ Cardinality(H) <= Cardinality(others)
    BY <1>1, FewHeld
  <1>5. IsFiniteSet(others) /\ Cardinality(others) = Cardinality(Workers) - 1
    BY WorkersAssumption, FS_RemoveElement
  <1>6. /\ IsFiniteSet(Promise!Ahead(m))
        /\ Cardinality(Promise!Ahead(m)) <= Cardinality(H)
    BY <1>3, <1>4, FS_Subset
  <1>7. /\ Cardinality(H) \in Nat /\ Cardinality(Workers) \in Nat
        /\ Cardinality(Promise!Ahead(m)) \in Nat
    BY <1>4, <1>6, WorkersAssumption, FS_CardinalityType
  <1> HIDE DEF H, others
  <1> QED BY <1>4, <1>5, <1>6, <1>7

\* The same of the next state.
LEMMA ByNameNext ==
  Whereabouts' = At((Queued \cup Held)', refused', untracked', open', Back', lost', Replied')
  BY DEF Whereabouts, At, Queued, Held, Back, Replied

\* A message that comes is a new one for the promise too.
LEMMA Comes ==
  ASSUME IInv, NEW m \in Messages, Arrive(m), UNCHANGED <<from, connected>>
  PROVE  Promise!Come(m) /\ m \notin Fates
  <1>1. m \notin Range(arrived) /\ Range(arrived) = Fates
    BY DEF IInv, Places, Arrive
  <1> QED BY <1>1, ByName DEF Promise!Come, Arrive

\* A message that goes straight to the target.
LEMMA PassThroughKeeps ==
  ASSUME IInv, NEW m \in Messages, PassThrough(m)
  PROVE  Promise!Bypass(m)
  <1>1. /\ UNCHANGED <<from, connected, tasks, hands, responses, answers, refused, untracked, lost>>
        /\ executed' = Append(executed, m) /\ open' = open \cup ({m} \cap Requests)
    BY DEF PassThrough, Execute, settings, work
  <1>2. Promise!Come(m) /\ m \notin Fates
    BY <1>1, Comes DEF PassThrough
  <1>3. Queued' = Queued /\ Held' = Held /\ Back' = Back /\ Replied' = Replied
    BY <1>1 DEF Queued, Held, Back, Replied
  <1>4. Whereabouts' = Promise!Into({m} \cap Requests, "target",
                                    Promise!OutOf({m}, "waiting", Whereabouts))
    <2>1. (Queued \cup Held) \ {m} = Queued \cup Held
      BY <1>2 DEF Fates
    <2>2. Whereabouts' = At(Queued \cup Held, refused, untracked, open \cup ({m} \cap Requests),
                            Back, lost, Replied)
      BY <1>1, <1>3, ByNameNext
    <2> QED BY <2>1, <2>2, ByName, Moves
  <1> QED BY <1>1, <1>2, <1>4 DEF Promise!Bypass, Promise!Pass

\* The queue has room.
LEMMA PostKeeps ==
  ASSUME IInv, NEW m \in Messages, Post(m)
  PROVE  Promise!Accept(m)
  <1>1. /\ UNCHANGED <<from, connected, hands, open, responses, executed, answers, refused,
                       untracked, lost>>
        /\ Len(tasks) < Capacity /\ tasks' = Append(tasks, m) /\ tasks \in Seq(Messages)
    BY DEF Post, settings, replying, IInv, Types
  <1>2. Promise!Come(m)
    BY <1>1, Comes DEF Post
  <1>3. Queued' = Queued \cup {m} /\ Held' = Held /\ Back' = Back /\ Replied' = Replied
    BY <1>1, Appended DEF Queued, Held, Back, Replied
  <1>4. Whereabouts' = Promise!Into({m}, "waiting", Whereabouts)
    <2>1. Whereabouts' = At((Queued \cup Held) \cup {m}, refused, untracked, open, Back, lost, Replied)
      <3>1. (Queued \cup Held)' = (Queued \cup Held) \cup {m}
        BY <1>3
      <3> QED BY <1>1, <1>3, <3>1, ByNameNext
    <2> QED BY <2>1, ByName, Moves
  <1>5. Cardinality(Whereabouts.waiting) < Capacity + Cardinality(Workers)
    <2>1. Len(tasks) \in Nat
      BY <1>1
    <2> QED BY <1>1, <2>1, HowManyWait, CapacityAssumption
  <1> QED BY <1>1, <1>2, <1>4, <1>5, SameCardinality DEF Promise!Accept

\* A request gets its answer.
LEMMA OneMoreReply ==
  ASSUME IInv, NEW r \in Requests, answers[r] = 0, Answered(r)
  PROVE  Replied' = Replied \cup {r}
  BY DEF IInv, Types, Answered, Replied

\* The queue is full.
LEMMA PostFullKeeps ==
  ASSUME IInv, NEW m \in Messages, PostFull(m)
  PROVE  Promise!Refuse(m)
  <1> DEFINE all == Append(tasks, m)
  <1>1. PICK v \in 1 .. Capacity + 1 : Overflow(m, v, RemoveAt(all, v)) /\ DropAnswer(all[v])
    BY DEF PostFull
  <1> DEFINE q == all[v]
  <1>2. /\ UNCHANGED <<from, connected, hands, open, responses, executed, untracked, lost>>
        /\ Len(tasks) = Capacity /\ tasks' = RemoveAt(all, v) /\ refused' = refused \cup {q}
        /\ tasks \in Seq(Messages) /\ IsInjective(tasks)
    BY <1>1 DEF Overflow, settings, replying, IInv, Types, Places
  <1>3. Promise!Come(m) /\ m \notin Fates
    BY <1>1, <1>2, Comes DEF Overflow
  <1>4. /\ all \in Seq(Messages) /\ Len(all) = Capacity + 1 /\ Range(all) = Queued \cup {m}
        /\ IsInjective(all)
    BY <1>2, <1>3, Appended DEF Queued, Fates
  <1>5. q \in Queued \cup {m} /\ Queued' = (Queued \cup {m}) \ {q}
    <2>1. v \in 1 .. Len(all)
      BY <1>4
    <2>2. all[v] \in Range(all) /\ Range(RemoveAt(all, v)) = Range(all) \ {all[v]}
      <3>1. all \in Seq(Messages) /\ IsInjective(all)
        BY <1>4
      <3> HIDE DEF all
      <3> QED BY <2>1, <3>1, Removed
    <2> QED BY <1>2, <1>4, <2>2 DEF Queued
  <1>6. Held' = Held /\ Back' = Back
    BY <1>2 DEF Held, Back
  <1>7. q \notin Held /\ q \notin refused /\ q \notin Executed
    BY <1>3, <1>5 DEF IInv, Places, Fates
  <1> HIDE DEF all, q
  <1>8. Replied' = Replied \cup ({q} \cap Requests)
    <2>1. CASE q \in Requests
      <3>1. answers[q] = 0
        BY <1>7, <2>1 DEF IInv, Returns
      <3> QED BY <1>1, <2>1, <3>1, OneMoreReply DEF DropAnswer, q
    <2>2. CASE q \notin Requests
      BY <1>1, <2>2 DEF DropAnswer, Replied, q
    <2> QED BY <2>1, <2>2
  <1>9. Whereabouts' =
          Promise!Into({q} \cap Requests, "answered",
            Promise!Into({q}, "refused",
              Promise!OutOf({q}, "waiting", Promise!Into({m}, "waiting", Whereabouts))))
    <2>1. (Queued \cup Held)' = ((Queued \cup Held) \cup {m}) \ {q}
      BY <1>3, <1>5, <1>6, <1>7 DEF Fates
    <2>2. Whereabouts' = At(((Queued \cup Held) \cup {m}) \ {q}, refused \cup {q}, untracked, open,
                            Back, lost, Replied \cup ({q} \cap Requests))
      BY <1>2, <1>6, <1>8, <2>1, ByNameNext
    <2>3. Promise!OutOf({q}, "waiting", Promise!Into({m}, "waiting", Whereabouts))
            = At(((Queued \cup Held) \cup {m}) \ {q}, refused, untracked, open, Back, lost, Replied)
      <3>1. Promise!Into({m}, "waiting", Whereabouts)
              = At((Queued \cup Held) \cup {m}, refused, untracked, open, Back, lost, Replied)
        BY ByName, Moves
      <3> QED BY <3>1, Moves
    <2>4. Promise!Into({q}, "refused",
                       At(((Queued \cup Held) \cup {m}) \ {q}, refused, untracked, open, Back, lost, Replied))
            = At(((Queued \cup Held) \cup {m}) \ {q}, refused \cup {q}, untracked, open, Back, lost, Replied)
      BY Moves
    <2> QED BY <2>2, <2>3, <2>4, Moves
  <1>10. Cardinality(Whereabouts.waiting) >= Capacity
    BY <1>2, HowManyWait, CapacityAssumption
  <1>11. q \in Whereabouts.waiting \cup {m}
    BY <1>5, ByName
  <1> QED BY <1>2, <1>3, <1>9, <1>10, <1>11, SameCardinality DEF Promise!Refuse

\* A thread takes a message: nobody sees it.
LEMMA TakeKeeps ==
  ASSUME IInv, NEW w \in Workers, Take(w)
  PROVE  UNCHANGED Promise!vars
  <1>1. /\ UNCHANGED <<from, connected, arrived, executed, open, responses, answers, refused,
                       untracked, lost>>
        /\ tasks # <<>> /\ hands[w] = {}
        /\ hands' = [hands EXCEPT ![w] = {Head(tasks)}] /\ tasks' = Tail(tasks)
        /\ tasks \in Seq(Messages) /\ IsInjective(tasks) /\ hands \in [Workers -> SUBSET Messages]
    BY DEF Take, settings, replying, history, IInv, Types, Places
  <1> DEFINE h == Head(tasks)
  <1>2. h \in Queued /\ Queued' = Queued \ {h}
    BY <1>1, HeadLeft DEF Queued
  <1> HIDE DEF h
  <1>3. Held' = Held \cup {h}
    <2>1. hands'[w] = {h} /\ \A x \in Workers \ {w} : hands'[x] = hands[x]
      BY <1>1 DEF h
    <2> QED BY <1>1, <2>1 DEF Held
  <1>4. (Queued \cup Held)' = Queued \cup Held
    BY <1>2, <1>3
  <1>5. Whereabouts' = Whereabouts
    <2>1. Back' = Back /\ Replied' = Replied
      BY <1>1 DEF Back, Replied
    <2> QED BY <1>1, <1>4, <2>1, ByName, ByNameNext
  <1> QED BY <1>1, <1>5 DEF Promise!vars

\* A message leaves the hands of a thread.
LEMMA LeavesHands ==
  ASSUME IInv, NEW w \in Workers, NEW m \in hands[w], hands' = [hands EXCEPT ![w] = {}],
         UNCHANGED tasks
  PROVE  m \in Messages /\ m \in Queued \cup Held /\ (Queued \cup Held)' = (Queued \cup Held) \ {m}
  <1>1. Types /\ Places
    BY DEF IInv
  <1>2. m \in Messages /\ m \in Held /\ Held' = Held \ {m}
    BY <1>1, HandEmptied
  <1>3. m \notin Queued /\ Queued' = Queued
    BY <1>1, <1>2 DEF Places, Queued
  <1> QED BY <1>2, <1>3

\* A thread executes its message.
LEMMA RunKeeps ==
  ASSUME IInv, ArrivedOnce, NEW w \in Workers, Run(w)
  PROVE  \E m \in Messages : Promise!Execute(m)
  <1>1. PICK m \in hands[w] : ~Gone(m) /\ Execute(m, callback)
    BY DEF Run
  <1>2. /\ UNCHANGED <<from, connected, tasks, arrived, responses, answers, refused, untracked, lost>>
        /\ hands' = [hands EXCEPT ![w] = {}]
        /\ executed' = Append(executed, m) /\ open' = open \cup ({m} \cap Requests)
    BY <1>1 DEF Run, Execute, settings
  <1>3. /\ m \in Messages /\ m \in Queued \cup Held
        /\ (Queued \cup Held)' = (Queued \cup Held) \ {m}
    BY <1>1, <1>2, LeavesHands
  <1>4. Whereabouts' = Promise!Into({m} \cap Requests, "target",
                                    Promise!OutOf({m}, "waiting", Whereabouts))
    <2>1. Back' = Back /\ Replied' = Replied
      BY <1>2 DEF Back, Replied
    <2>2. Whereabouts' = At((Queued \cup Held) \ {m}, refused, untracked,
                            open \cup ({m} \cap Requests), Back, lost, Replied)
      BY <1>2, <1>3, <2>1, ByNameNext
    <2>3. Promise!OutOf({m}, "waiting", Whereabouts)
            = At((Queued \cup Held) \ {m}, refused, untracked, open, Back, lost, Replied)
      BY ByName, Moves
    <2> QED BY <2>2, <2>3, Moves
  <1>5. m \in Whereabouts.waiting /\ ~Promise!NobodyWaits(m)
    BY <1>1, <1>3, ByName DEF Gone, Promise!NobodyWaits
  <1>6. Cardinality(Promise!Ahead(m)) < Cardinality(Workers)
    BY <1>1, FewAhead
  <1>7. Promise!Execute(m)
    BY <1>2, <1>4, <1>5, <1>6, SameCardinality DEF Promise!Execute, Promise!Pass
  <1> QED BY <1>3, <1>7

\* A thread drops its message.
LEMMA DropUntrackedKeeps ==
  ASSUME IInv, NEW w \in Workers, DropUntracked(w)
  PROVE  \E m \in Messages : Promise!GiveUp(m)
  <1>1. PICK m \in hands[w] : Gone(m) /\ untracked' = untracked \cup {m}
    BY DEF DropUntracked
  <1>2. /\ UNCHANGED <<from, connected, tasks, arrived, executed, open, responses, answers, refused,
                       lost>>
        /\ hands' = [hands EXCEPT ![w] = {}]
    BY DEF DropUntracked, settings, replying
  <1>3. /\ m \in Messages /\ m \in Queued \cup Held
        /\ (Queued \cup Held)' = (Queued \cup Held) \ {m}
    BY <1>1, <1>2, LeavesHands
  <1>4. Whereabouts' = Promise!Into({m}, "givenUp", Promise!OutOf({m}, "waiting", Whereabouts))
    <2>1. Back' = Back /\ Replied' = Replied
      BY <1>2 DEF Back, Replied
    <2>2. Whereabouts' = At((Queued \cup Held) \ {m}, refused, untracked \cup {m}, open, Back, lost,
                            Replied)
      BY <1>1, <1>2, <1>3, <2>1, ByNameNext
    <2>3. Promise!OutOf({m}, "waiting", Whereabouts)
            = At((Queued \cup Held) \ {m}, refused, untracked, open, Back, lost, Replied)
      BY ByName, Moves
    <2> QED BY <2>2, <2>3, Moves
  <1>5. m \in Whereabouts.waiting /\ Promise!NobodyWaits(m)
    BY <1>1, <1>3, ByName DEF Gone, Promise!NobodyWaits
  <1>6. Promise!GiveUp(m)
    BY <1>2, <1>4, <1>5 DEF Promise!GiveUp
  <1> QED BY <1>3, <1>6

\* A request that has not come back has no answer yet.
LEMMA NotYet ==
  ASSUME IInv, NEW r \in open \cup Back
  PROVE  r \in Requests /\ answers[r] = 0
  <1>1. Types /\ Places /\ Returns
    BY DEF IInv
  <1>2. r \in Requests /\ r \in Executed
    BY <1>1 DEF Types, Returns, Back, Range
  <1> QED BY <1>1, <1>2 DEF Places, Returns

\* The target answers the client.
LEMMA RespondDirectlyKeeps ==
  ASSUME IInv, NEW r \in Requests, RespondDirectly(r)
  PROVE  Promise!Answer(r)
  <1>1. /\ UNCHANGED <<from, connected, tasks, hands, arrived, executed, responses, refused,
                       untracked, lost>>
        /\ r \in open /\ open' = open \ {r} /\ Answered(r)
    BY DEF RespondDirectly, Handle, settings, work
  <1>2. Replied' = Replied \cup {r}
    BY <1>1, NotYet, OneMoreReply
  <1>3. Queued' = Queued /\ Held' = Held /\ Back' = Back
    BY <1>1 DEF Queued, Held, Back
  <1>4. Whereabouts' = At(Queued \cup Held, refused, untracked, open \ {r}, Back, lost, Replied \cup {r})
    BY <1>1, <1>2, <1>3, ByNameNext
  <1>5. Promise!OutOf({r}, "target", Whereabouts)
          = At(Queued \cup Held, refused, untracked, open \ {r}, Back, lost, Replied)
    BY ByName, Moves
  <1>6. Whereabouts' = Promise!Into({r}, "answered", Promise!OutOf({r}, "target", Whereabouts))
    BY <1>4, <1>5, Moves
  <1>7. r \in Whereabouts["target"]
    BY <1>1, ByName
  <1> QED BY <1>1, <1>6, <1>7 DEF Promise!Answer

\* The target answers by the callback workflow.
LEMMA RespondByCallbackKeeps ==
  ASSUME IInv, NEW r \in Requests, RespondByCallback(r)
  PROVE  Promise!SendBack(r)
  <1>1. /\ UNCHANGED <<from, connected, tasks, hands, arrived, executed, answers, refused,
                       untracked, lost>>
        /\ r \in open /\ open' = open \ {r} /\ responses' = Append(responses, r)
        /\ Len(responses) < CallbackCapacity /\ responses \in Seq(Requests)
    BY DEF RespondByCallback, settings, work, history, IInv, Types
  <1>2. Back' = Back \cup {r}
    BY <1>1, Appended DEF Back
  <1>3. Queued' = Queued /\ Held' = Held /\ Replied' = Replied
    BY <1>1 DEF Queued, Held, Replied
  <1>4. Whereabouts' = At(Queued \cup Held, refused, untracked, open \ {r}, Back \cup {r}, lost, Replied)
    BY <1>1, <1>2, <1>3, ByNameNext
  <1>5. Promise!OutOf({r}, "target", Whereabouts)
          = At(Queued \cup Held, refused, untracked, open \ {r}, Back, lost, Replied)
    BY ByName, Moves
  <1>6. Whereabouts' = Promise!Into({r}, "back", Promise!OutOf({r}, "target", Whereabouts))
    BY <1>4, <1>5, Moves
  <1>7. Cardinality(Whereabouts.back) < CallbackCapacity /\ r \in Whereabouts.target
    BY <1>1, ByName, HowManyWait
  <1> QED BY <1>1, <1>6, <1>7, SameCardinality DEF Promise!SendBack

\* The callback workflow is full.
LEMMA LoseResponseKeeps ==
  ASSUME IInv, NEW r \in Requests, LoseResponse(r)
  PROVE  Promise!LoseAnswer(r)
  <1> DEFINE all == Append(responses, r)
  <1>1. PICK v \in 1 .. CallbackCapacity + 1 :
          responses' = RemoveAt(all, v) /\ lost' = lost \cup {all[v]}
    BY DEF LoseResponse
  <1> DEFINE q == all[v]
  <1>2. /\ UNCHANGED <<from, connected, tasks, hands, arrived, executed, answers, refused, untracked>>
        /\ r \in open /\ open' = open \ {r} /\ Len(responses) = CallbackCapacity
        /\ responses \in Seq(Requests) /\ IsInjective(responses)
    BY DEF LoseResponse, settings, work, IInv, Types, Places
  <1>3. r \notin Back
    BY <1>2 DEF IInv, Returns
  <1>4. /\ all \in Seq(Requests) /\ Len(all) = CallbackCapacity + 1 /\ Range(all) = Back \cup {r}
        /\ IsInjective(all)
    BY <1>2, <1>3, Appended DEF Back
  <1>5. q \in Back \cup {r} /\ Back' = (Back \cup {r}) \ {q}
    <2>1. v \in 1 .. Len(all)
      BY <1>4
    <2>2. q \in Range(all) /\ Range(RemoveAt(all, v)) = Range(all) \ {q}
      <3>1. all \in Seq(Requests) /\ IsInjective(all)
        BY <1>4
      <3> HIDE DEF all
      <3> QED BY <2>1, <3>1, Removed
    <2> QED BY <1>1, <1>4, <2>2 DEF Back
  <1>6. Queued' = Queued /\ Held' = Held /\ Replied' = Replied /\ lost' = lost \cup {q}
    BY <1>1, <1>2 DEF Queued, Held, Replied
  <1> HIDE DEF all, q
  <1>7. Whereabouts' = At(Queued \cup Held, refused, untracked, open \ {r}, (Back \cup {r}) \ {q},
                          lost \cup {q}, Replied)
    BY <1>2, <1>5, <1>6, ByNameNext
  <1>8. Whereabouts' =
          Promise!Into({q}, "lost",
            Promise!OutOf({q}, "back",
              Promise!Into({r}, "back", Promise!OutOf({r}, "target", Whereabouts))))
    <2>1. Promise!OutOf({r}, "target", Whereabouts)
            = At(Queued \cup Held, refused, untracked, open \ {r}, Back, lost, Replied)
      BY ByName, Moves
    <2>2. Promise!Into({r}, "back", Promise!OutOf({r}, "target", Whereabouts))
            = At(Queued \cup Held, refused, untracked, open \ {r}, Back \cup {r}, lost, Replied)
      BY <2>1, Moves
    <2>3. Promise!OutOf({q}, "back",
              Promise!Into({r}, "back", Promise!OutOf({r}, "target", Whereabouts)))
            = At(Queued \cup Held, refused, untracked, open \ {r}, (Back \cup {r}) \ {q}, lost, Replied)
      BY <2>2, Moves
    <2> QED BY <1>7, <2>3, Moves
  <1>9. /\ Cardinality(Whereabouts.back) >= CallbackCapacity /\ r \in Whereabouts.target
        /\ q \in Whereabouts.back \cup {r}
    BY <1>2, <1>5, ByName, HowManyWait, CapacityAssumption
  <1> QED BY <1>2, <1>8, <1>9, SameCardinality DEF Promise!LoseAnswer

\* An answer comes out of the callback workflow.
LEMMA DeliverKeeps ==
  ASSUME IInv, Deliver
  PROVE  \E r \in Messages : Promise!Answer(r)
  <1> DEFINE r == Head(responses)
  <1>1. /\ UNCHANGED <<from, connected, tasks, hands, arrived, executed, open, refused, untracked, lost>>
        /\ responses # <<>> /\ responses' = Tail(responses) /\ Answered(r)
        /\ responses \in Seq(Requests) /\ IsInjective(responses)
    BY DEF Deliver, settings, work, IInv, Types, Places
  <1>2. r \in Requests /\ r \in Back /\ Back' = Back \ {r}
    BY <1>1, HeadLeft DEF Back
  <1> HIDE DEF r
  <1>3. Replied' = Replied \cup {r}
    BY <1>1, <1>2, NotYet, OneMoreReply
  <1>4. Queued' = Queued /\ Held' = Held
    BY <1>1 DEF Queued, Held
  <1>5. Whereabouts' = At(Queued \cup Held, refused, untracked, open, Back \ {r}, lost, Replied \cup {r})
    BY <1>1, <1>2, <1>3, <1>4, ByNameNext
  <1>6. Promise!OutOf({r}, "back", Whereabouts)
          = At(Queued \cup Held, refused, untracked, open, Back \ {r}, lost, Replied)
    BY ByName, Moves
  <1>7. Whereabouts' = Promise!Into({r}, "answered", Promise!OutOf({r}, "back", Whereabouts))
    BY <1>5, <1>6, Moves
  <1>8. r \in Whereabouts["back"] /\ r \in Messages
    BY <1>2, ByName DEF Messages, Incoming
  <1> QED BY <1>1, <1>7, <1>8 DEF Promise!Answer

\* What the promise does not see, and the connections.
LEMMA EnvironmentKeeps ==
  ASSUME Suspend \/ Reconfigure \/ (\E c \in Clients : Disconnect(c)) \/ UNCHANGED vars
  PROVE  Promise!Disconnect \/ UNCHANGED Promise!vars
  <1>1. UNCHANGED <<from, tasks, hands, arrived, executed, open, responses, answers, refused,
                    untracked, lost>>
    BY DEF Suspend, Reconfigure, Disconnect, vars, settings, work, replying, history
  <1>2. Whereabouts' = Whereabouts
    BY <1>1 DEF Whereabouts
  <1>3. CASE UNCHANGED connected
    BY <1>1, <1>2, <1>3 DEF Promise!vars
  <1>4. CASE \E c \in Clients : Disconnect(c)
    BY <1>1, <1>2, <1>4 DEF Disconnect, Promise!Disconnect
  <1> QED BY <1>3, <1>4 DEF Suspend, Reconfigure, vars, settings

\* A message that comes is appended to those that came, and no other step adds to them.
LEMMA ArrivedOnceStep ==
  ASSUME IInv, ArrivedOnce, [Next]_vars
  PROVE  ArrivedOnce'
  <1>1. \/ UNCHANGED arrived
        \/ \E m \in Messages : Arrive(m)
    BY DEF Next, Perform, PassThrough, Post, PostFull, Overflow, Worker, Take, Run, DropUntracked,
           Target, RespondDirectly, Handle, RespondByCallback, LoseResponse, Deliver, Suspend,
           Reconfigure, Disconnect, vars, history
  <1>2. CASE UNCHANGED arrived
    BY <1>2 DEF ArrivedOnce, IsInjective
  <1>3. ASSUME NEW m \in Messages, Arrive(m)
        PROVE  ArrivedOnce'
    <2>1. arrived \in Seq(Messages) /\ m \notin Range(arrived) /\ arrived' = Append(arrived, m)
      BY <1>3 DEF Arrive, IInv, Types
    <2>2. IsInjective(Append(arrived, m))
      BY <2>1, Appended DEF ArrivedOnce
    <2> QED BY <2>1, <2>2 DEF ArrivedOnce
  <1> QED BY <1>1, <1>2, <1>3

\* Every step of the queue is one of its promise, or changes nothing in it.
LEMMA PromiseStep ==
  ASSUME IInv, ArrivedOnce, [Next]_vars
  PROVE  [Promise!Next]_(Promise!vars)
  <1>1. CASE \E m \in Messages : Perform(m)
    BY <1>1, PassThroughKeeps, PostKeeps, PostFullKeeps DEF Perform, Promise!Next
  <1>2. CASE \E w \in Workers : Worker(w)
    BY <1>2, TakeKeeps, RunKeeps, DropUntrackedKeeps DEF Worker, Promise!Next
  <1>3. CASE \E r \in Requests : Target(r)
    <2>1. Requests \subseteq Messages
      BY DEF Messages, Incoming
    <2> QED BY <1>3, <2>1, RespondDirectlyKeeps, RespondByCallbackKeeps, LoseResponseKeeps
            DEF Target, Promise!Next
  <1>4. CASE Deliver
    BY <1>4, DeliverKeeps DEF Promise!Next
  <1>5. CASE Suspend \/ Reconfigure \/ (\E c \in Clients : Disconnect(c)) \/ UNCHANGED vars
    BY <1>5, EnvironmentKeeps DEF Promise!Next
  <1> QED BY <1>1, <1>2, <1>3, <1>4, <1>5 DEF Next

\* The queue keeps its promise, for every number of threads, every capacity of both
\* workflows and every interleaving with suspend, restart, stop and disconnections:
\* nobody is refused, and no answer lost, while there is room, fewer messages are
\* overtaken than there are threads, and each request comes to one end.
THEOREM PromiseCorrect == Spec => KeepsPromise
<1>1. Init => Promise!Init
  <2> SUFFICES ASSUME Init PROVE Promise!Init
    OBVIOUS
  <2>1. Queued = {} /\ Held = {} /\ Back = {} /\ Replied = {}
    BY DEF Init, Queued, Held, Back, Replied, Range
  <2>2. refused = {} /\ untracked = {} /\ open = {} /\ lost = {}
    BY DEF Init
  <2>3. Whereabouts = [waiting |-> {}, refused |-> {}, givenUp |-> {}, target |-> {}, back |-> {},
                       lost |-> {}, answered |-> {}]
    BY <2>1, <2>2, ByName DEF At
  <2> QED BY <2>3 DEF Init, Promise!Init
<1>2. Init => ArrivedOnce
  BY DEF Init, ArrivedOnce, IsInjective
<1>3. IInv /\ ArrivedOnce /\ [Next]_vars => ArrivedOnce' /\ [Promise!Next]_(Promise!vars)
  BY ArrivedOnceStep, PromiseStep
<1>4. Spec => Promise!Init /\ [][Promise!Next]_(Promise!vars)
  BY <1>1, <1>2, <1>3, Invariant, PTL DEF Spec
<1> QED BY <1>4 DEF KeepsPromise, Promise!Spec
=============================================================================
