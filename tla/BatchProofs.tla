----------------------------- MODULE BatchProofs -----------------------------
(***************************************************************************)
(* What holds of jsonrpc-batch for every array, on every set of threads:   *)
(* its types, that every array it sends is full and in order, that no      *)
(* reply is lost, and that every step of it is one that BatchPromise       *)
(* allows.                                                                 *)
(*                                                                         *)
(* The argument: the positions reserved in the parse loop grow with the    *)
(* elements and cover the slots; a slot is empty only while its request is *)
(* idle or waiting; the counter is the number of requests whose handler    *)
(* has not decremented it yet. So a handler that reads zero finds no empty *)
(* slot, whichever thread it is on.                                        *)
(***************************************************************************)
EXTENDS Batch, FiniteSetTheorems, TLAPS

\* The elements the parse loop has passed.
Parsed == {i \in Items : stage # "receive" /\ (stage = "parse" => i < next)}

\* The requests whose response is not in its slot, and those that the counter counts.
Unanswered == {r \in Requests : phase[r] \in {"idle", "waiting"}}

Uncounted == {r \in Requests : phase[r] \in {"idle", "waiting", "stored"}}

\* The slots are those of the elements passed that want a response, in order.
SlotsInOrder ==
  /\ \A i \in Items : slotOf[i] # 0 <=> i \in Parsed \cap Answerable
  /\ \A k \in DOMAIN slots : \E i \in Items : slotOf[i] = k
  /\ \A i, j \in Items : slotOf[i] # 0 /\ slotOf[j] # 0 /\ i < j => slotOf[i] < slotOf[j]

\* A slot holds the response to its element, unless that is yet to come.
SlotsFilled ==
  \A i \in Items :
    slotOf[i] # 0 => slots[slotOf[i]] = IF i \in Unanswered THEN 0 ELSE i

\* The requests passed are kept for the dispatch loop, in order; those it has not
\* come to yet are idle.
CallsExact ==
  /\ \A k \in DOMAIN calls : calls[k] \in Parsed
  /\ \A r \in Parsed \cap Requests : \E k \in DOMAIN calls : calls[k] = r
  /\ \A k, l \in DOMAIN calls : k < l => calls[k] < calls[l]
  /\ Len(calls) = Cardinality(Parsed \cap Requests)
  /\ stage = "dispatch" => \A k \in DOMAIN calls : k >= next => phase[calls[k]] = "idle"

\* Handlers run for requests, once the loop that reserves the slots has ended.
HandlersLate ==
  \A i \in Items : phase[i] # "idle" => i \in Requests /\ stage \in {"dispatch", "done"}

\* The counter tells how many handlers have not decremented it.
CounterExact ==
  stage \in {"dispatch", "done"} /\ calls # <<>> => pcount = Cardinality(Uncounted)

Shape ==
  /\ stage = "receive" => next = 1
  /\ stage \in {"parse", "dispatch"} => Items # {}
  /\ stage = "parse" => next <= Len(items) + 1
  /\ class # "array" => items = <<>>

IInv ==
  /\ TypeOK
  /\ Shape
  /\ SlotsInOrder
  /\ SlotsFilled
  /\ CallsExact
  /\ HandlersLate
  /\ CounterExact
  /\ RepliesAreFull

-----------------------------------------------------------------------------
(* The array does not change, and it is finite *)

\* The array of a packet is finite, and an index is never 0, the mark of a null slot.
LEMMA ItemsFinite ==
  ASSUME items \in Seq(Kinds)
  PROVE  /\ Items = 1 .. Len(items) /\ Len(items) \in Nat
         /\ Items \subseteq Nat \ {0}
         /\ IsFiniteSet(Items) /\ IsFiniteSet(Requests)
<1>1. Items = 1 .. Len(items) /\ Len(items) \in Nat
  BY DEF Items
<1>2. IsFiniteSet(Items)
  BY <1>1, FS_Interval
<1>3. IsFiniteSet(Requests)
  BY <1>2, FS_Subset DEF Requests
<1> QED BY <1>1, <1>2, <1>3

\* When every response is in its slot, the slots are a full reply.
LEMMA FullWhenAnswered ==
  ASSUME TypeOK, SlotsInOrder, SlotsFilled,
         Parsed = Items, Unanswered = {}
  PROVE  FullReply(slots)
<1>1. Items \subseteq Nat \ {0}
  BY ItemsFinite DEF TypeOK
<1>2. ASSUME NEW i \in Items, slotOf[i] # 0
      PROVE  i \in Answerable /\ slots[slotOf[i]] = i
  BY <1>2 DEF SlotsInOrder, SlotsFilled
<1>3. ASSUME NEW k \in DOMAIN slots
      PROVE  slots[k] \in Answerable /\ slotOf[slots[k]] = k
  <2>1. PICK i \in Items : slotOf[i] = k
    BY <1>3 DEF SlotsInOrder
  <2>2. k # 0
    BY DEF TypeOK
  <2> QED BY <2>1, <2>2, <1>2
<1>4. ASSUME NEW i \in Answerable PROVE \E k \in DOMAIN slots : slots[k] = i
  <2>1. i \in Items /\ slotOf[i] # 0
    BY <1>4 DEF SlotsInOrder, Answerable
  <2>2. slotOf[i] \in DOMAIN slots
    BY <2>1 DEF TypeOK
  <2> QED BY <2>1, <2>2, <1>2
<1>5. ASSUME NEW k \in DOMAIN slots, NEW l \in DOMAIN slots, k < l
      PROVE  slots[k] < slots[l]
  <2>1. slots[k] \in Items /\ slots[l] \in Items
    BY <1>3 DEF Answerable
  <2>2. slotOf[slots[k]] = k /\ slotOf[slots[l]] = l
    BY <1>3
  <2>3. k \in Nat \ {0} /\ l \in Nat \ {0}
    BY DEF TypeOK
  <2>4. ~(slots[l] < slots[k])
    BY <2>1, <2>2, <2>3, <1>5 DEF SlotsInOrder
  <2>5. slots[k] # slots[l]
    <3> SUFFICES ASSUME slots[k] = slots[l] PROVE k = l
      BY <2>3, <1>5
    <3> QED BY <2>2
  <2>6. slots[k] \in Nat /\ slots[l] \in Nat
    BY <2>1, <1>1
  <2> QED BY <2>4, <2>5, <2>6
<1> QED BY <1>3, <1>4, <1>5 DEF FullReply

-----------------------------------------------------------------------------
\* A packet that has just been received satisfies the inductive invariant.
LEMMA IInvInit == Init => IInv
<1> SUFFICES ASSUME Init PROVE IInv
  OBVIOUS
<1>1. TypeOK
  <2>1. PICK n \in 0 .. MaxItems : items \in [1 .. n -> Kinds]
    BY DEF Init
  <2>2. items \in Seq(Kinds)
    BY <2>1, MaxItemsAssumption
  <2>3. slots \in Seq({0} \cup Items) /\ calls \in Seq(Requests) /\ sent \in Seq(Items)
        /\ replies \in Seq(Seq({0} \cup Items))
    BY DEF Init
  <2>4. slotOf \in [Items -> 0 .. Len(slots)]
    BY DEF Init
  <2>5. /\ phase \in [Items -> Phases] /\ busy \in [Threads -> {0} \cup Requests]
        /\ ran \subseteq Threads /\ class \in Classes /\ stage \in Stages /\ next \in Nat \ {0} /\ pcount \in Nat
    BY DEF Init, Phases, Stages
  <2> QED BY <2>2, <2>3, <2>4, <2>5 DEF TypeOK
<1>2. Parsed = {}
  BY DEF Init, Parsed
<1>3. CallsExact
  BY <1>2, FS_EmptySet DEF Init, CallsExact
<1>4. Shape /\ SlotsInOrder /\ SlotsFilled /\ HandlersLate /\ CounterExact /\ RepliesAreFull
  BY <1>2 DEF Init, Shape, SlotsInOrder, SlotsFilled, HandlersLate, CounterExact, RepliesAreFull
<1> QED BY <1>1, <1>3, <1>4 DEF IInv

-----------------------------------------------------------------------------
(* What a step leaves alone *)

\* The sets defined by the array alone do not change while the array stays.
LEMMA SameItems ==
  ASSUME IInv, UNCHANGED items
  PROVE  /\ Items' = Items /\ Requests' = Requests /\ Answerable' = Answerable
         /\ Items \subseteq Nat \ {0} /\ Items = 1 .. Len(items) /\ Len(items) \in Nat
         /\ IsFiniteSet(Requests)
BY ItemsFinite DEF IInv, TypeOK, Items, Requests, Answerable

\* A step that leaves the list of requests alone leaves CallsExact true.
LEMMA SameCalls ==
  ASSUME IInv, UNCHANGED <<items, calls>>, Parsed' = Parsed,
         stage' = "dispatch" =>
           \A k \in DOMAIN calls : k >= next' => phase'[calls[k]] = "idle"
  PROVE  CallsExact'
<1>1. Parsed' \cap Requests' = Parsed \cap Requests
  BY SameItems
<1>2. Len(calls') = Cardinality(Parsed' \cap Requests')
  BY <1>1 DEF IInv, CallsExact
<1>3. stage' = "dispatch" => \A k \in DOMAIN calls' : k >= next' => phase'[calls'[k]] = "idle"
  OBVIOUS
<1>4. /\ \A k \in DOMAIN calls' : calls'[k] \in Parsed'
      /\ \A r \in Parsed' \cap Requests' : \E k \in DOMAIN calls' : calls'[k] = r
      /\ \A k, l \in DOMAIN calls' : k < l => calls'[k] < calls'[l]
  BY <1>1 DEF IInv, CallsExact
<1> QED BY <1>2, <1>3, <1>4 DEF CallsExact

\* A step that leaves the counter and the uncounted handlers alone leaves CounterExact true.
LEMMA SameCounter ==
  ASSUME IInv, UNCHANGED <<items, calls, pcount>>, Uncounted' = Uncounted,
         stage' \in {"dispatch", "done"} /\ calls # <<>> => stage \in {"dispatch", "done"}
  PROVE  CounterExact'
BY DEF IInv, CounterExact

\* A request that is counted is there: without requests there are no calls.
LEMMA NoItemsNoCalls ==
  ASSUME IInv, Items = {}
  PROVE  calls = <<>> /\ Parsed = {}
BY DEF IInv, TypeOK, CallsExact, Parsed

\* Sending a full array, or the error about the packet, keeps all replies full.
LEMMA ReplyAdded ==
  ASSUME IInv, UNCHANGED <<items, class>>,
         NEW a \in Seq({0} \cup Items),
         replies' = Append(replies, a),
         \/ FullReply(a) /\ a # <<>>
         \/ a = PacketError /\ items = <<>> /\ class \in {"broken", "array"}
  PROVE  RepliesAreFull' /\ replies' \in Seq(Seq({0} \cup Items'))
<1>1. Items' = Items /\ Answerable' = Answerable
  BY SameItems
<1>2. replies \in Seq(Seq({0} \cup Items))
  BY DEF IInv, TypeOK
<1>3. ASSUME NEW k \in DOMAIN replies'
      PROVE  \/ k \in DOMAIN replies /\ replies'[k] = replies[k]
             \/ replies'[k] = a
  BY <1>2
<1>4. ASSUME NEW k \in DOMAIN replies'
      PROVE  \/ FullReply(replies'[k]) /\ replies'[k] # <<>>
             \/ replies'[k] = PacketError /\ items = <<>> /\ class \in {"broken", "array"}
  <2>1. CASE k \in DOMAIN replies /\ replies'[k] = replies[k]
    BY <2>1 DEF IInv, RepliesAreFull
  <2>2. CASE replies'[k] = a
    BY <2>2
  <2> QED BY <1>3, <2>1, <2>2
<1> QED BY <1>1, <1>2, <1>4 DEF RepliesAreFull, FullReply

\* A step that sends nothing keeps all replies full.
LEMMA SameReplies ==
  ASSUME IInv, UNCHANGED <<items, class, replies>>
  PROVE  RepliesAreFull'
BY SameItems DEF IInv, RepliesAreFull, FullReply

-----------------------------------------------------------------------------
(* perform_io keeps the invariant *)

\* A packet that is not split (batch.cpp, lines 9 to 19) keeps the invariant.
LEMMA PassOrDropKeeps ==
  ASSUME IInv, PassOrDrop
  PROVE  IInv'
<1> USE DEF PassOrDrop
<1>0. UNCHANGED <<items, class>>
  BY DEF Parsing
<1>1. /\ Items' = Items /\ Requests' = Requests /\ Answerable' = Answerable
      /\ Items \subseteq Nat \ {0} /\ Items = 1 .. Len(items) /\ Len(items) \in Nat
  BY <1>0, SameItems
<1>a. Items = {} /\ Parsed = {} /\ Parsed' = {} /\ calls = <<>>
  BY <1>1, NoItemsNoCalls DEF IInv, Shape, Parsed
<1>2. TypeOK'
  BY <1>1 DEF IInv, TypeOK, Stages
<1>3. Shape'
  BY DEF IInv, Shape
<1>4. SlotsInOrder'
  BY <1>1, <1>a DEF IInv, SlotsInOrder
<1>5. SlotsFilled'
  BY <1>1, <1>a DEF SlotsFilled
<1>6. CallsExact'
  BY <1>0, <1>a, SameCalls
<1>7. HandlersLate'
  BY <1>1, <1>a DEF HandlersLate
<1>8. CounterExact'
  BY <1>a DEF CounterExact
<1>9. RepliesAreFull'
  BY <1>0, SameReplies
<1> QED BY <1>2, <1>3, <1>4, <1>5, <1>6, <1>7, <1>8, <1>9 DEF IInv

\* The error about the packet as a whole (lines 32 to 35) keeps the invariant.
LEMMA RefuseKeeps ==
  ASSUME IInv, Refuse
  PROVE  IInv'
<1> USE DEF Refuse
<1>0. UNCHANGED <<items, class>>
  BY DEF Parsing
<1>1. /\ Items' = Items /\ Requests' = Requests /\ Answerable' = Answerable
      /\ Items \subseteq Nat \ {0} /\ Items = 1 .. Len(items) /\ Len(items) \in Nat
  BY <1>0, SameItems
<1>a. Items = {} /\ items = <<>> /\ class \in {"broken", "array"}
  BY <1>1 DEF IInv, Shape
<1>b. Parsed = {} /\ Parsed' = {} /\ calls = <<>>
  BY <1>1, <1>a, NoItemsNoCalls DEF Parsed
<1>9. RepliesAreFull' /\ replies' \in Seq(Seq({0} \cup Items'))
  <2>1. PacketError \in Seq({0} \cup Items)
    BY DEF PacketError
  <2> QED BY <1>0, <1>a, <2>1, ReplyAdded
<1>2. TypeOK'
  BY <1>1, <1>9 DEF IInv, TypeOK, Stages
<1>3. Shape'
  BY DEF IInv, Shape
<1>4. SlotsInOrder'
  BY <1>1, <1>a, <1>b DEF IInv, SlotsInOrder
<1>5. SlotsFilled'
  BY <1>1, <1>a DEF SlotsFilled
<1>6. CallsExact'
  BY <1>0, <1>b, SameCalls
<1>7. HandlersLate'
  BY <1>1, <1>a DEF HandlersLate
<1>8. CounterExact'
  BY <1>b DEF CounterExact
<1> QED BY <1>2, <1>3, <1>4, <1>5, <1>6, <1>7, <1>8, <1>9 DEF IInv

\* Entering the parse loop keeps the invariant: nothing is reserved yet.
LEMMA SplitKeeps ==
  ASSUME IInv, Split
  PROVE  IInv'
<1> USE DEF Split
<1>0. UNCHANGED <<items, class>>
  BY DEF Parsing
<1>1. /\ Items' = Items /\ Requests' = Requests /\ Answerable' = Answerable
      /\ Items \subseteq Nat \ {0} /\ Items = 1 .. Len(items) /\ Len(items) \in Nat
  BY <1>0, SameItems
<1>a. Parsed = {} /\ Parsed' = {}
  <2>1. next = 1
    BY DEF IInv, Shape
  <2> QED BY <1>1, <2>1 DEF Parsed
<1>2. TypeOK'
  BY <1>1 DEF IInv, TypeOK, Stages
<1>3. Shape'
  <2>1. items \in Seq(Kinds) /\ items # <<>> /\ next = 1
    BY DEF IInv, TypeOK, Shape
  <2>2. Len(items) # 0
    BY <2>1
  <2> QED BY <1>1, <2>1, <2>2 DEF IInv, Shape
<1>4. SlotsInOrder'
  BY <1>1, <1>a DEF IInv, SlotsInOrder
<1>5. SlotsFilled'
  BY <1>1 DEF IInv, SlotsFilled, Unanswered
<1>6. CallsExact'
  BY <1>0, <1>a, SameCalls
<1>7. HandlersLate'
  BY <1>1 DEF IInv, HandlersLate
<1>8. CounterExact'
  BY DEF CounterExact
<1>9. RepliesAreFull'
  BY <1>0, SameReplies
<1> QED BY <1>2, <1>3, <1>4, <1>5, <1>6, <1>7, <1>8, <1>9 DEF IInv

\* An element answered at once takes the next slot, filled: the order is kept.
LEMMA ParseInvalidKeeps ==
  ASSUME IInv, ParseInvalid
  PROVE  IInv'
<1> USE DEF ParseInvalid
<1>0. UNCHANGED <<items, class>>
  BY DEF Parsing
<1>1. /\ Items' = Items /\ Requests' = Requests /\ Answerable' = Answerable
      /\ Items \subseteq Nat \ {0} /\ Items = 1 .. Len(items) /\ Len(items) \in Nat
  BY <1>0, SameItems
<1>a. next \in Items /\ next \notin Parsed /\ Parsed' = Parsed \cup {next}
  BY <1>1 DEF Parsing, Parsed
<1>b. \A i \in Parsed : i < next
  BY DEF Parsing, Parsed
<1>c. stage = "parse" /\ stage' = "parse"
  BY DEF Parsing
<1>d. Answerable \cap {next} = {next} /\ slotOf[next] = 0
  BY <1>a DEF Parsing, Answerable, IInv, SlotsInOrder
<1>e. /\ Len(slots) \in Nat /\ DOMAIN slots' = 1 .. Len(slots) + 1
      /\ \A k \in DOMAIN slots : slots'[k] = slots[k]
      /\ slots'[Len(slots) + 1] = next
  BY <1>a DEF IInv, TypeOK
<1>f. /\ slotOf \in [Items -> 0 .. Len(slots)]
      /\ slotOf'[next] = Len(slots) + 1
      /\ \A i \in Items \ {next} : slotOf'[i] = slotOf[i]
  BY <1>a DEF IInv, TypeOK
<1>g. \A i \in Items \ {next} : slotOf[i] # 0 => i < next
  BY <1>b DEF IInv, SlotsInOrder
<1>4. SlotsInOrder'
  <2>1. \A i \in Items : slotOf'[i] # 0 <=> i \in Parsed' \cap Answerable
    BY <1>a, <1>d, <1>e, <1>f DEF IInv, SlotsInOrder
  <2>2. ASSUME NEW k \in DOMAIN slots' PROVE \E i \in Items : slotOf'[i] = k
    <3>1. CASE k \in DOMAIN slots
      <4>1. PICK i \in Items : slotOf[i] = k
        BY <3>1 DEF IInv, SlotsInOrder
      <4>2. i # next
        BY <1>d, <1>e, <3>1, <4>1 DEF IInv, TypeOK
      <4> QED BY <1>f, <4>1, <4>2
    <3>2. CASE k = Len(slots) + 1
      BY <1>a, <1>f, <3>2
    <3> QED BY <1>e, <3>1, <3>2 DEF IInv, TypeOK
  <2>3. ASSUME NEW i \in Items, NEW j \in Items, slotOf'[i] # 0, slotOf'[j] # 0, i < j
        PROVE  slotOf'[i] < slotOf'[j]
    <3>1. CASE i = next
      BY <1>1, <1>a, <1>f, <1>g, <2>3, <3>1
    <3>2. CASE j = next
      BY <1>1, <1>e, <1>f, <2>3, <3>2
    <3>3. CASE i # next /\ j # next
      BY <1>f, <2>3, <3>3 DEF IInv, SlotsInOrder
    <3> QED BY <3>1, <3>2, <3>3
  <2> QED BY <1>1, <2>1, <2>2, <2>3 DEF SlotsInOrder
<1>2. TypeOK'
  <2>1. slots' \in Seq({0} \cup Items)
    BY <1>a DEF IInv, TypeOK
  <2>2. slotOf' \in [Items -> 0 .. Len(slots')]
    BY <1>a, <1>e, <1>f DEF IInv, TypeOK
  <2>3. next' \in Nat \ {0}
    BY DEF Parsing, IInv, TypeOK
  <2> QED BY <1>1, <2>1, <2>2, <2>3 DEF IInv, TypeOK, Parsing
<1>3. Shape'
  BY <1>1, <1>a DEF IInv, Shape, Parsing
<1>5. SlotsFilled'
  <2>1. Unanswered' = Unanswered
    BY <1>1 DEF Unanswered, Parsing
  <2>2. next \notin Unanswered
    BY <1>a, <1>c DEF Unanswered, Requests, Parsing, IInv, HandlersLate, TypeOK, Phases
  <2>3. ASSUME NEW i \in Items, slotOf'[i] # 0
        PROVE  slots'[slotOf'[i]] = IF i \in Unanswered THEN 0 ELSE i
    <3>1. CASE i = next
      BY <1>e, <1>f, <2>2, <3>1
    <3>2. CASE i # next
      <4>1. slotOf'[i] = slotOf[i] /\ slotOf[i] \in DOMAIN slots
        BY <1>f, <2>3, <3>2 DEF IInv, TypeOK
      <4> QED BY <1>e, <2>3, <4>1 DEF IInv, SlotsFilled
    <3> QED BY <3>1, <3>2
  <2> QED BY <1>1, <2>1, <2>3 DEF SlotsFilled
<1>6. CallsExact'
  <2>1. Parsed' \cap Requests' = Parsed \cap Requests
    BY <1>1, <1>a DEF Parsing, Requests
  <2>2. Len(calls') = Cardinality(Parsed' \cap Requests')
    BY <2>1 DEF IInv, CallsExact
  <2> QED BY <1>a, <1>c, <2>1, <2>2 DEF IInv, CallsExact
<1>7. HandlersLate'
  BY <1>1 DEF IInv, HandlersLate, Parsing
<1>8. CounterExact'
  BY <1>c DEF CounterExact
<1>9. RepliesAreFull'
  BY <1>0, SameReplies DEF Parsing
<1> QED BY <1>2, <1>3, <1>4, <1>5, <1>6, <1>7, <1>8, <1>9 DEF IInv

\* A notification takes no slot and no place in the list of requests.
LEMMA ParseNotifyKeeps ==
  ASSUME IInv, ParseNotify
  PROVE  IInv'
<1> USE DEF ParseNotify
<1>0. UNCHANGED <<items, class>>
  BY DEF Parsing
<1>1. /\ Items' = Items /\ Requests' = Requests /\ Answerable' = Answerable
      /\ Items \subseteq Nat \ {0} /\ Items = 1 .. Len(items) /\ Len(items) \in Nat
  BY <1>0, SameItems
<1>a. next \in Items /\ next \notin Parsed /\ Parsed' = Parsed \cup {next}
  BY <1>1 DEF Parsing, Parsed
<1>b. \A i \in Parsed : i < next
  BY DEF Parsing, Parsed
<1>c. stage = "parse" /\ stage' = "parse"
  BY DEF Parsing
<1>2. TypeOK'
  <2>1. sent' \in Seq(Items) /\ next' \in Nat \ {0}
    BY <1>a DEF Parsing, IInv, TypeOK
  <2> QED BY <1>1, <2>1 DEF IInv, TypeOK, Parsing
<1>3. Shape'
  BY <1>1, <1>a DEF IInv, Shape, Parsing
<1>4. SlotsInOrder'
  <2>1. Parsed' \cap Answerable = Parsed \cap Answerable
    BY <1>a DEF Answerable, Parsing
  <2> QED BY <1>1, <2>1 DEF IInv, SlotsInOrder
<1>5. SlotsFilled'
  BY <1>1 DEF IInv, SlotsFilled, Unanswered, Parsing
<1>6. CallsExact'
  <2>1. Parsed' \cap Requests' = Parsed \cap Requests
    BY <1>1, <1>a DEF Parsing, Requests
  <2>2. Len(calls') = Cardinality(Parsed' \cap Requests')
    BY <2>1 DEF IInv, CallsExact
  <2> QED BY <1>a, <1>c, <2>1, <2>2 DEF IInv, CallsExact
<1>7. HandlersLate'
  BY <1>1 DEF IInv, HandlersLate, Parsing
<1>8. CounterExact'
  BY <1>c DEF CounterExact
<1>9. RepliesAreFull'
  BY <1>0, SameReplies DEF Parsing
<1> QED BY <1>2, <1>3, <1>4, <1>5, <1>6, <1>7, <1>8, <1>9 DEF IInv

\* A request takes the next slot, empty, and the next place in the list.
LEMMA ParseRequestKeeps ==
  ASSUME IInv, ParseRequest
  PROVE  IInv'
<1> USE DEF ParseRequest
<1>0. UNCHANGED <<items, class>>
  BY DEF Parsing
<1>1. /\ Items' = Items /\ Requests' = Requests /\ Answerable' = Answerable
      /\ Items \subseteq Nat \ {0} /\ Items = 1 .. Len(items) /\ Len(items) \in Nat
  BY <1>0, SameItems
<1>a. next \in Items /\ next \notin Parsed /\ Parsed' = Parsed \cup {next}
  BY <1>1 DEF Parsing, Parsed
<1>b. \A i \in Parsed : i < next
  BY DEF Parsing, Parsed
<1>c. stage = "parse" /\ stage' = "parse"
  BY DEF Parsing
<1>h. next \in Requests
  BY <1>a DEF Parsing, Requests
<1>d. Answerable \cap {next} = {next} /\ slotOf[next] = 0
  BY <1>a DEF Parsing, Answerable, IInv, SlotsInOrder
<1>e. /\ Len(slots) \in Nat /\ DOMAIN slots' = 1 .. Len(slots) + 1
      /\ \A k \in DOMAIN slots : slots'[k] = slots[k]
      /\ slots'[Len(slots) + 1] = 0
  BY <1>a DEF IInv, TypeOK
<1>f. /\ slotOf \in [Items -> 0 .. Len(slots)]
      /\ slotOf'[next] = Len(slots) + 1
      /\ \A i \in Items \ {next} : slotOf'[i] = slotOf[i]
  BY <1>a DEF IInv, TypeOK
<1>g. \A i \in Items \ {next} : slotOf[i] # 0 => i < next
  BY <1>b DEF IInv, SlotsInOrder
<1>4. SlotsInOrder'
  <2>1. \A i \in Items : slotOf'[i] # 0 <=> i \in Parsed' \cap Answerable
    BY <1>a, <1>d, <1>e, <1>f DEF IInv, SlotsInOrder
  <2>2. ASSUME NEW k \in DOMAIN slots' PROVE \E i \in Items : slotOf'[i] = k
    <3>1. CASE k \in DOMAIN slots
      <4>1. PICK i \in Items : slotOf[i] = k
        BY <3>1 DEF IInv, SlotsInOrder
      <4>2. i # next
        BY <1>d, <1>e, <3>1, <4>1 DEF IInv, TypeOK
      <4> QED BY <1>f, <4>1, <4>2
    <3>2. CASE k = Len(slots) + 1
      BY <1>a, <1>f, <3>2
    <3> QED BY <1>e, <3>1, <3>2 DEF IInv, TypeOK
  <2>3. ASSUME NEW i \in Items, NEW j \in Items, slotOf'[i] # 0, slotOf'[j] # 0, i < j
        PROVE  slotOf'[i] < slotOf'[j]
    <3>1. CASE i = next
      BY <1>1, <1>a, <1>f, <1>g, <2>3, <3>1
    <3>2. CASE j = next
      BY <1>1, <1>e, <1>f, <2>3, <3>2
    <3>3. CASE i # next /\ j # next
      BY <1>f, <2>3, <3>3 DEF IInv, SlotsInOrder
    <3> QED BY <3>1, <3>2, <3>3
  <2> QED BY <1>1, <2>1, <2>2, <2>3 DEF SlotsInOrder
<1>2. TypeOK'
  <2>1. slots' \in Seq({0} \cup Items)
    BY <1>a DEF IInv, TypeOK
  <2>2. slotOf' \in [Items -> 0 .. Len(slots')]
    BY <1>a, <1>e, <1>f DEF IInv, TypeOK
  <2>3. next' \in Nat \ {0}
    BY DEF Parsing, IInv, TypeOK
  <2>4. calls' \in Seq(Requests)
    BY <1>h DEF IInv, TypeOK
  <2> QED BY <1>1, <2>1, <2>2, <2>3, <2>4 DEF IInv, TypeOK, Parsing
<1>3. Shape'
  BY <1>1, <1>a DEF IInv, Shape, Parsing
<1>5. SlotsFilled'
  <2>1. Unanswered' = Unanswered
    BY <1>1 DEF Unanswered, Parsing
  <2>2. next \in Unanswered
    BY <1>a, <1>c DEF Unanswered, Requests, Parsing, IInv, HandlersLate, TypeOK, Phases
  <2>3. ASSUME NEW i \in Items, slotOf'[i] # 0
        PROVE  slots'[slotOf'[i]] = IF i \in Unanswered THEN 0 ELSE i
    <3>1. CASE i = next
      BY <1>e, <1>f, <2>2, <3>1
    <3>2. CASE i # next
      <4>1. slotOf'[i] = slotOf[i] /\ slotOf[i] \in DOMAIN slots
        BY <1>f, <2>3, <3>2 DEF IInv, TypeOK
      <4> QED BY <1>e, <2>3, <4>1 DEF IInv, SlotsFilled
    <3> QED BY <3>1, <3>2
  <2> QED BY <1>1, <2>1, <2>3 DEF SlotsFilled
<1>6. CallsExact'
  <2>1. Parsed' \cap Requests' = (Parsed \cap Requests) \cup {next}
    BY <1>1, <1>a, <1>h
  <2>2. /\ Len(calls) \in Nat /\ DOMAIN calls' = DOMAIN calls \cup {Len(calls) + 1}
        /\ \A k \in DOMAIN calls : calls'[k] = calls[k]
        /\ calls'[Len(calls) + 1] = next
    BY DEF IInv, TypeOK
  <2>3. Len(calls') = Cardinality(Parsed' \cap Requests')
    <3>1. IsFiniteSet(Parsed \cap Requests)
      BY <1>0, SameItems, FS_Subset
    <3>2. Cardinality((Parsed \cap Requests) \cup {next}) = Cardinality(Parsed \cap Requests) + 1
      BY <1>a, <3>1, FS_AddElement
    <3>3. Len(calls') = Len(calls) + 1
      BY <2>2 DEF IInv, TypeOK
    <3> QED BY <2>1, <3>2, <3>3 DEF IInv, CallsExact
  <2>4. \A k \in DOMAIN calls' : calls'[k] \in Parsed'
    BY <1>a, <2>2 DEF IInv, CallsExact
  <2>5. \A q \in Parsed' \cap Requests' : \E k \in DOMAIN calls' : calls'[k] = q
    BY <2>1, <2>2 DEF IInv, CallsExact
  <2>6. \A k, l \in DOMAIN calls' : k < l => calls'[k] < calls'[l]
    <3> SUFFICES ASSUME NEW k \in DOMAIN calls', NEW l \in DOMAIN calls', k < l
                 PROVE  calls'[k] < calls'[l]
      OBVIOUS
    <3>1. k \in DOMAIN calls
      BY <2>2 DEF IInv, TypeOK
    <3>2. CASE l \in DOMAIN calls
      BY <2>2, <3>1, <3>2 DEF IInv, CallsExact
    <3>3. CASE l = Len(calls) + 1
      BY <1>b, <2>2, <3>1, <3>3 DEF IInv, CallsExact
    <3> QED BY <2>2, <3>2, <3>3 DEF IInv, TypeOK
  <2> QED BY <1>c, <2>3, <2>4, <2>5, <2>6 DEF CallsExact
<1>7. HandlersLate'
  BY <1>1 DEF IInv, HandlersLate, Parsing
<1>8. CounterExact'
  BY <1>c DEF CounterExact
<1>9. RepliesAreFull'
  BY <1>0, SameReplies DEF Parsing
<1> QED BY <1>2, <1>3, <1>4, <1>5, <1>6, <1>7, <1>8, <1>9 DEF IInv

\* With no request in the array every slot is filled: the reply is full.
LEMMA FinishWithoutCallsKeeps ==
  ASSUME IInv, FinishWithoutCalls
  PROVE  IInv'
<1> USE DEF FinishWithoutCalls
<1>0. UNCHANGED <<items, class>>
  BY DEF Parsing
<1>1. /\ Items' = Items /\ Requests' = Requests /\ Answerable' = Answerable
      /\ Items \subseteq Nat \ {0} /\ Items = 1 .. Len(items) /\ Len(items) \in Nat
  BY <1>0, SameItems
<1>a. Parsed = Items /\ Parsed' = Items
  BY <1>1 DEF IInv, TypeOK, Shape, Parsed
<1>b. Unanswered = {}
  <2>1. Requests = {}
    BY <1>a DEF IInv, CallsExact, Requests
  <2> QED BY <2>1 DEF Unanswered
<1>c. FullReply(slots)
  BY <1>a, <1>b, FullWhenAnswered DEF IInv
<1>9. RepliesAreFull' /\ replies' \in Seq(Seq({0} \cup Items'))
  <2>1. CASE slots # <<>>
    <3>1. slots \in Seq({0} \cup Items) /\ replies' = Append(replies, slots)
      BY <2>1 DEF IInv, TypeOK
    <3> QED BY <1>0, <1>c, <2>1, <3>1, ReplyAdded
  <2>2. CASE slots = <<>>
    <3>1. UNCHANGED replies
      BY <2>2
    <3> QED BY <1>0, <1>1, <3>1, SameReplies DEF IInv, TypeOK
  <2> QED BY <2>1, <2>2
<1>2. TypeOK'
  BY <1>1, <1>9 DEF IInv, TypeOK, Stages
<1>3. Shape'
  BY DEF IInv, Shape
<1>4. SlotsInOrder'
  BY <1>1, <1>a DEF IInv, SlotsInOrder
<1>5. SlotsFilled'
  BY <1>1 DEF IInv, SlotsFilled, Unanswered
<1>6. CallsExact'
  BY <1>0, <1>a, SameCalls
<1>7. HandlersLate'
  BY <1>1 DEF IInv, HandlersLate
<1>8. CounterExact'
  BY DEF CounterExact
<1> QED BY <1>2, <1>3, <1>4, <1>5, <1>6, <1>7, <1>8, <1>9 DEF IInv

\* The counter is set to the number of requests, none of which has been passed on.
LEMMA ArmKeeps ==
  ASSUME IInv, Arm
  PROVE  IInv'
<1> USE DEF Arm, ArmWith
<1>0. UNCHANGED <<items, class>>
  BY DEF Parsing
<1>1. /\ Items' = Items /\ Requests' = Requests /\ Answerable' = Answerable
      /\ Items \subseteq Nat \ {0} /\ Items = 1 .. Len(items) /\ Len(items) \in Nat
  BY <1>0, SameItems
<1>a. Parsed = Items /\ Parsed' = Items
  BY <1>1 DEF IInv, TypeOK, Shape, Parsed
<1>b. \A i \in Items : phase[i] = "idle"
  BY DEF IInv, HandlersLate
<1>2. TypeOK'
  BY <1>1 DEF IInv, TypeOK, Stages
<1>3. Shape'
  BY <1>1 DEF IInv, Shape
<1>4. SlotsInOrder'
  BY <1>1, <1>a DEF IInv, SlotsInOrder
<1>5. SlotsFilled'
  BY <1>1 DEF IInv, SlotsFilled, Unanswered
<1>6. CallsExact'
  <2>1. \A k \in DOMAIN calls : phase'[calls[k]] = "idle"
    BY <1>a, <1>b DEF IInv, CallsExact
  <2> QED BY <1>0, <1>a, <2>1, SameCalls
<1>7. HandlersLate'
  BY <1>1 DEF IInv, HandlersLate
<1>8. CounterExact'
  <2>1. Uncounted' = Requests /\ Parsed \cap Requests = Requests
    BY <1>1, <1>a, <1>b DEF Uncounted, Requests
  <2> QED BY <2>1 DEF IInv, CounterExact, CallsExact
<1>9. RepliesAreFull'
  BY <1>0, SameReplies
<1> QED BY <1>2, <1>3, <1>4, <1>5, <1>6, <1>7, <1>8, <1>9 DEF IInv

\* Passing a request on leaves its slot empty and the counter as it was.
LEMMA DispatchKeeps ==
  ASSUME IInv, Dispatch
  PROVE  IInv'
<1> USE DEF Dispatch
<1>0. UNCHANGED <<items, class>>
  BY DEF Parsing
<1>1. /\ Items' = Items /\ Requests' = Requests /\ Answerable' = Answerable
      /\ Items \subseteq Nat \ {0} /\ Items = 1 .. Len(items) /\ Len(items) \in Nat
  BY <1>0, SameItems
<1>a. Parsed = Items /\ Parsed' = Items
  BY <1>1 DEF Parsed
<1>b. calls[next] \in Requests /\ phase[calls[next]] = "idle" /\ next \in Nat \ {0}
  <2>1. next \in Nat \ {0} /\ next >= next
    BY DEF IInv, TypeOK
  <2>2. calls \in Seq(Requests) /\ next \in DOMAIN calls
    BY DEF IInv, TypeOK
  <2>3. calls[next] \in Requests
    BY <2>2
  <2>4. phase[calls[next]] = "idle"
    BY <2>1, <2>2 DEF IInv, CallsExact
  <2> QED BY <2>1, <2>3, <2>4
<1>c. /\ phase' \in [Items -> Phases]
      /\ phase'[calls[next]] = "waiting"
      /\ \A i \in Items \ {calls[next]} : phase'[i] = phase[i]
  BY <1>b DEF IInv, TypeOK, Phases, Requests
<1>d. Unanswered' = Unanswered /\ Uncounted' = Uncounted
  BY <1>1, <1>b, <1>c DEF Unanswered, Uncounted, Requests
<1>2. TypeOK'
  <2>1. sent' \in Seq(Items)
    BY <1>b DEF IInv, TypeOK, Requests
  <2> QED BY <1>1, <1>b, <1>c, <2>1 DEF IInv, TypeOK
<1>3. Shape'
  BY <1>1 DEF IInv, Shape
<1>4. SlotsInOrder'
  BY <1>1, <1>a DEF IInv, SlotsInOrder
<1>5. SlotsFilled'
  BY <1>1, <1>d DEF IInv, SlotsFilled
<1>6. CallsExact'
  <2>1. ASSUME NEW k \in DOMAIN calls, k >= next + 1 PROVE phase'[calls[k]] = "idle"
    <3>1. k > next /\ k >= next
      BY <1>b, <2>1 DEF IInv, TypeOK
    <3>2. calls[k] \in Items /\ calls[next] < calls[k] /\ phase[calls[k]] = "idle"
      BY <3>1 DEF IInv, CallsExact, Parsed
    <3>3. calls[k] # calls[next]
      BY <1>1, <1>b, <3>2 DEF Requests
    <3> QED BY <1>c, <3>2, <3>3
  <2> QED BY <1>0, <1>a, <2>1, SameCalls
<1>7. HandlersLate'
  BY <1>1, <1>b, <1>c DEF IInv, HandlersLate
<1>8. CounterExact'
  BY <1>0, <1>d, SameCounter
<1>9. RepliesAreFull'
  BY <1>0, SameReplies
<1> QED BY <1>2, <1>3, <1>4, <1>5, <1>6, <1>7, <1>8, <1>9 DEF IInv

\* The end of the dispatch loop keeps the invariant, whatever the handlers do.
LEMMA FinishDispatchKeeps ==
  ASSUME IInv, FinishDispatch
  PROVE  IInv'
<1> USE DEF FinishDispatch
<1>0. UNCHANGED <<items, class>>
  BY DEF Parsing
<1>1. /\ Items' = Items /\ Requests' = Requests /\ Answerable' = Answerable
      /\ Items \subseteq Nat \ {0} /\ Items = 1 .. Len(items) /\ Len(items) \in Nat
  BY <1>0, SameItems
<1>a. Parsed' = Parsed
  BY <1>1 DEF Parsed
<1>2. TypeOK'
  BY <1>1 DEF IInv, TypeOK, Stages
<1>3. Shape'
  BY DEF IInv, Shape
<1>4. SlotsInOrder'
  BY <1>1, <1>a DEF IInv, SlotsInOrder
<1>5. SlotsFilled'
  BY <1>1 DEF IInv, SlotsFilled, Unanswered
<1>6. CallsExact'
  BY <1>0, <1>a, SameCalls
<1>7. HandlersLate'
  BY <1>1 DEF IInv, HandlersLate
<1>8. CounterExact'
  BY <1>0, <1>1, SameCounter DEF Uncounted
<1>9. RepliesAreFull'
  BY <1>0, SameReplies
<1> QED BY <1>2, <1>3, <1>4, <1>5, <1>6, <1>7, <1>8, <1>9 DEF IInv

-----------------------------------------------------------------------------
(* The response handlers keep the invariant *)

\* A handler that stores its response fills its own slot and no other.
LEMMA StoreKeeps ==
  ASSUME IInv, NEW t \in Runners, NEW r \in Items, Store(t, r)
  PROVE  IInv'
<1> USE DEF Store
<1>0. UNCHANGED <<items, class>>
  BY DEF Parsing
<1>1. /\ Items' = Items /\ Requests' = Requests /\ Answerable' = Answerable
      /\ Items \subseteq Nat \ {0} /\ Items = 1 .. Len(items) /\ Len(items) \in Nat
  BY <1>0, SameItems
<1>a. r \in Requests /\ stage \in {"dispatch", "done"} /\ t \in Threads
  BY DEF IInv, HandlersLate, Threads
<1>b. Parsed = Items /\ Parsed' = Items
  BY <1>1, <1>a DEF Parsed
<1>c. /\ phase' \in [Items -> Phases]
      /\ phase'[r] = "stored"
      /\ \A i \in Items \ {r} : phase'[i] = phase[i]
  BY DEF IInv, TypeOK, Phases
<1>d. Unanswered' = Unanswered \ {r} /\ Uncounted' = Uncounted
  BY <1>1, <1>a, <1>c DEF Unanswered, Uncounted, Requests
<1>e. /\ slotOf[r] \in DOMAIN slots /\ slotOf[r] # 0
      /\ \A i \in Items \ {r} : slotOf[i] # 0 => slotOf[i] \in DOMAIN slots /\ slotOf[i] # slotOf[r]
  <2>1. slotOf[r] # 0
    BY <1>a, <1>b DEF IInv, SlotsInOrder, Answerable, Requests
  <2>2. \A i \in Items : slotOf[i] # 0 => slotOf[i] \in DOMAIN slots
    BY DEF IInv, TypeOK
  <2>3. ASSUME NEW i \in Items \ {r}, slotOf[i] # 0 PROVE slotOf[i] # slotOf[r]
    <3>1. i < r \/ r < i
      BY <1>1
    <3>2. slotOf[i] < slotOf[r] \/ slotOf[r] < slotOf[i]
      BY <2>1, <2>3, <3>1 DEF IInv, SlotsInOrder
    <3>3. slotOf[i] \in Nat /\ slotOf[r] \in Nat
      BY DEF IInv, TypeOK
    <3> QED BY <3>2, <3>3
  <2> QED BY <2>1, <2>2, <2>3
<1>f. /\ slots' \in Seq({0} \cup Items) /\ DOMAIN slots' = DOMAIN slots /\ Len(slots') = Len(slots)
      /\ slots'[slotOf[r]] = r
      /\ \A k \in DOMAIN slots : k # slotOf[r] => slots'[k] = slots[k]
  BY <1>e DEF IInv, TypeOK
<1>2. TypeOK'
  <2>1. busy' \in [Threads -> {0} \cup Requests]
    BY <1>a DEF IInv, TypeOK
  <2>2. slotOf' \in [Items -> 0 .. Len(slots')]
    BY <1>f DEF IInv, TypeOK
  <2> QED BY <1>1, <1>c, <1>f, <2>1, <2>2 DEF IInv, TypeOK
<1>3. Shape'
  BY <1>1 DEF IInv, Shape
<1>4. SlotsInOrder'
  BY <1>1, <1>b, <1>f DEF IInv, SlotsInOrder
<1>5. SlotsFilled'
  <2>1. ASSUME NEW i \in Items, slotOf[i] # 0
        PROVE  slots'[slotOf[i]] = IF i \in Unanswered \ {r} THEN 0 ELSE i
    <3>1. CASE i = r
      BY <1>f, <3>1
    <3>2. CASE i # r
      BY <1>e, <1>f, <2>1, <3>2 DEF IInv, SlotsFilled
    <3> QED BY <3>1, <3>2
  <2> QED BY <1>1, <1>d, <2>1 DEF SlotsFilled
<1>6. CallsExact'
  <2>1. stage' = "dispatch" =>
          \A k \in DOMAIN calls : k >= next' => phase'[calls[k]] = "idle"
    BY <1>c DEF IInv, CallsExact, Parsed
  <2> QED BY <1>0, <1>b, <2>1, SameCalls
<1>7. HandlersLate'
  BY <1>1, <1>a, <1>c DEF IInv, HandlersLate
<1>8. CounterExact'
  BY <1>0, <1>d, SameCounter
<1>9. RepliesAreFull'
  BY <1>0, SameReplies
<1> QED BY <1>2, <1>3, <1>4, <1>5, <1>6, <1>7, <1>8, <1>9 DEF IInv

\* A handler that decrements the counter leaves one fewer uncounted.
LEMMA DecrementKeeps ==
  ASSUME IInv, NEW t \in Runners, NEW r \in Items, Decrement(t, r)
  PROVE  IInv'
<1> USE DEF Decrement
<1>0. UNCHANGED <<items, class>>
  BY DEF Parsing
<1>1. /\ Items' = Items /\ Requests' = Requests /\ Answerable' = Answerable
      /\ Items \subseteq Nat \ {0} /\ Items = 1 .. Len(items) /\ Len(items) \in Nat
  BY <1>0, SameItems
<1>a. r \in Requests /\ stage \in {"dispatch", "done"} /\ t \in Threads
  BY DEF IInv, HandlersLate, Threads
<1>b. Parsed = Items /\ Parsed' = Items
  BY <1>1, <1>a DEF Parsed
<1>c. /\ phase' \in [Items -> Phases]
      /\ phase'[r] = "counted"
      /\ \A i \in Items \ {r} : phase'[i] = phase[i]
  BY DEF IInv, TypeOK, Phases
<1>d. /\ Unanswered' = Unanswered
      /\ r \in Uncounted /\ Uncounted' = Uncounted \ {r} /\ IsFiniteSet(Uncounted)
  <2>1. Unanswered' = Unanswered /\ r \in Uncounted /\ Uncounted' = Uncounted \ {r}
    BY <1>1, <1>a, <1>c DEF Unanswered, Uncounted, Requests
  <2>2. IsFiniteSet(Uncounted)
    BY <1>0, SameItems, FS_Subset DEF Uncounted
  <2> QED BY <2>1, <2>2
<1>e. calls # <<>> /\ pcount = Cardinality(Uncounted)
  <2>1. calls # <<>>
    BY <1>a, <1>b DEF IInv, CallsExact, Requests
  <2> QED BY <1>a, <2>1 DEF IInv, CounterExact
<1>f. pcount' = Cardinality(Uncounted') /\ pcount' \in Nat
  <2>1. Cardinality(Uncounted \ {r}) = Cardinality(Uncounted) - 1
    BY <1>d, FS_RemoveElement
  <2>2. Cardinality(Uncounted \ {r}) \in Nat
    BY <1>d, FS_RemoveElement, FS_CardinalityType
  <2> QED BY <1>d, <1>e, <2>1, <2>2
<1>2. TypeOK'
  BY <1>1, <1>c, <1>f DEF IInv, TypeOK
<1>3. Shape'
  BY <1>1 DEF IInv, Shape
<1>4. SlotsInOrder'
  BY <1>1, <1>b DEF IInv, SlotsInOrder
<1>5. SlotsFilled'
  BY <1>1, <1>d DEF IInv, SlotsFilled
<1>6. CallsExact'
  <2>1. stage' = "dispatch" =>
          \A k \in DOMAIN calls : k >= next' => phase'[calls[k]] = "idle"
    BY <1>c DEF IInv, CallsExact, Parsed
  <2> QED BY <1>0, <1>b, <2>1, SameCalls
<1>7. HandlersLate'
  BY <1>1, <1>a, <1>c DEF IInv, HandlersLate
<1>8. CounterExact'
  BY <1>f DEF CounterExact
<1>9. RepliesAreFull'
  BY <1>0, SameReplies
<1> QED BY <1>2, <1>3, <1>4, <1>5, <1>6, <1>7, <1>8, <1>9 DEF IInv

\* A handler that reads zero finds every slot filled: the reply it sends is full.
LEMMA TestAndReplyKeeps ==
  ASSUME IInv, NEW t \in Runners, NEW r \in Items, TestAndReply(t, r)
  PROVE  IInv'
<1> USE DEF TestAndReply, Return
<1>0. UNCHANGED <<items, class>>
  BY DEF Parsing
<1>1. /\ Items' = Items /\ Requests' = Requests /\ Answerable' = Answerable
      /\ Items \subseteq Nat \ {0} /\ Items = 1 .. Len(items) /\ Len(items) \in Nat
  BY <1>0, SameItems
<1>a. r \in Requests /\ stage \in {"dispatch", "done"} /\ t \in Threads
  BY DEF IInv, HandlersLate, Threads
<1>b. Parsed = Items /\ Parsed' = Items
  BY <1>1, <1>a DEF Parsed
<1>c. /\ phase' \in [Items -> Phases]
      /\ phase'[r] = "done"
      /\ \A i \in Items \ {r} : phase'[i] = phase[i]
  BY DEF IInv, TypeOK, Phases
<1>d. Unanswered' = Unanswered /\ Uncounted' = Uncounted
  BY <1>1, <1>a, <1>c DEF Unanswered, Uncounted, Requests
<1>9. RepliesAreFull' /\ replies' \in Seq(Seq({0} \cup Items'))
  <2>1. CASE pcount = 0
    <3>1. calls # <<>>
      BY <1>a, <1>b DEF IInv, CallsExact, Requests
    <3>2. Cardinality(Uncounted) = 0 /\ IsFiniteSet(Uncounted)
      <4>1. IsFiniteSet(Uncounted)
        BY <1>0, SameItems, FS_Subset DEF Uncounted
      <4> QED BY <1>a, <2>1, <3>1, <4>1 DEF IInv, CounterExact
    <3>3. Uncounted = {}
      BY <3>2, FS_EmptySet
    <3>4. Unanswered = {}
      BY <3>3 DEF Unanswered, Uncounted
    <3>5. FullReply(slots)
      BY <1>b, <3>4, FullWhenAnswered DEF IInv
    <3>6. slots # <<>>
      <4>1. slotOf[r] \in DOMAIN slots
        BY <1>a, <1>b DEF IInv, TypeOK, SlotsInOrder, Answerable, Requests
      <4> QED BY <4>1
    <3>7. slots \in Seq({0} \cup Items) /\ replies' = Append(replies, slots)
      BY <2>1 DEF IInv, TypeOK
    <3> QED BY <1>0, <3>5, <3>6, <3>7, ReplyAdded
  <2>2. CASE pcount # 0
    <3>1. UNCHANGED replies
      BY <2>2
    <3> QED BY <1>0, <1>1, <3>1, SameReplies DEF IInv, TypeOK
  <2> QED BY <2>1, <2>2
<1>2. TypeOK'
  <2>1. busy' \in [Threads -> {0} \cup Requests]
    BY <1>a DEF IInv, TypeOK
  <2> QED BY <1>1, <1>9, <1>c, <2>1 DEF IInv, TypeOK
<1>3. Shape'
  BY <1>1 DEF IInv, Shape
<1>4. SlotsInOrder'
  BY <1>1, <1>b DEF IInv, SlotsInOrder
<1>5. SlotsFilled'
  BY <1>1, <1>d DEF IInv, SlotsFilled
<1>6. CallsExact'
  <2>1. stage' = "dispatch" =>
          \A k \in DOMAIN calls : k >= next' => phase'[calls[k]] = "idle"
    BY <1>c DEF IInv, CallsExact, Parsed
  <2> QED BY <1>0, <1>b, <2>1, SameCalls
<1>7. HandlersLate'
  BY <1>1, <1>a, <1>c DEF IInv, HandlersLate
<1>8. CounterExact'
  BY <1>0, <1>d, SameCounter
<1> QED BY <1>2, <1>3, <1>4, <1>5, <1>6, <1>7, <1>8, <1>9 DEF IInv

-----------------------------------------------------------------------------
\* Every step of perform_io and of a handler, on any thread, keeps the invariant.
LEMMA IInvStep == IInv /\ [Next]_vars => IInv'
<1> SUFFICES ASSUME IInv, [Next]_vars PROVE IInv'
  OBVIOUS
<1>1. CASE PerformIo
  BY <1>1, PassOrDropKeeps, RefuseKeeps, SplitKeeps, ParseInvalidKeeps,
     ParseNotifyKeeps, ParseRequestKeeps, FinishWithoutCallsKeeps, ArmKeeps,
     DispatchKeeps, FinishDispatchKeeps
     DEF PerformIo
<1>2. ASSUME NEW t \in Runners, NEW r \in Items, Handler(t, r) PROVE IInv'
  BY <1>2, StoreKeeps, DecrementKeeps, TestAndReplyKeeps DEF Handler
<1>3. CASE UNCHANGED vars
  <2>1. UNCHANGED <<items, class, stage, next, slots, slotOf, calls, pcount, phase, busy,
                    ran, sent, replies>>
    BY <1>3 DEF vars
  <2>2. /\ Items' = Items /\ Requests' = Requests /\ Answerable' = Answerable
        /\ Parsed' = Parsed /\ Unanswered' = Unanswered /\ Uncounted' = Uncounted
    BY <2>1, SameItems DEF Parsed, Unanswered, Uncounted
  <2>3. RepliesAreFull' /\ CounterExact'
    BY <2>1, <2>2, SameReplies, SameCounter
  <2>4. CallsExact'
    BY <2>1, <2>2 DEF IInv, CallsExact
  <2>5. TypeOK' /\ Shape' /\ SlotsInOrder' /\ SlotsFilled' /\ HandlersLate'
    BY <2>1, <2>2 DEF IInv, TypeOK, Shape, SlotsInOrder, SlotsFilled, HandlersLate
  <2> QED BY <2>3, <2>4, <2>5 DEF IInv
<1> QED BY <1>1, <1>2, <1>3 DEF Next, Finished

\* The inductive invariant of perform_io and its handlers holds of every packet, on
\* every set of threads.
THEOREM IInvCorrect == Spec => []IInv
BY IInvInit, IInvStep, PTL DEF Spec

\* Every variable of jsonrpc-batch keeps its type; in particular the unsigned
\* counter never goes below zero.
THEOREM TypeCorrect == Spec => []TypeOK
<1>1. IInv => TypeOK
  BY DEF IInv
<1> QED BY <1>1, IInvCorrect, PTL

\* On any number of threads and for every array, what jsonrpc-batch sends is a
\* response to every element that wants one, in the order of the elements.
THEOREM RepliesCorrect == Spec => []RepliesAreFull
<1>1. IInv => RepliesAreFull
  BY DEF IInv
<1> QED BY <1>1, IInvCorrect, PTL
-----------------------------------------------------------------------------
(* No reply is lost *)

\* The dispatch loop passes every request on.
Dispatched ==
  /\ stage = "dispatch" =>
       calls # <<>> /\ \A k \in DOMAIN calls : k < next => phase[calls[k]] # "idle"
  /\ stage = "done" => \A r \in Requests : phase[r] # "idle"

\* While no reply has been sent some handler has still to test the counter; without
\* requests perform_io sends the reply itself.
Owing ==
  /\ stage \in {"dispatch", "done"} /\ Requests # {} =>
       replies # <<>> \/ \E r \in Requests : phase[r] # "done"
  /\ stage = "done" /\ Requests = {} /\ ReplyDue => replies # <<>>

ReplyInv == IInv /\ Dispatched /\ Owing

\* A list of replies that has got one more is not empty.
LEMMA AppendedNotEmpty ==
  ASSUME NEW S, NEW s \in Seq(S), NEW e \in S
  PROVE  Append(s, e) # <<>>
<1>1. Append(s, e)[Len(s) + 1] = e /\ Len(Append(s, e)) = Len(s) + 1
  OBVIOUS
<1> QED BY <1>1

\* Steps of perform_io before the requests are passed on have nothing to lose.
LEMMA EarlyStep ==
  ASSUME ReplyInv, IInv',
         \/ PassOrDrop \/ Refuse \/ Split \/ ParseInvalid \/ ParseNotify \/ ParseRequest
         \/ FinishWithoutCalls \/ Arm
  PROVE  (Dispatched /\ Owing)'
<1>1. /\ IInv /\ replies \in Seq(Seq({0} \cup Items)) /\ class \in Classes
      /\ slots \in Seq({0} \cup Items) /\ PacketError \in Seq({0} \cup Items)
  BY DEF ReplyInv, IInv, TypeOK, PacketError
<1>2. UNCHANGED <<items, class, phase>>
  BY DEF PassOrDrop, Refuse, Split, ParseInvalid, ParseNotify, ParseRequest, Parsing,
         FinishWithoutCalls, Arm, ArmWith
<1>3. /\ Requests' = Requests /\ Answerable' = Answerable /\ Items' = Items
      /\ (ReplyDue' <=> ReplyDue)
  BY <1>1, <1>2, SameItems DEF ReplyDue
<1>4. CASE Split \/ ParseInvalid \/ ParseNotify \/ ParseRequest
  <2>1. stage' = "parse"
    BY <1>4 DEF Split, ParseInvalid, ParseNotify, ParseRequest, Parsing
  <2> QED BY <2>1 DEF Dispatched, Owing
<1>5. CASE PassOrDrop
  <2>1. items = <<>> /\ class \in {"plain", "blank"}
    BY <1>1, <1>5 DEF PassOrDrop, IInv, Shape
  <2>2. Requests = {} /\ ~ReplyDue
    BY <2>1 DEF Requests, Items, ReplyDue
  <2>3. stage' = "done"
    BY <1>5 DEF PassOrDrop
  <2> QED BY <1>3, <2>2, <2>3 DEF Dispatched, Owing
<1>6. CASE Refuse
  <2>1. replies' # <<>>
    BY <1>1, <1>6, AppendedNotEmpty DEF Refuse
  <2>2. Requests = {}
    BY <1>1, <1>6 DEF Refuse, IInv, Shape, Requests, Items
  <2>3. stage' = "done"
    BY <1>6 DEF Refuse
  <2> QED BY <1>3, <2>1, <2>2, <2>3 DEF Dispatched, Owing
<1>7. CASE FinishWithoutCalls
  <2>1. Parsed = Items
    BY <1>1, <1>7, SameItems DEF FinishWithoutCalls, Parsed
  <2>2. Requests = {}
    BY <1>1, <1>7, <2>1 DEF FinishWithoutCalls, IInv, CallsExact, Requests
  <2>3. ASSUME ReplyDue PROVE slots # <<>>
    <3>1. Items # {}
      BY <1>1, <1>7 DEF FinishWithoutCalls, IInv, Shape
    <3>2. items # <<>> /\ class = "array"
      BY <1>1, <3>1 DEF Items, IInv, Shape
    <3>3. PICK i \in Answerable : TRUE
      BY <2>3, <3>2 DEF ReplyDue
    <3>4. slotOf[i] \in DOMAIN slots
      BY <1>1, <2>1, <3>3 DEF IInv, TypeOK, SlotsInOrder, Answerable
    <3> QED BY <3>4
  <2>4. ReplyDue => replies' # <<>>
    BY <1>1, <1>7, <2>3, AppendedNotEmpty DEF FinishWithoutCalls
  <2>5. stage' = "done"
    BY <1>7 DEF FinishWithoutCalls
  <2> QED BY <1>3, <2>2, <2>4, <2>5 DEF Dispatched, Owing
<1>8. CASE Arm
  <2>1. \A i \in Items : phase[i] = "idle"
    BY <1>1, <1>8 DEF Arm, ArmWith, IInv, HandlersLate
  <2>2. stage' = "dispatch" /\ next' = 1 /\ calls' = calls /\ calls # <<>>
    BY <1>8 DEF Arm, ArmWith
  <2>3. \A k \in DOMAIN calls : ~(k < 1)
    BY <1>1 DEF IInv, TypeOK
  <2> QED BY <1>2, <1>3, <2>1, <2>2, <2>3 DEF Dispatched, Owing, Requests
<1> QED BY <1>4, <1>5, <1>6, <1>7, <1>8

\* The handler that decrements last leaves zero for good: it, or one that tests with it,
\* replies.
LEMMA ReplyStep == ReplyInv /\ [Next]_vars => ReplyInv'
<1> SUFFICES ASSUME ReplyInv, [Next]_vars PROVE ReplyInv'
  OBVIOUS
<1>0. IInv /\ IInv'
  BY IInvStep DEF ReplyInv
<1>1. /\ replies \in Seq(Seq({0} \cup Items)) /\ phase \in [Items -> Phases]
      /\ calls \in Seq(Requests) /\ next \in Nat \ {0} /\ slots \in Seq({0} \cup Items)
  BY <1>0 DEF IInv, TypeOK
<1>2. CASE \/ PassOrDrop \/ Refuse \/ Split \/ ParseInvalid \/ ParseNotify \/ ParseRequest
           \/ FinishWithoutCalls \/ Arm
  BY <1>0, <1>2, EarlyStep DEF ReplyInv
<1>3. CASE Dispatch
  <2>1. /\ UNCHANGED <<items, calls, stage, replies, class>> /\ next' = next + 1
        /\ next \in DOMAIN calls /\ stage = "dispatch"
        /\ phase' = [phase EXCEPT ![calls[next]] = "waiting"]
    BY <1>3 DEF Dispatch
  <2>2. Requests' = Requests /\ Requests \subseteq Items
    BY <1>0, <2>1, SameItems DEF Requests
  <2>3. calls[next] \in Requests
    BY <1>1, <2>1
  <2>4. Dispatched'
    <3>1. ASSUME NEW k \in DOMAIN calls, k < next + 1 PROVE phase'[calls[k]] # "idle"
      <4>1. calls[k] \in Items /\ (k < next \/ k = next)
        BY <1>1, <2>2, <3>1
      <4> QED BY <1>1, <2>1, <4>1 DEF ReplyInv, Dispatched
    <3> QED BY <2>1, <3>1 DEF Dispatched
  <2>5. Owing'
    <3>1. phase'[calls[next]] # "done"
      BY <1>1, <2>1, <2>2, <2>3
    <3> QED BY <2>1, <2>2, <2>3, <3>1 DEF Owing
  <2> QED BY <1>0, <2>4, <2>5 DEF ReplyInv
<1>4. CASE FinishDispatch
  <2>1. /\ UNCHANGED <<items, calls, phase, replies, class>>
        /\ next = Len(calls) + 1 /\ stage = "dispatch" /\ stage' = "done"
    BY <1>4 DEF FinishDispatch
  <2>2. Requests' = Requests /\ Requests \subseteq Items /\ Parsed = Items
    BY <1>0, <2>1, SameItems DEF Requests, Parsed
  <2>3. ASSUME NEW r \in Requests PROVE phase[r] # "idle"
    <3>1. PICK k \in DOMAIN calls : calls[k] = r
      BY <1>0, <2>2 DEF IInv, CallsExact
    <3>2. k < next
      BY <1>1, <2>1
    <3> QED BY <2>1, <3>1, <3>2 DEF ReplyInv, Dispatched
  <2>4. Requests # {}
    <3>1. calls # <<>>
      BY <2>1 DEF ReplyInv, Dispatched
    <3> QED BY <1>1, <3>1
  <2> QED BY <1>0, <2>1, <2>2, <2>3, <2>4 DEF ReplyInv, Dispatched, Owing
<1>5. ASSUME NEW t \in Runners, NEW r \in Items, Handler(t, r) PROVE ReplyInv'
  <2>1. /\ r \in Requests /\ stage \in {"dispatch", "done"}
        /\ UNCHANGED <<items, stage, calls, next, class>>
    BY <1>0, <1>5 DEF Handler, Store, Decrement, TestAndReply, Return, IInv, HandlersLate
  <2>2. Requests' = Requests /\ Requests \subseteq Items
    BY <1>0, <2>1, SameItems DEF Requests
  <2>3. /\ \A i \in Items \ {r} : phase'[i] = phase[i]
        /\ phase'[r] # "idle"
    BY <1>1, <1>5 DEF Handler, Store, Decrement, TestAndReply, Return
  <2>4. Dispatched'
    <3>1. \A k \in DOMAIN calls : calls[k] \in Items
      BY <1>1, <2>2
    <3> QED BY <2>1, <2>2, <2>3, <3>1 DEF ReplyInv, Dispatched
  <2>5. CASE Store(t, r) \/ Decrement(t, r)
    <3>1. replies' = replies /\ phase'[r] # "done"
      BY <1>1, <2>5 DEF Store, Decrement
    <3> QED BY <1>0, <2>1, <2>2, <2>4, <3>1 DEF ReplyInv, Owing
  <2>6. CASE TestAndReply(t, r)
    <3>1. CASE pcount = 0
      <4>1. replies' # <<>>
        BY <1>1, <2>6, <3>1, AppendedNotEmpty DEF TestAndReply, Return
      <4> QED BY <1>0, <2>4, <4>1 DEF ReplyInv, Owing
    <3>2. CASE pcount # 0
      <4>1. Uncounted # {}
        <5>1. calls # <<>>
          BY <1>0, <2>1, <2>2 DEF IInv, CallsExact, Parsed
        <5>2. Cardinality(Uncounted) # 0
          BY <1>0, <2>1, <3>2, <5>1 DEF IInv, CounterExact
        <5> QED BY <5>2, FS_EmptySet
      <4>2. PICK q \in Requests : phase[q] \in {"idle", "waiting", "stored"}
        BY <4>1 DEF Uncounted
      <4>3. phase[r] = "counted"
        BY <2>6 DEF TestAndReply, Return
      <4>4. q # r /\ phase'[q] # "done"
        BY <2>2, <2>3, <4>2, <4>3
      <4> QED BY <1>0, <2>1, <2>2, <2>4, <4>2, <4>4 DEF ReplyInv, Owing
    <3> QED BY <3>1, <3>2
  <2> QED BY <1>5, <2>5, <2>6 DEF Handler
<1>6. CASE UNCHANGED vars
  <2>1. UNCHANGED <<items, class, stage, next, calls, phase, replies>>
    BY <1>6 DEF vars
  <2>2. Requests' = Requests /\ (ReplyDue' <=> ReplyDue)
    BY <1>0, <2>1, SameItems DEF ReplyDue
  <2> QED BY <1>0, <2>1, <2>2 DEF ReplyInv, Dispatched, Owing
<1> QED BY <1>2, <1>3, <1>4, <1>5, <1>6 DEF Next, PerformIo, Finished

\* On any number of threads: when perform_io and the handlers have returned, a packet
\* that was owed a reply has had one, and another has had none.
THEOREM NoLossCorrect == Spec => []NoLostReply
<1>1. Init => ReplyInv
  <2> SUFFICES ASSUME Init PROVE ReplyInv
    OBVIOUS
  <2>1. Dispatched /\ Owing
    BY DEF Init, Dispatched, Owing
  <2> QED BY <2>1, IInvInit DEF ReplyInv
<1>2. ReplyInv => NoLostReply
  <2> SUFFICES ASSUME ReplyInv, Quiet PROVE ReplyDue <=> replies # <<>>
    BY DEF NoLostReply
  <2>1. ASSUME replies # <<>> PROVE ReplyDue
    <3>1. 1 \in DOMAIN replies
      BY <2>1 DEF ReplyInv, IInv, TypeOK
    <3>2. CASE replies[1] = PacketError /\ items = <<>> /\ class \in {"broken", "array"}
      BY <3>2 DEF ReplyDue
    <3>3. CASE FullReply(replies[1]) /\ replies[1] # <<>>
      <4>1. replies[1] \in Seq({0} \cup Items)
        BY <3>1 DEF ReplyInv, IInv, TypeOK
      <4>2. 1 \in DOMAIN replies[1]
        BY <3>3, <4>1
      <4>3. Answerable # {}
        BY <3>3, <4>2 DEF FullReply
      <4>4. items # <<>>
        BY <4>3 DEF Answerable, Items
      <4> QED BY <4>3, <4>4 DEF ReplyInv, IInv, Shape, ReplyDue
    <3> QED BY <3>1, <3>2, <3>3 DEF ReplyInv, IInv, RepliesAreFull
  <2>2. ASSUME ReplyDue PROVE replies # <<>>
    <3>1. \A r \in Requests : phase[r] = "done"
      BY DEF Quiet, ReplyInv, Dispatched, Requests
    <3> QED BY <2>2, <3>1 DEF Quiet, ReplyInv, Owing
  <2> QED BY <2>1, <2>2
<1> QED BY <1>1, <1>2, ReplyStep, PTL DEF Spec
-----------------------------------------------------------------------------
(* One thread: a synchronous target, or one that answers on one thread *)

\* A handler that has stored and not returned is the one its thread runs.
Running ==
  \A i \in Items : phase[i] \in {"stored", "counted"} => \E u \in Runners : busy[u] = i

\* Once there is a reply every request has been through.
RepliedLast ==
  replies # <<>> =>
    /\ stage \in {"dispatch", "done"}
    /\ \A i \in Requests : phase[i] = "done"

OneInv == IInv /\ Running /\ RepliedLast /\ AtMostOneReply

\* A packet that has just been received has no handler running and no reply.
LEMMA OneInit == Init => OneInv
<1> SUFFICES ASSUME Init PROVE OneInv
  OBVIOUS
<1>1. Running /\ RepliedLast /\ AtMostOneReply
  BY DEF Init, Running, RepliedLast, AtMostOneReply
<1> QED BY <1>1, IInvInit DEF OneInv

\* The steps of perform_io that leave phase, busy and replies alone.
LEMMA OneFrame ==
  ASSUME OneInv, UNCHANGED <<items, phase, busy, replies>>,
         stage \in {"dispatch", "done"} => stage' \in {"dispatch", "done"}
  PROVE  (Running /\ RepliedLast /\ AtMostOneReply)'
BY SameItems DEF OneInv, Running, RepliedLast, AtMostOneReply

\* No reply means a list of replies of length 0.
LEMMA NoReplyNoLength == replies = <<>> => Len(replies) = 0
OBVIOUS

\* With one thread, a handler that reads zero is the last one: no other has stored
\* and not returned, so a reply finds no reply before it.
LEMMA OneStep ==
  ASSUME NEW u, Runners = {u}, OneInv, [Next]_vars
  PROVE  OneInv'
<1>0. IInv /\ IInv'
  BY IInvStep DEF OneInv
<1>1. /\ replies \in Seq(Seq({0} \cup Items)) /\ phase \in [Items -> Phases]
      /\ busy \in [Threads -> {0} \cup Requests] /\ u \in Threads
  BY <1>0 DEF IInv, TypeOK, Threads
<1>2. CASE PassOrDrop \/ Split \/ ParseInvalid \/ ParseNotify \/ ParseRequest \/ Arm
           \/ FinishDispatch
  BY <1>0, <1>2, OneFrame
     DEF PassOrDrop, Split, ParseInvalid, ParseNotify, ParseRequest, Parsing, Arm, ArmWith,
         FinishDispatch, OneInv
<1>3. CASE Refuse \/ FinishWithoutCalls
  <2>1. /\ UNCHANGED <<items, phase, busy>> /\ stage' = "done"
        /\ stage \in {"receive", "parse"}
    BY <1>3 DEF Refuse, FinishWithoutCalls
  <2>2. replies = <<>>
    BY <2>1 DEF OneInv, RepliedLast
  <2>3. AtMostOneReply'
    <3>1. \/ replies' = replies \/ replies' = Append(replies, PacketError)
          \/ replies' = Append(replies, slots)
      BY <1>3 DEF Refuse, FinishWithoutCalls
    <3>2. ASSUME NEW a \in Seq({0} \cup Items) PROVE Len(Append(replies, a)) = Len(replies) + 1
      BY <1>1
    <3>3. PacketError \in Seq({0} \cup Items)
      BY DEF PacketError
    <3>4. slots \in Seq({0} \cup Items)
      BY <1>0 DEF IInv, TypeOK
    <3>5. Len(replies) = 0
      BY <2>2, NoReplyNoLength
    <3>6. Len(Append(replies, PacketError)) = 1 /\ Len(Append(replies, slots)) = 1
      BY <3>2, <3>3, <3>4, <3>5
    <3>7. Len(replies') = 0 \/ Len(replies') = 1
      BY <3>1, <3>5, <3>6, Zenon
    <3>8. CASE Len(replies') = 0
      BY <3>8 DEF AtMostOneReply
    <3>9. CASE Len(replies') = 1
      BY <3>9 DEF AtMostOneReply
    <3> QED BY <3>7, <3>8, <3>9
  <2>4. Requests = {}
    <3>1. CASE Refuse
      BY <3>1, <1>0 DEF Refuse, IInv, Shape, Requests, Items
    <3>2. CASE FinishWithoutCalls
      <4>1. Requests \subseteq Parsed
        BY <3>2, <1>0, SameItems DEF FinishWithoutCalls, Parsed, Requests, IInv, TypeOK
      <4> QED BY <3>2, <4>1, <1>0 DEF FinishWithoutCalls, IInv, CallsExact, Requests
    <3> QED BY <1>3, <3>1, <3>2
  <2>5. Running' /\ RepliedLast'
    BY <1>0, <2>1, <2>4, SameItems DEF OneInv, Running, RepliedLast
  <2> QED BY <1>0, <2>3, <2>5 DEF OneInv
<1>4. CASE Dispatch
  <2>1. /\ UNCHANGED <<items, busy, replies, stage>>
        /\ phase' = [phase EXCEPT ![calls[next]] = "waiting"]
        /\ next \in DOMAIN calls /\ stage = "dispatch"
    BY <1>4 DEF Dispatch
  <2>2. calls[next] \in Requests /\ phase[calls[next]] = "idle"
    <3>1. calls \in Seq(Requests) /\ next \in Nat
      BY <1>0 DEF IInv, TypeOK
    <3>2. next >= next /\ calls[next] \in Requests
      BY <2>1, <3>1
    <3> QED BY <1>0, <2>1, <3>2 DEF IInv, CallsExact
  <2>3. replies = <<>>
    BY <2>2 DEF OneInv, RepliedLast
  <2>4. Running'
    BY <1>0, <1>1, <2>1, <2>2, SameItems DEF OneInv, Running, Requests
  <2> QED BY <1>0, <2>1, <2>3, <2>4 DEF OneInv, RepliedLast, AtMostOneReply
<1>5. ASSUME NEW t \in Runners, NEW r \in Items, Handler(t, r) PROVE OneInv'
  <2>1. t = u
    OBVIOUS
  <2>2. r \in Requests /\ phase[r] # "done" /\ stage \in {"dispatch", "done"}
        /\ UNCHANGED <<items, stage>>
    BY <1>0, <1>5 DEF Handler, Store, Decrement, TestAndReply, Return, IInv, HandlersLate
  <2>3. replies = <<>>
    BY <2>2 DEF OneInv, RepliedLast
  <2>4. CASE Store(u, r) \/ Decrement(u, r)
    <3>1. UNCHANGED replies
      BY <2>4 DEF Store, Decrement
    <3>2. Running'
      <4>1. CASE Store(u, r)
        BY <1>0, <1>1, <4>1, SameItems DEF Store, OneInv, Running
      <4>2. CASE Decrement(u, r)
        BY <1>0, <1>1, <4>2, SameItems DEF Decrement, OneInv, Running
      <4> QED BY <2>4, <4>1, <4>2
    <3> QED BY <1>0, <2>3, <3>1, <3>2 DEF OneInv, RepliedLast, AtMostOneReply
  <2>5. CASE TestAndReply(u, r)
    <3>1. \A i \in Items : phase[i] \in {"stored", "counted"} => i = r
      BY <2>5 DEF TestAndReply, Return, OneInv, Running
    <3>2. /\ phase' \in [Items -> Phases] /\ phase'[r] = "done"
          /\ \A i \in Items \ {r} : phase'[i] = phase[i]
      BY <1>1, <2>5 DEF TestAndReply, Return, Phases
    <3>3. Running'
      BY <1>0, <2>2, <3>1, <3>2, SameItems DEF OneInv, Running
    <3>4. CASE pcount # 0
      <4>1. UNCHANGED replies
        BY <2>5, <3>4 DEF TestAndReply, Return
      <4> QED BY <1>0, <2>3, <3>3, <4>1 DEF OneInv, RepliedLast, AtMostOneReply
    <3>5. CASE pcount = 0
      <4>1. Uncounted = {}
        <5>1. IsFiniteSet(Uncounted)
          BY <1>0, <2>2, SameItems, FS_Subset DEF Uncounted
        <5>2. calls # <<>>
          BY <1>0, <2>2 DEF IInv, CallsExact, Parsed, Requests
        <5>3. Cardinality(Uncounted) = 0
          BY <1>0, <2>2, <3>5, <5>2 DEF IInv, CounterExact
        <5> QED BY <5>1, <5>3, FS_EmptySet
      <4>2. ASSUME NEW i \in Requests PROVE phase'[i] = "done"
        <5>1. phase[i] \in {"counted", "done"} /\ i \in Items
          BY <1>1, <4>1 DEF Uncounted, Phases, Requests
        <5> QED BY <3>1, <3>2, <5>1
      <4>3. AtMostOneReply'
        BY <1>1, <2>3, <2>5, <3>5 DEF TestAndReply, Return, AtMostOneReply
      <4>4. RepliedLast'
        BY <1>0, <2>2, <4>2, SameItems DEF RepliedLast
      <4> QED BY <1>0, <3>3, <4>3, <4>4 DEF OneInv
    <3> QED BY <3>4, <3>5
  <2> QED BY <1>5, <2>1, <2>4, <2>5 DEF Handler
<1>6. CASE UNCHANGED vars
  BY <1>0, <1>6, OneFrame DEF vars, OneInv
<1> QED BY <1>2, <1>3, <1>4, <1>5, <1>6 DEF Next, PerformIo, Finished

\* When one thread runs all the handlers the client gets at most one reply.
THEOREM OneReplyCorrect ==
  ASSUME NEW u, Runners = {u}
  PROVE  Spec => []AtMostOneReply
<1>1. OneInv /\ [Next]_vars => OneInv'
  BY OneStep
<1>2. OneInv => AtMostOneReply
  BY DEF OneInv
<1> QED BY <1>1, <1>2, OneInit, PTL DEF Spec
-----------------------------------------------------------------------------
(* jsonrpc-batch implements BatchPromise, step by step *)

Counted == {i \in Items : phase[i] = "counted"}

\* A thread that runs a handler has run one.
RanBusy == \A t \in Threads : busy[t] # 0 => t \in ran

\* There are no more replies than threads: when all handlers have decremented the counter,
\* those that may still reply are on threads of their own and those that have replied
\* were.
FewReplies ==
  /\ stage \in {"receive", "parse"} => replies = <<>> /\ ran = {}
  /\ stage \in {"dispatch", "done"} /\ Requests # {} =>
       /\ Uncounted # {} => replies = <<>>
       /\ Uncounted = {} => Len(replies) + Cardinality(Counted) <= Cardinality(ran)

PromiseInv == IInv /\ Running /\ RanBusy /\ FewReplies

\* The elements whose response is in its slot are those passed that wait for none.
LEMMA CollectedIs ==
  ASSUME IInv
  PROVE  Collected = (Parsed \cap Answerable) \ Unanswered
<1>1. Items \subseteq Nat \ {0}
  BY ItemsFinite DEF IInv, TypeOK
<1>2. ASSUME NEW i \in Items
      PROVE  slotOf[i] # 0 /\ slots[slotOf[i]] # 0
               <=> i \in (Parsed \cap Answerable) \ Unanswered
  BY <1>1 DEF IInv, SlotsInOrder, SlotsFilled
<1> QED BY <1>2 DEF Collected, Parsed

\* The threads that have run handlers, and the handlers that have decremented the counter,
\* are finitely many.
LEMMA FiniteThreads ==
  ASSUME IInv
  PROVE  /\ IsFiniteSet(ran) /\ Cardinality(ran) \in Nat
         /\ IsFiniteSet(Counted) /\ Cardinality(Counted) \in Nat
<1>1. IsFiniteSet(Threads)
  BY RunnersAssumption, FS_AddElement, Zenon DEF Threads
<1>2. IsFiniteSet(ran)
  BY <1>1, FS_Subset DEF IInv, TypeOK
<1>3. IsFiniteSet(Counted)
  BY ItemsFinite, FS_Subset DEF IInv, TypeOK, Counted
<1> QED BY <1>2, <1>3, FS_CardinalityType

\* Handlers that have decremented the counter and not returned are on different threads.
LEMMA CountedOnThreads ==
  ASSUME IInv, Running, RanBusy
  PROVE  Cardinality(Counted) <= Cardinality(ran)
<1> DEFINE On == {busy[t] : t \in ran}
<1>1. ASSUME NEW i \in Counted PROVE i \in On
  <2>1. PICK t \in Runners : busy[t] = i
    BY DEF Running, Counted
  <2>2. i # 0 /\ t \in Threads
    BY ItemsFinite DEF IInv, TypeOK, Counted, Threads
  <2> QED BY <2>1, <2>2 DEF RanBusy
<1>2. IsFiniteSet(ran) /\ Cardinality(ran) \in Nat /\ Cardinality(Counted) \in Nat
  BY FiniteThreads
<1>3. IsFiniteSet(On) /\ Cardinality(On) <= Cardinality(ran)
  <2> DEFINE f == [t \in ran |-> busy[t]]
  <2>1. f \in Surjection(ran, On)
    BY DEF Surjection
  <2> QED BY <1>2, <2>1, FS_Surjection
<1>4. Cardinality(Counted) <= Cardinality(On) /\ Cardinality(On) \in Nat
  BY <1>1, <1>3, FS_Subset, FS_CardinalityType
<1> QED BY <1>2, <1>3, <1>4

\* Every step keeps the count of replies and threads.
LEMMA PromiseInvStep == PromiseInv /\ [Next]_vars => PromiseInv'
<1> SUFFICES ASSUME PromiseInv, [Next]_vars PROVE PromiseInv'
  OBVIOUS
<1>0. IInv /\ IInv'
  BY IInvStep DEF PromiseInv
<1>1. /\ replies \in Seq(Seq({0} \cup Items)) /\ phase \in [Items -> Phases]
      /\ busy \in [Threads -> {0} \cup Requests] /\ calls \in Seq(Requests)
      /\ slots \in Seq({0} \cup Items) /\ ran \subseteq Threads
  BY <1>0 DEF IInv, TypeOK
<1>2. CASE \/ PassOrDrop \/ Refuse \/ Split \/ ParseInvalid \/ ParseNotify \/ ParseRequest
           \/ FinishWithoutCalls \/ Arm
  <2>1. UNCHANGED <<items, phase, busy, ran>> /\ stage \in {"receive", "parse"}
    BY <1>2 DEF PassOrDrop, Refuse, Split, ParseInvalid, ParseNotify, ParseRequest, Parsing,
                FinishWithoutCalls, Arm, ArmWith
  <2>2. (Running /\ RanBusy)'
    BY <1>0, <2>1, SameItems DEF PromiseInv, Running, RanBusy
  <2>3. Requests' = Requests
    BY <1>0, <2>1, SameItems
  <2>4. CASE PassOrDrop \/ Refuse \/ FinishWithoutCalls
    <3>1. Requests = {}
      <4>1. CASE PassOrDrop
        BY <1>0, <4>1 DEF PassOrDrop, IInv, Shape, Requests, Items
      <4>2. CASE Refuse
        BY <1>0, <4>2 DEF Refuse, IInv, Shape, Requests, Items
      <4>3. CASE FinishWithoutCalls
        <5>1. Parsed = Items
          BY <1>0, <4>3, SameItems DEF FinishWithoutCalls, Parsed
        <5> QED BY <1>0, <4>3, <5>1 DEF FinishWithoutCalls, IInv, CallsExact, Requests
      <4> QED BY <2>4, <4>1, <4>2, <4>3
    <3>2. stage' = "done"
      BY <2>4 DEF PassOrDrop, Refuse, FinishWithoutCalls
    <3> QED BY <1>0, <2>2, <2>3, <3>1, <3>2 DEF PromiseInv, FewReplies
  <2>5. CASE Split \/ ParseInvalid \/ ParseNotify \/ ParseRequest
    <3>1. stage' = "parse" /\ replies' = replies
      BY <2>5 DEF Split, ParseInvalid, ParseNotify, ParseRequest, Parsing
    <3> QED BY <1>0, <2>1, <2>2, <3>1 DEF PromiseInv, FewReplies
  <2>6. CASE Arm
    <3>1. \A i \in Items : phase[i] = "idle"
      BY <1>0, <2>6 DEF Arm, ArmWith, IInv, HandlersLate
    <3>2. Uncounted' = Requests
      BY <2>1, <2>3, <3>1 DEF Uncounted, Requests
    <3>3. stage' = "dispatch" /\ replies' = replies
      BY <2>6 DEF Arm, ArmWith
    <3> QED BY <1>0, <2>1, <2>2, <2>3, <3>2, <3>3 DEF PromiseInv, FewReplies
  <2> QED BY <1>2, <2>4, <2>5, <2>6
<1>3. CASE Dispatch
  <2>1. /\ UNCHANGED <<items, busy, ran, replies, stage>> /\ stage = "dispatch"
        /\ next \in DOMAIN calls /\ phase' = [phase EXCEPT ![calls[next]] = "waiting"]
    BY <1>3 DEF Dispatch
  <2>2. Requests' = Requests /\ Items' = Items
    BY <1>0, <2>1, SameItems
  <2>3. calls[next] \in Requests /\ calls[next] \in Items /\ phase[calls[next]] = "idle"
    <3>1. next >= next /\ calls[next] \in Requests
      BY <1>0, <1>1, <2>1 DEF IInv, TypeOK
    <3> QED BY <1>0, <2>1, <3>1 DEF IInv, CallsExact, Requests
  <2>4. (Running /\ RanBusy)'
    BY <1>1, <2>1, <2>2, <2>3 DEF PromiseInv, Running, RanBusy
  <2>5. calls[next] \in Uncounted /\ calls[next] \in Uncounted'
    BY <1>1, <2>1, <2>2, <2>3 DEF Uncounted
  <2> QED BY <1>0, <2>1, <2>2, <2>4, <2>5 DEF PromiseInv, FewReplies
<1>4. CASE FinishDispatch
  <2>1. UNCHANGED <<items, phase, busy, ran, replies>> /\ stage = "dispatch" /\ stage' = "done"
    BY <1>4 DEF FinishDispatch
  <2>2. /\ Requests' = Requests /\ Uncounted' = Uncounted /\ Counted' = Counted
        /\ (Running /\ RanBusy)'
    BY <1>0, <2>1, SameItems DEF Uncounted, Counted, PromiseInv, Running, RanBusy
  <2> QED BY <1>0, <2>1, <2>2 DEF PromiseInv, FewReplies
<1>5. ASSUME NEW t \in Runners, NEW r \in Items, Handler(t, r) PROVE PromiseInv'
  <2>1. /\ r \in Requests /\ stage \in {"dispatch", "done"} /\ t \in Threads
        /\ UNCHANGED <<items, stage>>
    BY <1>0, <1>5 DEF Handler, Store, Decrement, TestAndReply, Return, IInv, HandlersLate,
                      Threads
  <2>2. Requests' = Requests /\ Items' = Items /\ r # 0
    BY <1>0, <2>1, SameItems
  <2>3. CASE Store(t, r)
    <3>1. /\ phase[r] = "waiting" /\ busy[t] = 0 /\ replies' = replies
          /\ phase' = [phase EXCEPT ![r] = "stored"] /\ busy' = [busy EXCEPT ![t] = r]
          /\ ran' = ran \cup {t}
      BY <2>3 DEF Store
    <3>2. r \in Uncounted /\ r \in Uncounted'
      BY <1>1, <2>1, <2>2, <3>1 DEF Uncounted
    <3>3. Running'
      <4>1. ASSUME NEW i \in Items, phase'[i] \in {"stored", "counted"}
            PROVE  \E u \in Runners : busy'[u] = i
        <5>1. CASE i = r
          BY <1>1, <2>1, <3>1, <5>1
        <5>2. CASE i # r
          <6>1. phase[i] \in {"stored", "counted"}
            BY <1>1, <3>1, <4>1, <5>2
          <6>2. PICK u \in Runners : busy[u] = i
            BY <6>1 DEF PromiseInv, Running
          <6>3. i # 0 /\ u \in Threads
            BY <1>0, <2>1, SameItems DEF Threads
          <6> QED BY <1>1, <3>1, <6>2, <6>3
        <5> QED BY <5>1, <5>2
      <4> QED BY <2>2, <4>1 DEF Running
    <3>4. RanBusy'
      BY <1>1, <2>1, <3>1 DEF PromiseInv, RanBusy
    <3> QED BY <1>0, <2>1, <2>2, <3>1, <3>2, <3>3, <3>4 DEF PromiseInv, FewReplies
  <2>4. CASE Decrement(t, r)
    <3>1. /\ phase[r] = "stored" /\ UNCHANGED <<busy, ran, replies>>
          /\ phase' = [phase EXCEPT ![r] = "counted"]
      BY <2>4 DEF Decrement
    <3>2. r \in Uncounted
      BY <2>1, <3>1 DEF Uncounted
    <3>3. replies = <<>>
      BY <2>1, <3>2 DEF PromiseInv, FewReplies
    <3>4. (Running /\ RanBusy)'
      BY <1>1, <2>2, <3>1 DEF PromiseInv, Running, RanBusy
    <3>5. Cardinality(Counted') <= Cardinality(ran') /\ Cardinality(Counted') \in Nat
      <4>1. (IInv /\ Running /\ RanBusy)' => (Cardinality(Counted) <= Cardinality(ran))'
        BY CountedOnThreads, PTL
      <4>2. IInv' => (Cardinality(Counted) \in Nat)'
        BY FiniteThreads, PTL
      <4> QED BY <1>0, <3>4, <4>1, <4>2
    <3>6. Len(replies') = 0
      BY <3>1, <3>3, NoReplyNoLength
    <3> QED BY <1>0, <2>1, <3>1, <3>3, <3>4, <3>5, <3>6 DEF PromiseInv, FewReplies
  <2>5. CASE TestAndReply(t, r)
    <3>1. /\ phase[r] = "counted" /\ busy[t] = r /\ ran' = ran
          /\ phase' = [phase EXCEPT ![r] = "done"] /\ busy' = [busy EXCEPT ![t] = 0]
          /\ replies' = IF pcount = 0 THEN Append(replies, slots) ELSE replies
      BY <2>5 DEF TestAndReply, Return
    <3>2. Uncounted' = Uncounted /\ Counted' = Counted \ {r} /\ r \in Counted
      BY <1>1, <2>1, <2>2, <3>1 DEF Uncounted, Counted
    <3>3. (Running /\ RanBusy)'
      BY <1>1, <2>1, <2>2, <3>1 DEF PromiseInv, Running, RanBusy
    <3>4. FewReplies'
      <4>1. CASE Uncounted = {}
        <5>1. Len(replies) + Cardinality(Counted) <= Cardinality(ran)
          BY <2>1, <4>1 DEF PromiseInv, FewReplies
        <5>2. /\ Cardinality(Counted') = Cardinality(Counted) - 1
              /\ Cardinality(Counted) \in Nat /\ Cardinality(ran) \in Nat
          BY <1>0, <3>2, FiniteThreads, FS_RemoveElement
        <5>3. Len(replies') = Len(replies) + 1 \/ Len(replies') = Len(replies)
          BY <1>1, <3>1
        <5>4. Len(replies) \in Nat
          BY <1>1
        <5> QED BY <2>1, <3>1, <3>2, <4>1, <5>1, <5>2, <5>3, <5>4 DEF FewReplies
      <4>2. CASE Uncounted # {}
        <5>1. IsFiniteSet(Uncounted)
          BY <1>0, <2>1, SameItems, FS_Subset DEF Uncounted
        <5>2. pcount = Cardinality(Uncounted)
          <6>1. Parsed = Items
            BY <2>1 DEF Parsed
          <6>2. calls # <<>>
            BY <1>0, <2>1, <6>1 DEF IInv, CallsExact, Requests
          <6> QED BY <1>0, <2>1, <6>2 DEF IInv, CounterExact
        <5>3. replies' = replies
          BY <3>1, <4>2, <5>1, <5>2, FS_EmptySet
        <5>4. replies = <<>>
          BY <2>1, <4>2 DEF PromiseInv, FewReplies
        <5> QED BY <2>1, <3>2, <4>2, <5>3, <5>4 DEF FewReplies
      <4> QED BY <4>1, <4>2
    <3> QED BY <1>0, <3>3, <3>4 DEF PromiseInv
  <2> QED BY <1>5, <2>3, <2>4, <2>5 DEF Handler
<1>6. CASE UNCHANGED vars
  <2>1. UNCHANGED <<items, stage, phase, busy, ran, replies>>
    BY <1>6 DEF vars
  <2>2. /\ Requests' = Requests /\ Uncounted' = Uncounted /\ Counted' = Counted
        /\ (Running /\ RanBusy)'
    BY <1>0, <2>1, SameItems DEF Uncounted, Counted, PromiseInv, Running, RanBusy
  <2> QED BY <1>0, <2>1, <2>2 DEF PromiseInv, FewReplies
<1> QED BY <1>2, <1>3, <1>4, <1>5, <1>6 DEF Next, PerformIo, Finished
\* How many replies the promise allows.
Limit == IF ran = {} THEN 1 ELSE Cardinality(ran)

\* Steps that the client cannot see.
LEMMA Invisible ==
  ASSUME IInv, UNCHANGED <<items, class, ran, replies>>, Collected' = Collected
  PROVE  UNCHANGED Promise!vars
BY SameItems DEF Promise!vars, ReplyDue

\* A response comes into its slot.
LEMMA Collecting ==
  ASSUME IInv, UNCHANGED <<items, class, replies>>,
         NEW i \in Answerable \ Collected, Collected' = Collected \cup {i},
         Limit' \in {Limit, Limit + 1}
  PROVE  Promise!Next
<1>1. Answerable' = Answerable /\ (ReplyDue' <=> ReplyDue)
  BY SameItems DEF ReplyDue
<1> QED BY <1>1 DEF Promise!Next, Promise!Collect, Limit

\* The slots are sent when all of them are filled.
LEMMA Replying ==
  ASSUME IInv, UNCHANGED <<items, class, ran>>, ReplyDue,
         Collected = Answerable, Collected' = Collected, Len(replies) < Limit,
         NEW a \in Seq({0} \cup Items), replies' = Append(replies, a)
  PROVE  Promise!Next
<1>1. Answerable' = Answerable /\ (ReplyDue' <=> ReplyDue)
  BY SameItems DEF ReplyDue
<1>2. Len(replies') = Len(replies) + 1
  BY DEF IInv, TypeOK
<1> QED BY <1>1, <1>2 DEF Promise!Next, Promise!Reply, Limit

\* An element that the parse loop has passed and that wants no answer of the target is
\* collected at once.
LEMMA ParseCollects ==
  ASSUME IInv, UNCHANGED <<items, phase>>, stage = "parse", stage' = "parse",
         next \in Items, next' = next + 1, IInv'
  PROVE  /\ Collected' = Collected \cup ({next} \cap (Answerable \ Requests))
         /\ next \notin Collected
<1>1. /\ Items' = Items /\ Requests' = Requests /\ Answerable' = Answerable
      /\ Items \subseteq Nat \ {0} /\ Items = 1 .. Len(items) /\ Len(items) \in Nat
  BY SameItems
<1>2. Parsed' = Parsed \cup {next} /\ next \notin Parsed
  BY <1>1 DEF Parsed
<1>3. Unanswered' = Requests /\ Unanswered = Requests
  <2>1. \A i \in Items : phase[i] = "idle"
    BY DEF IInv, HandlersLate
  <2> QED BY <1>1, <2>1 DEF Unanswered, Requests
<1>4. Collected = (Parsed \cap Answerable) \ Unanswered
  BY CollectedIs
<1>5. Collected' = ((Parsed \cap Answerable) \ Unanswered)'
  <2>1. IInv' => (Collected = (Parsed \cap Answerable) \ Unanswered)'
    BY CollectedIs, PTL
  <2> QED BY <2>1
<1> QED BY <1>1, <1>2, <1>3, <1>4, <1>5

\* Every step of jsonrpc-batch collects one response, sends the collected ones or is
\* invisible.
LEMMA PromiseStep == PromiseInv /\ [Next]_vars => [Promise!Next]_(Promise!vars)
<1> SUFFICES ASSUME PromiseInv, [Next]_vars PROVE Promise!Next \/ UNCHANGED Promise!vars
  OBVIOUS
<1>0. IInv /\ IInv'
  BY IInvStep DEF PromiseInv
<1>1. /\ replies \in Seq(Seq({0} \cup Items)) /\ phase \in [Items -> Phases]
      /\ slots \in Seq({0} \cup Items) /\ class \in Classes
      /\ Requests \subseteq Answerable /\ Answerable \subseteq Items
  BY <1>0 DEF IInv, TypeOK, Requests, Answerable
<1>c. Collected = (Parsed \cap Answerable) \ Unanswered
  BY <1>0, CollectedIs
<1>d. Collected' = ((Parsed \cap Answerable) \ Unanswered)'
  <2>1. IInv' => (Collected = (Parsed \cap Answerable) \ Unanswered)'
    BY CollectedIs, PTL
  <2> QED BY <1>0, <2>1
<1>e. ASSUME items = <<>> PROVE Answerable = {} /\ Collected = {}
  BY <1>c, <1>e DEF Answerable, Items
<1>f. ASSUME items # <<>> PROVE class = "array"
  BY <1>0, <1>f DEF IInv, Shape
<1>2. CASE PassOrDrop \/ Refuse
  <2>1. items = <<>> /\ UNCHANGED <<items, class, ran>> /\ stage = "receive"
    BY <1>0, <1>2 DEF PassOrDrop, Refuse, IInv, Shape
  <2>2. Collected = {} /\ Collected' = {} /\ Answerable = {}
    BY <1>0, <1>d, <1>e, <2>1, SameItems
  <2>3. CASE PassOrDrop
    BY <1>0, <2>1, <2>2, <2>3, Invisible DEF PassOrDrop
  <2>4. CASE Refuse
    <3>1. ReplyDue /\ replies' = Append(replies, PacketError)
      BY <2>4 DEF Refuse, ReplyDue
    <3>2. replies = <<>> /\ ran = {}
      BY <2>1 DEF PromiseInv, FewReplies
    <3>3. Len(replies) < Limit
      BY <3>2, NoReplyNoLength DEF Limit
    <3>4. PacketError \in Seq({0} \cup Items)
      BY DEF PacketError
    <3> QED BY <1>0, <2>1, <2>2, <3>1, <3>3, <3>4, Replying
  <2> QED BY <1>2, <2>3, <2>4
<1>3. CASE Split
  <2>1. UNCHANGED <<items, class, ran, replies, phase, next>>
        /\ stage = "receive" /\ stage' = "parse" /\ next = 1
    BY <1>0, <1>3 DEF Split, IInv, Shape
  <2>2. Parsed = {} /\ Parsed' = {}
    BY <1>0, <2>1, SameItems DEF Parsed
  <2>3. Collected' = Collected
    BY <1>c, <1>d, <2>2
  <2> QED BY <1>0, <2>1, <2>3, Invisible
<1>4. CASE ParseInvalid \/ ParseNotify \/ ParseRequest
  <2>1. /\ UNCHANGED <<items, class, ran, replies, phase>>
        /\ stage = "parse" /\ stage' = "parse" /\ next \in Items /\ next' = next + 1
    BY <1>4 DEF ParseInvalid, ParseNotify, ParseRequest, Parsing
  <2>2. /\ Collected' = Collected \cup ({next} \cap (Answerable \ Requests))
        /\ next \notin Collected
    BY <1>0, <2>1, ParseCollects
  <2>3. CASE next \in Answerable \ Requests
    <3>1. Limit' = Limit
      BY <2>1 DEF Limit
    <3> QED BY <1>0, <2>1, <2>2, <2>3, <3>1, Collecting
  <2>4. CASE next \notin Answerable \ Requests
    BY <1>0, <2>1, <2>2, <2>4, Invisible
  <2> QED BY <2>3, <2>4
<1>5. CASE FinishWithoutCalls
  <2>1. UNCHANGED <<items, class, ran, slots, phase>> /\ stage = "parse" /\ stage' = "done"
    BY <1>5 DEF FinishWithoutCalls
  <2>2. Parsed = Items /\ Parsed' = Items
    BY <1>0, <1>5, SameItems DEF FinishWithoutCalls, Parsed
  <2>3. Requests = {} /\ Unanswered = {} /\ Unanswered' = {}
    <3>1. Requests = {}
      BY <1>0, <1>5, <2>2 DEF FinishWithoutCalls, IInv, CallsExact, Requests
    <3> QED BY <1>0, <2>1, <3>1, SameItems DEF Unanswered
  <2>4. Collected = Answerable /\ Collected' = Collected
    BY <1>0, <1>1, <1>c, <1>d, <2>1, <2>2, <2>3, SameItems
  <2>5. CASE slots = <<>>
    <3>1. replies' = replies
      BY <1>5, <2>5 DEF FinishWithoutCalls
    <3> QED BY <1>0, <2>1, <2>4, <3>1, Invisible
  <2>6. CASE slots # <<>>
    <3>1. replies' = Append(replies, slots)
      BY <1>5, <2>6 DEF FinishWithoutCalls
    <3>2. ReplyDue
      <4>1. 1 \in DOMAIN slots
        BY <1>1, <2>6
      <4>2. PICK i \in Items : slotOf[i] = 1
        BY <1>0, <4>1 DEF IInv, SlotsInOrder
      <4>3. i \in Answerable
        BY <1>0, <4>2 DEF IInv, SlotsInOrder
      <4> QED BY <1>e, <1>f, <4>3 DEF ReplyDue
    <3>3. Len(replies) < Limit
      BY <2>1, NoReplyNoLength DEF PromiseInv, FewReplies, Limit
    <3> QED BY <1>0, <1>1, <2>1, <2>4, <3>1, <3>2, <3>3, Replying
  <2> QED BY <2>5, <2>6
<1>6. CASE Arm \/ FinishDispatch \/ Dispatch
  <2>1. UNCHANGED <<items, class, ran, replies>>
    BY <1>6 DEF Arm, ArmWith, FinishDispatch, Dispatch
  <2>2. Parsed' = Parsed
    <3>1. CASE Arm
      BY <1>0, <3>1, SameItems DEF Arm, ArmWith, Parsed, IInv, Shape
    <3>2. CASE FinishDispatch \/ Dispatch
      BY <1>0, <2>1, <3>2, SameItems DEF FinishDispatch, Dispatch, Parsed
    <3> QED BY <1>6, <3>1, <3>2
  <2>3. Unanswered' = Unanswered
    <3>1. CASE Arm \/ FinishDispatch
      BY <1>0, <2>1, <3>1, SameItems DEF Arm, ArmWith, FinishDispatch, Unanswered
    <3>2. CASE Dispatch
      <4>1. /\ phase' = [phase EXCEPT ![calls[next]] = "waiting"]
            /\ next \in DOMAIN calls /\ stage = "dispatch"
        BY <3>2 DEF Dispatch
      <4>2. calls[next] \in Requests /\ next >= next
        BY <1>0, <4>1 DEF IInv, TypeOK
      <4>3. phase[calls[next]] = "idle"
        BY <1>0, <4>1, <4>2 DEF IInv, CallsExact
      <4> QED BY <1>0, <1>1, <2>1, <4>1, <4>2, <4>3, SameItems DEF Unanswered
    <3> QED BY <1>6, <3>1, <3>2
  <2>4. Collected' = Collected
    BY <1>0, <1>c, <1>d, <2>1, <2>2, <2>3, SameItems
  <2> QED BY <1>0, <2>1, <2>4, Invisible
<1>7. ASSUME NEW t \in Runners, NEW r \in Items, Handler(t, r)
      PROVE  Promise!Next \/ UNCHANGED Promise!vars
  <2>1. /\ r \in Requests /\ stage \in {"dispatch", "done"}
        /\ UNCHANGED <<items, class, stage>>
    BY <1>0, <1>7 DEF Handler, Store, Decrement, TestAndReply, Return, IInv, HandlersLate
  <2>2. /\ Requests' = Requests /\ Answerable' = Answerable
        /\ Parsed = Items /\ Parsed' = Items
    BY <1>0, <2>1, SameItems DEF Parsed
  <2>3. Collected = Answerable \ Unanswered /\ Collected' = Answerable \ Unanswered'
    BY <1>1, <1>c, <1>d, <2>2
  <2>4. CASE Store(t, r)
    <3>1. /\ phase[r] = "waiting" /\ phase' = [phase EXCEPT ![r] = "stored"]
          /\ replies' = replies /\ ran' = ran \cup {t}
      BY <2>4 DEF Store
    <3>2. r \in Unanswered /\ Unanswered' = Unanswered \ {r}
      BY <1>1, <2>1, <2>2, <3>1 DEF Unanswered
    <3>3. Collected' = Collected \cup {r} /\ r \in Answerable \ Collected
      BY <1>1, <2>1, <2>3, <3>2
    <3>4. Limit' \in {Limit, Limit + 1}
      <4>1. IsFiniteSet(ran) /\ Cardinality(ran) \in Nat
        BY <1>0, FiniteThreads
      <4>2. Cardinality(ran') = IF t \in ran THEN Cardinality(ran) ELSE Cardinality(ran) + 1
        BY <3>1, <4>1, FS_AddElement
      <4>3. ran' # {} /\ (ran = {} => Cardinality(ran) = 0 /\ t \notin ran)
        BY <3>1, FS_EmptySet
      <4> QED BY <3>1, <4>1, <4>2, <4>3 DEF Limit
    <3> QED BY <1>0, <2>1, <3>1, <3>3, <3>4, Collecting
  <2>5. CASE Decrement(t, r) \/ TestAndReply(t, r)
    <3>1. /\ phase[r] \in {"stored", "counted"} /\ ran' = ran
          /\ \E p \in {"counted", "done"} : phase' = [phase EXCEPT ![r] = p]
      BY <2>5 DEF Decrement, TestAndReply, Return
    <3>2. Unanswered' = Unanswered
      BY <1>1, <2>1, <2>2, <3>1 DEF Unanswered
    <3>3. Collected' = Collected
      BY <2>3, <3>2
    <3>4. CASE replies' = replies
      BY <1>0, <2>1, <3>1, <3>3, <3>4, Invisible
    <3>5. CASE TestAndReply(t, r) /\ pcount = 0
      <4>1. replies' = Append(replies, slots) /\ phase[r] = "counted"
        BY <3>5 DEF TestAndReply, Return
      <4>2. Uncounted = {}
        <5>1. IsFiniteSet(Uncounted)
          BY <1>0, <2>1, SameItems, FS_Subset DEF Uncounted
        <5>2. calls # <<>>
          BY <1>0, <2>1, <2>2 DEF IInv, CallsExact, Requests
        <5> QED BY <1>0, <2>1, <3>5, <5>1, <5>2, FS_EmptySet DEF IInv, CounterExact
      <4>3. Collected = Answerable
        BY <2>3, <4>2 DEF Unanswered, Uncounted
      <4>4. Len(replies) < Limit
        <5>1. Len(replies) + Cardinality(Counted) <= Cardinality(ran)
          BY <2>1, <4>2 DEF PromiseInv, FewReplies
        <5>2. r \in Counted /\ IsFiniteSet(Counted) /\ Cardinality(Counted) \in Nat
              /\ Cardinality(ran) \in Nat
          BY <1>0, <4>1, FiniteThreads DEF Counted
        <5>3. Cardinality(Counted) # 0
          BY <5>2, FS_EmptySet
        <5>4. Len(replies) \in Nat
          BY <1>1
        <5>5. Cardinality(ran) # 0
          BY <5>1, <5>2, <5>3, <5>4
        <5>6. ran # {}
          BY <5>5, FS_EmptySet
        <5> QED BY <5>1, <5>2, <5>3, <5>4, <5>6 DEF Limit
      <4>5. ReplyDue
        BY <1>1, <1>e, <1>f, <2>1 DEF ReplyDue
      <4> QED BY <1>0, <1>1, <2>1, <3>1, <3>3, <4>1, <4>3, <4>4, <4>5, Replying
    <3> QED BY <2>5, <3>4, <3>5 DEF Decrement, TestAndReply, Return
  <2> QED BY <1>7, <2>4, <2>5 DEF Handler
<1>8. CASE UNCHANGED vars
  <2>1. UNCHANGED <<items, class, stage, next, phase, ran, replies>>
    BY <1>8 DEF vars
  <2>2. Collected' = Collected
    BY <1>0, <1>8, SameItems DEF Collected, vars
  <2> QED BY <1>0, <2>1, <2>2, Invisible
<1> QED BY <1>2, <1>3, <1>4, <1>5, <1>6, <1>7, <1>8 DEF Next, PerformIo, Finished

\* On any number of threads, and for every array: every behaviour of jsonrpc-batch is one
\* that BatchPromise allows. (That it keeps its promise in the end, the fairness of
\* KeepsPromise, is left to the run.)
THEOREM PromiseCorrect == Spec => Promise!Init /\ [][Promise!Next]_(Promise!vars)
<1>1. Init => PromiseInv
  <2> SUFFICES ASSUME Init PROVE PromiseInv
    OBVIOUS
  <2>1. Running /\ RanBusy /\ FewReplies
    BY DEF Init, Running, RanBusy, FewReplies
  <2> QED BY <2>1, IInvInit DEF PromiseInv
<1>2. Init => Promise!Init
  <2> SUFFICES ASSUME Init PROVE Promise!Init
    OBVIOUS
  <2>1. ReplyDue \in BOOLEAN
    BY DEF ReplyDue
  <2>2. Answerable \in SUBSET Nat
    BY IInvInit, ItemsFinite DEF IInv, TypeOK, Answerable
  <2>3. Collected = {}
    BY DEF Init, Collected
  <2>4. ran = {} /\ Len(replies) = 0
    BY NoReplyNoLength DEF Init
  <2> QED BY <2>1, <2>2, <2>3, <2>4 DEF Promise!Init
<1> QED BY <1>1, <1>2, PromiseInvStep, PromiseStep, PTL DEF Spec
=============================================================================
