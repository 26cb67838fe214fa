---------------------------- MODULE StatisticsProofs ----------------------------
(***************************************************************************)
(* The prototypes of jsonrpc-statistics follow its options, and its meters *)
(* are there when they are needed, for every set of calls and methods and  *)
(* any number of reconfigurations.                                         *)
(***************************************************************************)
EXTENDS Statistics, TLAPS

Stages == {"new", "stat", "metered", "measure", "target", "done", "crash"}

Types ==
  /\ writeSize \in BOOLEAN /\ errorStat \in BOOLEAN /\ stat \in BOOLEAN
  /\ msg \in [Calls -> [kind : Kinds, method : Methods]]
  /\ pc \in [Calls -> Stages]
  /\ hasStat \in [Calls -> BOOLEAN]
  /\ wants \in [Calls -> [writeSize : BOOLEAN, errorStat : BOOLEAN]]

\* A call that met no statistics meets none until they come, and then it is in enabled.
Known(c) ==
  pc[c] \in {"stat", "metered"} /\ c \notin enabled /\ ~hasStat[c] => ~stat

\* A call that met statistics has a meter, the one that the options ask for unless they
\* change.
Equipped(c) ==
  /\ pc[c] = "metered" /\ hasStat[c] =>
       /\ meter[c] # NoMeter
       /\ msg[c].kind = "request" /\ c \notin changed =>
            meter[c] = (IF writeSize THEN Sized ELSE Unsized)
  /\ pc[c] = "measure" /\ c \notin enabled => meter[c] # NoMeter

\* MetersFit for one call.
Fits(c) ==
  /\ pc[c] = "measure" /\ msg[c].kind = "request" /\ c \notin changed \cup enabled =>
       meter[c] = (IF wants[c].writeSize THEN Sized ELSE Unsized)
  /\ pc[c] = "crash" => c \in enabled

CallInv(c) == Known(c) /\ Equipped(c) /\ Fits(c)

IInv == Types /\ CacheCoherent /\ \A c \in Calls : CallInv(c)

\* The three kinds of meters are different.
LEMMA MetersDiffer == NoMeter # Sized /\ NoMeter # Unsized /\ Sized # Unsized
  BY DEF NoMeter, Sized, Unsized

\* A call looks among the prototypes that are kept.
LEMMA KeyRange ==
  ASSUME Types, NEW c \in Calls
  PROVE  /\ Key(c) \in Keys
         /\ msg[c].kind = "request" => Key(c)[1] = "request"
  <1>1. msg[c].kind \in {"request", "notify", "other"} /\ msg[c].method \in Methods
    BY KindsAssumption DEF Types
  <1> QED
    BY <1>1 DEF Key, Keys

\* A prototype is a meter, and that of a request is sized when the option says so.
LEMMA PrototypeRange ==
  ASSUME NEW k
  PROVE  /\ Prototype(k) \in Meters \ {NoMeter}
         /\ k[1] = "request" => Prototype(k) = (IF writeSize THEN Sized ELSE Unsized)
  BY MetersDiffer DEF Prototype, Meters

\* At first nothing is kept and no call has begun.
LEMMA InitHolds == Init => IInv
  <1> SUFFICES ASSUME Init PROVE IInv
    OBVIOUS
  <1>1. Types
    BY DEF Init, Types, Stages
  <1>2. CacheCoherent
    BY DEF Init, CacheCoherent, Meters
  <1>3. ASSUME NEW c \in Calls PROVE CallInv(c)
    BY DEF Init, CallInv, Known, Equipped, Fits
  <1> QED
    BY <1>1, <1>2, <1>3 DEF IInv

\* The calls that a step leaves alone.
LEMMA Bystander ==
  ASSUME IInv, NEW q \in Calls, UNCHANGED <<writeSize, stat, msg, changed, enabled>>,
         pc'[q] = pc[q], hasStat'[q] = hasStat[q], meter'[q] = meter[q], wants'[q] = wants[q]
  PROVE  CallInv(q)'
  BY DEF IInv, CallInv, Known, Equipped, Fits

\* Steps that leave the prototypes alone.
LEMMA CacheAlone ==
  ASSUME IInv, UNCHANGED <<writeSize, cache>>, meter' \in [Calls -> Meters]
  PROVE  CacheCoherent'
  BY DEF IInv, CacheCoherent, Prototype

\* A reconfiguration forgets the prototypes that do not follow the new options.
LEMMA ReconfigureHolds == ASSUME IInv, Reconfigure PROVE IInv'
  <1>1. Types'
    BY DEF IInv, Types, Reconfigure, call, Stages
  <1>2. CacheCoherent'
    BY DEF IInv, CacheCoherent, Reconfigure, call, Meters
  <1>3. ASSUME NEW c \in Calls PROVE CallInv(c)'
    <2>1. CallInv(c)
      BY DEF IInv
    <2>2. UNCHANGED <<stat, msg, pc, hasStat, meter, wants, enabled>> /\ changed \subseteq changed'
      BY DEF Reconfigure, call
    <2>3. pc[c] = "metered" => c \in changed'
      BY DEF Reconfigure, Underway
    <2> QED
      BY <2>1, <2>2, <2>3 DEF CallInv, Known, Equipped, Fits
  <1> QED
    BY <1>1, <1>2, <1>3 DEF IInv

\* The statistics come or go.
LEMMA SwitchHolds == ASSUME IInv, Switch PROVE IInv'
  <1>1. Types'
    BY DEF IInv, Types, Switch, call, options, Stages
  <1>2. CacheCoherent'
    BY CacheAlone DEF IInv, CacheCoherent, Switch, call, options
  <1>3. ASSUME NEW c \in Calls PROVE CallInv(c)'
    <2>1. CallInv(c)
      BY DEF IInv
    <2>2. /\ UNCHANGED <<writeSize, msg, pc, hasStat, meter, wants, changed>>
          /\ enabled \subseteq enabled'
      BY DEF Switch, call, options
    <2>3. stat' /\ pc[c] \in {"stat", "metered"} => c \in enabled'
      BY DEF Switch, Underway
    <2> QED
      BY <2>1, <2>2, <2>3 DEF CallInv, Known, Equipped, Fits
  <1> QED
    BY <1>1, <1>2, <1>3 DEF IInv

\* A suspended object passes the message on.
LEMMA PassHolds == ASSUME IInv, NEW c \in Calls, Pass(c) PROVE IInv'
  <1>1. Types'
    BY DEF IInv, Types, Pass, options, Stages
  <1>2. CacheCoherent'
    BY CacheAlone DEF IInv, CacheCoherent, Pass, options
  <1>3. ASSUME NEW q \in Calls PROVE CallInv(q)'
    <2>1. CASE q = c
      BY <2>1 DEF IInv, Types, Pass, CallInv, Known, Equipped, Fits
    <2>2. CASE q # c
      BY <2>2, Bystander DEF IInv, Types, Pass, options, history
    <2> QED
      BY <2>1, <2>2
  <1> QED
    BY <1>1, <1>2, <1>3 DEF IInv

\* The statistics are asked for.
LEMMA GetStatisticsHolds == ASSUME IInv, NEW c \in Calls, GetStatistics(c) PROVE IInv'
  <1>1. Types'
    BY DEF IInv, Types, GetStatistics, options, Stages
  <1>2. CacheCoherent'
    BY CacheAlone DEF IInv, CacheCoherent, GetStatistics, options
  <1>3. ASSUME NEW q \in Calls PROVE CallInv(q)'
    <2>1. CASE q = c
      BY <2>1 DEF IInv, Types, GetStatistics, CallInv, Known, Equipped, Fits
    <2>2. CASE q # c
      BY <2>2, Bystander DEF IInv, Types, GetStatistics, options, history
    <2> QED
      BY <2>1, <2>2
  <1> QED
    BY <1>1, <1>2, <1>3 DEF IInv

\* A meter is made after its prototype.
LEMMA CreateMeterHolds == ASSUME IInv, NEW c \in Calls, CreateMeter(c) PROVE IInv'
  <1> DEFINE k == Key(c)
             p == IF cache[k] = NoMeter THEN Prototype(k) ELSE cache[k]
  <1> USE DEF IInv
  <1>0. UNCHANGED <<writeSize, errorStat, stat, msg, changed, enabled, hasStat, wants>>
    BY DEF CreateMeter, options, history
  <1>1. Types'
    BY <1>0 DEF Types, CreateMeter, Stages
  <1>2. k \in Keys /\ cache[k] \in Meters
    BY KeyRange DEF CacheCoherent
  <1>3. p \in Meters \ {NoMeter} /\ (k[1] # "other" => p = Prototype(k))
    BY <1>2, PrototypeRange DEF CacheCoherent
  <1>4. CacheCoherent'
    <2>1. CASE ~hasStat[c]
      BY <2>1, CacheAlone DEF CacheCoherent, CreateMeter, options
    <2>2. CASE hasStat[c]
      <3>1. cache' = [cache EXCEPT ![k] = p] /\ meter' = [meter EXCEPT ![c] = p]
        BY <2>2 DEF CreateMeter
      <3>2. cache' \in [Keys -> Meters] /\ meter' \in [Calls -> Meters]
        BY <1>2, <1>3, <3>1 DEF CacheCoherent
      <3>3. \A j \in Keys : j[1] # "other" => cache'[j] \in {NoMeter, Prototype(j)}
        BY <1>2, <1>3, <3>1 DEF CacheCoherent
      <3> QED
        BY <1>0, <3>2, <3>3 DEF CacheCoherent, Prototype
    <2> QED
      BY <2>1, <2>2
  <1>5. ASSUME NEW q \in Calls PROVE CallInv(q)'
    <2>1. CASE q = c
      <3>1. pc[c] = "stat" /\ pc'[c] = "metered"
        BY DEF CreateMeter, Types
      <3>2. hasStat[c] => meter'[c] = p
        BY DEF CreateMeter, CacheCoherent
      <3>3. msg[c].kind = "request" => p = (IF writeSize THEN Sized ELSE Unsized)
        BY <1>3, KeyRange, PrototypeRange
      <3>4. Known(c)'
        BY <1>0, <3>1 DEF CallInv, Known
      <3>5. Equipped(c)'
        BY <1>0, <1>3, <3>1, <3>2, <3>3 DEF Equipped
      <3>6. Fits(c)'
        BY <3>1 DEF Fits
      <3> QED
        BY <2>1, <3>4, <3>5, <3>6 DEF CallInv
    <2>2. CASE q # c
      <3>1. pc'[q] = pc[q] /\ meter'[q] = meter[q]
        BY <2>2 DEF CreateMeter, Types, CacheCoherent
      <3> QED
        BY <1>0, <3>1, Bystander
    <2> QED
      BY <2>1, <2>2
  <1> QED
    BY <1>1, <1>4, <1>5

\* The options are read and the message goes on.
LEMMA ForwardHolds == ASSUME IInv, NEW c \in Calls, Forward(c) PROVE IInv'
  <1> USE DEF IInv
  <1>0. UNCHANGED <<writeSize, errorStat, stat, msg, changed, enabled, hasStat, meter, cache>>
    BY DEF Forward, options, history
  <1>1. Types'
    <2>1. [writeSize |-> writeSize, errorStat |-> errorStat].writeSize \in BOOLEAN
      BY DEF Types
    <2>2. errorStat \in BOOLEAN
      BY DEF Types
    <2> QED
      BY <1>0, <2>2 DEF Types, Forward, Stages
  <1>2. CacheCoherent'
    BY <1>0, CacheAlone DEF CacheCoherent
  <1>3. ASSUME NEW q \in Calls PROVE CallInv(q)'
    <2>1. CASE q = c
      <3>1. /\ pc[c] = "metered"
            /\ pc'[c] = (IF (writeSize \/ errorStat) /\ stat THEN "measure" ELSE "target")
            /\ wants'[c].writeSize = writeSize
        BY DEF Forward, Types
      <3>2. Known(c) /\ Equipped(c)
        BY DEF CallInv
      <3>3. pc'[c] = "measure" /\ c \notin enabled => hasStat[c]
        BY <3>1, <3>2 DEF Known, Types
      <3> QED
        BY <1>0, <2>1, <3>1, <3>2, <3>3 DEF CallInv, Known, Equipped, Fits
    <2>2. CASE q # c
      <3>1. pc'[q] = pc[q] /\ wants'[q] = wants[q]
        BY <2>2 DEF Forward, Types
      <3> QED
        BY <1>0, <3>1, Bystander
    <2> QED
      BY <2>1, <2>2
  <1> QED
    BY <1>1, <1>2, <1>3

\* The answer comes.
LEMMA AnswerHolds == ASSUME IInv, NEW c \in Calls, Answer(c) PROVE IInv'
  <1> USE DEF IInv
  <1>0. UNCHANGED <<writeSize, errorStat, stat, msg, changed, enabled, hasStat, meter, wants, cache>>
    BY DEF Answer, options, history
  <1>1. Types'
    BY <1>0 DEF Types, Answer, Stages
  <1>2. CacheCoherent'
    BY <1>0, CacheAlone DEF CacheCoherent
  <1>3. ASSUME NEW q \in Calls PROVE CallInv(q)'
    <2>1. CASE q = c
      <3>1. /\ pc'[c] \in {"done", "crash"}
            /\ pc'[c] = "crash" => pc[c] = "measure" /\ meter[c] = NoMeter
        BY DEF Answer, Types
      <3>2. Equipped(c)
        BY DEF CallInv
      <3> QED
        BY <1>0, <2>1, <3>1, <3>2 DEF CallInv, Known, Equipped, Fits
    <2>2. CASE q # c
      <3>1. pc'[q] = pc[q]
        BY <2>2 DEF Answer, Types
      <3> QED
        BY <1>0, <3>1, Bystander
    <2> QED
      BY <2>1, <2>2
  <1> QED
    BY <1>1, <1>2, <1>3

\* Steps that change nothing.
LEMMA StutterHolds == ASSUME IInv, UNCHANGED vars PROVE IInv'
  <1> USE DEF vars, options, call, results, history
  <1>1. Types'
    BY DEF IInv, Types, Stages
  <1>2. CacheCoherent'
    BY CacheAlone DEF IInv, CacheCoherent
  <1>3. ASSUME NEW q \in Calls PROVE CallInv(q)'
    BY Bystander
  <1> QED
    BY <1>1, <1>2, <1>3 DEF IInv

\* The invariant that the two properties rest on.
THEOREM Invariance == Spec => []IInv
  <1>1. IInv /\ [Next]_vars => IInv'
    BY ReconfigureHolds, SwitchHolds, PassHolds, GetStatisticsHolds, CreateMeterHolds,
       ForwardHolds, AnswerHolds, StutterHolds
       DEF Next, Over
  <1> QED
    BY InitHolds, <1>1, PTL DEF Spec

\* What is kept for a method follows the options, whatever has raced whatever.
THEOREM CoherenceCorrect == Spec => []CacheCoherent
  BY Invariance, PTL DEF IInv

\* A call measures by the meter its options ask for, and a null meter is used only if
\* the statistics came in the middle of the call.
THEOREM MetersCorrect == Spec => []MetersFit
  <1>1. IInv => MetersFit
    BY DEF IInv, CallInv, Fits, MetersFit
  <1> QED
    BY Invariance, <1>1, PTL
=============================================================================
