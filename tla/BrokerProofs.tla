------------------------------ MODULE BrokerProofs ------------------------------
(***************************************************************************)
(* What jsonrpc-broker promises of its configurations, of its routes and   *)
(* of the connections that targets know, for every set of messages,        *)
(* configurations and matchers; that it implements BrokerPromise; and that *)
(* messages go where they are meant to if the matchers say what they mean. *)
(***************************************************************************)
EXTENDS Routing, WellFoundedInduction, TLAPS

Lists == Files \cup {Nothing}
RuleSet == [methods : SUBSET (Methods \cup {All}), target : Targets,
            matcher : Matchers \cup {NoMatcher}]

Types ==
  /\ options \in Files /\ writer \in {"idle", "made", "targets", "reject"}
  /\ applied \in Seq(Lists) /\ Len(applied) \in 1..MaxInstalls
  /\ snapshot \subseteq Targets /\ known \subseteq Targets \cup {Default}
  /\ suspended \in BOOLEAN /\ torn \subseteq Messages \cup {Io}
  /\ io \in {"none", "registering", "open", "closing", "closed"}
  /\ regAt \in 0..Len(applied)
  /\ call \in [Messages -> Calls]
  /\ pc \in [Messages -> {"new", "checked", "scanning", "done"}]
  /\ dest \in [Messages -> Targets \cup {Default, NoTarget, Refused}]
  /\ checked \in [Messages -> 0..Len(applied)]

\* Where the three parts come from while restart replaces them.
Config ==
  /\ targets = TargetsOf(InForce)
  /\ rules = applied[Ruling].rules
  /\ writer # "targets" => reject = InForce.reject
  /\ writer \in {"idle", "made"} => Valid(InForce)
  /\ writer # "idle" => Valid(options)
  /\ writer = "made" => Len(applied) < MaxInstalls
  /\ writer \in {"targets", "reject"} =>
       InForce = options /\ Len(applied) >= 2 /\ \A m \in Messages : checked[m] < Len(applied)

\* What targets know of the connection.
Conn ==
  /\ io # "none" => regAt \in 1..Len(applied)
  /\ Io \notin torn =>
       /\ io = "registering" => known = {Default} /\ regAt = Len(applied)
       /\ io = "open" => known = {Default} \cup TargetsOf(applied[regAt])
       /\ io = "closing" =>
            /\ known = TargetsOf(applied[regAt])
            /\ \E j \in regAt..Len(applied) : snapshot = TargetsOf(applied[j])
  /\ NoGhosts

\* What has become of a message, by the configuration that it was checked with.
Msg(m) ==
  /\ pc[m] = "new" => checked[m] = 0
  /\ pc[m] # "done" => dest[m] = NoTarget
  /\ pc[m] \in {"checked", "scanning"} =>
       checked[m] # 0 /\ ~Rejects(applied[checked[m]].reject, call[m])
  /\ checked[m] # 0 => io \notin {"none", "registering"} /\ regAt <= checked[m]
  /\ checked[m] = 0 => dest[m] \notin Targets
  /\ m \in torn /\ m # Io => pc[m] \in {"scanning", "done"} /\ checked[m] < Len(applied)
  /\ m \notin torn /\ pc[m] = "done" /\ checked[m] # 0 =>
       \E j \in checked[m]..Len(applied) : Allowed(m, checked[m], j)

IInv == Types /\ Config /\ Conn /\ \A m \in Messages : Msg(m)

-----------------------------------------------------------------------------
(* Configurations *)

\* A set of natural numbers has a least element.
LEMMA Least ==
  ASSUME NEW T \in SUBSET Nat, T # {}
  PROVE  \E x \in T : \A y \in T : x <= y
  <1> DEFINE less == {p \in Nat \X Nat : p[1] < p[2]}
  <1>1. IsWellFoundedOn(less, Nat)
    BY NatLessThanWellFounded DEF OpToRel
  <1>0. \A a, b \in Nat : <<a, b>> \in less <=> a < b
    OBVIOUS
  <1> HIDE DEF less
  <1>2. PICK x \in T : \A y \in T : ~(<<y, x>> \in less)
    BY <1>1, WFMin
  <1>3. \A y \in T : x <= y
    <2> TAKE y \in T
    <2>1. x \in Nat /\ y \in Nat
      OBVIOUS
    <2>2. ~(<<y, x>> \in less)
      BY <1>2
    <2>3. ~(y < x)
      BY <1>0, <2>1, <2>2
    <2> QED
      BY <2>1, <2>3
  <1> QED
    BY <1>3

\* Rules name targets.
LEMMA ListTypes ==
  ASSUME NEW f \in Lists
  PROVE  f.rules \in Seq(RuleSet) /\ TargetsOf(f) \subseteq Targets
  <1>1. f.rules \in Seq(RuleSet)
    <2>1. CASE f \in Files
      BY <2>1, FilesAssumption DEF RuleSet
    <2>2. CASE f = Nothing
      BY <2>2 DEF Nothing
    <2> QED
      BY <2>1, <2>2 DEF Lists
  <1>2. \A i \in DOMAIN f.rules : f.rules[i].target \in Targets
    <2> TAKE i \in DOMAIN f.rules
    <2>1. f.rules[i] \in RuleSet
      BY <1>1
    <2> QED
      BY <2>1 DEF RuleSet
  <1> QED
    BY <1>1, <1>2 DEF TargetsOf

\* A message goes to the default target or to one that the rules name.
LEMMA RouteRange ==
  ASSUME NEW f \in Lists, NEW c
  PROVE  Route(f.rules, c) \in TargetsOf(f) \cup {Default}
  <1> DEFINE fit == {i \in DOMAIN f.rules : RuleFits(f.rules[i], c)}
  <1>1. CASE fit = {}
    BY <1>1 DEF Route
  <1>2. CASE fit # {}
    <2>1. DOMAIN f.rules \subseteq Nat
      BY ListTypes
    <2>2. \E i \in fit : \A j \in fit : i <= j
      BY <1>2, <2>1, Least
    <2>3. (CHOOSE i \in fit : \A j \in fit : i <= j) \in fit
      BY <2>2
    <2> HIDE DEF fit
    <2>4. (CHOOSE i \in fit : \A j \in fit : i <= j) \in DOMAIN f.rules
      BY <2>3 DEF fit
    <2>5. Route(f.rules, c) = f.rules[CHOOSE i \in fit : \A j \in fit : i <= j].target
      BY <1>2 DEF Route, fit
    <2> QED
      BY <2>4, <2>5 DEF TargetsOf
  <1> QED
    BY <1>1, <1>2

\* The configurations that have been installed are configurations.
LEMMA AppliedTypes ==
  ASSUME Types
  PROVE  /\ Len(applied) \in Nat \ {0}
         /\ \A i \in 1..Len(applied) : applied[i] \in Lists
         /\ InForce \in Lists
  BY BoundAssumption DEF Types, InForce

\* The three names that are not targets.
LEMMA NoTargets == Default \notin Targets /\ NoTarget \notin Targets /\ Refused \notin Targets
  BY TargetsAssumption

-----------------------------------------------------------------------------
(* Frames: the parts of the invariant that a step leaves alone *)

\* A step that installs nothing.
LEMMA ConfigFrame ==
  ASSUME IInv, UNCHANGED <<options, targets, reject, rules, writer, applied, checked>>
  PROVE  Config'
  BY DEF IInv, Config, InForce, Ruling

\* A step of restart or of a message is nothing to the connection.
LEMMA ConnFrame ==
  ASSUME IInv, UNCHANGED <<io, known, snapshot, regAt, applied>>, Io \in torn => Io \in torn'
  PROVE  Conn'
  BY DEF IInv, Conn, NoGhosts

\* A message that stays where it is.
LEMMA MsgFrame ==
  ASSUME IInv, NEW m \in Messages, UNCHANGED <<call, torn, applied, regAt>>,
         pc'[m] = pc[m], dest'[m] = dest[m], checked'[m] = checked[m],
         io' = io \/ io' \notin {"none", "registering"} \/ io = "none"
  PROVE  Msg(m)'
  BY DEF IInv, Msg, Allowed


-----------------------------------------------------------------------------
(* restart *)

\* At first nothing is installed but what the broker started with.
LEMMA InitHolds == Init => IInv
  <1> SUFFICES ASSUME Init PROVE IInv
    OBVIOUS
  <1>1. PICK s \in Scenarios : options = s[1] /\ call = s[2]
    BY DEF Init
  <1> DEFINE f == IF Valid(options) THEN options ELSE Nothing
  <1>2. options \in Files /\ call \in [Messages -> Calls] /\ f \in Lists
    BY <1>1, CallsAssumption DEF Lists
  <1>3. targets = TargetsOf(f) /\ reject = f.reject /\ rules = f.rules /\ applied = <<f>>
    BY DEF Init
  <1>4. Valid(f)
    BY DEF Valid, Nothing
  <1> HIDE DEF f
  <1>5. Len(applied) = 1 /\ applied[1] = f /\ InForce = f /\ applied \in Seq(Lists)
    BY <1>2, <1>3 DEF InForce
  <1>6. Types
    <2>1. suspended \in BOOLEAN
      BY DEF Init
    <2>2. checked = [m \in Messages |-> 0] /\ 0 \in 0..Len(applied)
      BY <1>5 DEF Init
    <2>3. Len(applied) \in 1..MaxInstalls
      BY <1>5, BoundAssumption
    <2> QED
      BY <1>2, <1>5, <2>1, <2>2, <2>3 DEF Init, Types
  <1>7. Config
    BY <1>3, <1>4, <1>5 DEF Init, Config, Ruling
  <1>8. Conn
    BY DEF Init, Conn, NoGhosts
  <1>9. ASSUME NEW m \in Messages PROVE Msg(m)
    BY NoTargets DEF Init, Msg
  <1> QED
    BY <1>6, <1>7, <1>8, <1>9 DEF IInv

\* New options do no harm until they are installed.
LEMMA ReconfigureHolds == ASSUME IInv, Reconfigure PROVE IInv'
  <1>1. PICK f \in Files : options' = f /\ writer' = IF Valid(f) THEN "made" ELSE "idle"
    BY FilesAssumption DEF Reconfigure, Offered
  <1>2. Types'
    BY <1>1 DEF IInv, Types, Reconfigure, connection, messages
  <1>3. Config'
    BY <1>1 DEF IInv, Config, Reconfigure, messages, InForce, Ruling
  <1>4. Conn'
    BY ConnFrame DEF Reconfigure, connection
  <1>5. ASSUME NEW m \in Messages PROVE Msg(m)'
    BY MsgFrame DEF Reconfigure, connection, messages
  <1> QED
    BY <1>2, <1>3, <1>4, <1>5 DEF IInv

\* Whatever was installed stays in applied, which ends with the new configuration.
LEMMA Installed ==
  ASSUME IInv, InstallTargets
  PROVE  /\ Len(applied') = Len(applied) + 1
         /\ \A i \in 1..Len(applied) : applied'[i] = applied[i]
         /\ applied'[Len(applied) + 1] = options
         /\ applied' \in Seq(Lists) /\ Len(applied') \in 1..MaxInstalls
         /\ Len(applied) \in Nat \ {0}
  <1>1. options \in Lists /\ applied \in Seq(Lists)
    BY DEF IInv, Types, Lists
  <1>2. applied' = Append(applied, options)
    BY DEF InstallTargets
  <1>3. Len(applied) < MaxInstalls /\ Len(applied) \in Nat \ {0}
    BY AppliedTypes DEF IInv, Config, InstallTargets
  <1>4. /\ Len(applied') = Len(applied) + 1
        /\ \A i \in 1..Len(applied) : applied'[i] = applied[i]
        /\ applied'[Len(applied) + 1] = options
        /\ applied' \in Seq(Lists)
    BY <1>1, <1>2
  <1> QED
    BY <1>3, <1>4, BoundAssumption

\* With the targets a configuration comes into force.
LEMMA InstallTargetsHolds == ASSUME IInv, InstallTargets PROVE IInv'
  <1> DEFINE n == Len(applied)
  <1>0. /\ n \in Nat \ {0} /\ Len(applied') = n + 1
        /\ \A i \in 1..n : applied'[i] = applied[i]
        /\ applied'[n + 1] = options
    BY Installed
  <1>1. /\ UNCHANGED <<options, reject, rules, suspended, io, known, snapshot, regAt>>
        /\ UNCHANGED <<call, pc, dest, checked>>
        /\ writer = "made" /\ writer' = "targets" /\ targets' = TargetsOf(options)
        /\ torn' = torn \cup (IF io = "registering" THEN {Io} ELSE {})
    BY DEF InstallTargets, connection, messages
  <1>2. Types'
    BY <1>0, <1>1, Installed DEF IInv, Types
  <1>3. Config'
    <2>1. InForce' = options'
      BY <1>0, <1>1 DEF InForce
    <2>2. Ruling' = n /\ Ruling = n
      BY <1>0, <1>1 DEF Ruling
    <2>3. rules' = applied'[Ruling'].rules
      BY <1>0, <1>1, <2>2 DEF IInv, Config
    <2>4. \A m \in Messages : checked'[m] < Len(applied')
      BY <1>0, <1>1 DEF IInv, Types
    <2> QED
      BY <1>0, <1>1, <2>1, <2>3, <2>4 DEF IInv, Config
  <1>4. Conn'
    <2>1. io # "none" => regAt \in 1..n /\ applied'[regAt] = applied[regAt]
      BY <1>0 DEF IInv, Conn
    <2>2. Io \notin torn' => Io \notin torn /\ io # "registering"
      BY <1>1
    <2>3. ASSUME Io \notin torn', io = "closing"
          PROVE  \E j \in regAt..Len(applied') : snapshot = TargetsOf(applied'[j])
      <3>1. PICK j \in regAt..n : snapshot = TargetsOf(applied[j])
        BY <2>2, <2>3 DEF IInv, Conn
      <3>2. j \in regAt..(n + 1) /\ applied'[j] = applied[j]
        BY <1>0, <2>1, <2>3, <3>1
      <3> QED
        BY <1>0, <3>1, <3>2
    <2>4. ASSUME Io \notin torn', io = "closed"
          PROVE  \E j \in regAt..Len(applied') :
                   known = TargetsOf(applied'[regAt]) \ TargetsOf(applied'[j])
      <3>1. PICK j \in regAt..n : known = TargetsOf(applied[regAt]) \ TargetsOf(applied[j])
        BY <2>2, <2>4 DEF IInv, Conn, NoGhosts
      <3>2. j \in regAt..(n + 1) /\ applied'[j] = applied[j]
        BY <1>0, <2>1, <2>4, <3>1
      <3> QED
        BY <1>0, <2>1, <2>4, <3>1, <3>2
    <2>5. io # "none" => regAt \in 1..Len(applied')
      BY <1>0, <2>1
    <2>6. Io \notin torn' /\ io = "open" => known = {Default} \cup TargetsOf(applied'[regAt])
      BY <2>1, <2>2 DEF IInv, Conn
    <2>7. Io \notin torn' /\ io = "closing" => known = TargetsOf(applied'[regAt])
      BY <2>1, <2>2 DEF IInv, Conn
    <2> QED
      BY <1>1, <2>2, <2>3, <2>4, <2>5, <2>6, <2>7 DEF Conn, NoGhosts
  <1>5. ASSUME NEW m \in Messages PROVE Msg(m)'
    <2>1. Msg(m) /\ checked[m] \in 0..n
      BY DEF IInv, Types
    <2>2. checked[m] # 0 => checked[m] \in 1..n /\ applied'[checked[m]] = applied[checked[m]]
      BY <1>0, <2>1
    <2>3. m \in torn' /\ m # Io => m \in torn /\ pc[m] \in {"scanning", "done"}
      BY <1>1, <2>1 DEF Msg
    <2>4. checked[m] < Len(applied')
      BY <1>0, <2>1
    <2>5. ASSUME m \notin torn', pc[m] = "done", checked[m] # 0
          PROVE  \E j \in checked[m]..Len(applied') : Allowed(m, checked[m], j)'
      <3>1. PICK j \in checked[m]..n : Allowed(m, checked[m], j)
        BY <1>1, <2>1, <2>5 DEF Msg
      <3>2. j \in checked[m]..Len(applied') /\ applied'[j] = applied[j]
        BY <1>0, <2>1, <2>2, <2>5, <3>1
      <3>3. Allowed(m, checked[m], j)'
        BY <1>1, <2>2, <2>5, <3>1, <3>2 DEF Allowed
      <3> QED
        BY <3>2, <3>3
    <2>6. pc[m] \in {"checked", "scanning"} =>
            checked[m] # 0 /\ ~Rejects(applied'[checked[m]].reject, call[m])
      BY <2>1, <2>2 DEF Msg
    <2>7. (pc[m] = "new" => checked[m] = 0) /\ (pc[m] # "done" => dest[m] = NoTarget)
          /\ (checked[m] = 0 => dest[m] \notin Targets)
          /\ (checked[m] # 0 => io \notin {"none", "registering"} /\ regAt <= checked[m])
      BY <2>1 DEF Msg
    <2> QED
      BY <1>1, <2>3, <2>4, <2>5, <2>6, <2>7 DEF Msg
  <1> QED
    BY <1>2, <1>3, <1>4, <1>5 DEF IInv

\* Then the reject list follows.
LEMMA InstallRejectHolds == ASSUME IInv, InstallReject PROVE IInv'
  <1>1. Types'
    BY DEF IInv, Types, InstallReject, connection, messages
  <1>2. Config'
    BY DEF IInv, Config, InstallReject, messages, InForce, Ruling
  <1>3. Conn'
    BY ConnFrame DEF InstallReject, connection
  <1>4. ASSUME NEW m \in Messages PROVE Msg(m)'
    BY MsgFrame DEF InstallReject, connection, messages
  <1> QED
    BY <1>1, <1>2, <1>3, <1>4 DEF IInv

\* The rules are the last; the messages that scan them are torn.
LEMMA InstallRulesHolds == ASSUME IInv, InstallRules PROVE IInv'
  <1>0. /\ UNCHANGED <<options, targets, reject, applied, suspended>>
        /\ UNCHANGED <<io, known, snapshot, regAt, call, pc, dest, checked>>
        /\ writer = "reject" /\ writer' = "idle" /\ rules' = options.rules
        /\ torn' = torn \cup {m \in Messages : pc[m] = "scanning"}
    BY DEF InstallRules, connection, messages
  <1>1. Types'
    BY <1>0 DEF IInv, Types
  <1>2. Config'
    BY <1>0 DEF IInv, Config, InForce, Ruling
  <1>3. Conn'
    BY <1>0, ConnFrame
  <1>4. ASSUME NEW m \in Messages PROVE Msg(m)'
    <2>1. Msg(m) /\ checked[m] < Len(applied)
      BY <1>0 DEF IInv, Config
    <2> QED
      BY <1>0, <2>1 DEF Msg, Allowed
  <1> QED
    BY <1>1, <1>2, <1>3, <1>4 DEF IInv

-----------------------------------------------------------------------------
(* The connection *)

\* The connection comes, and the default target is told.
LEMMA RegIoHolds == ASSUME IInv, RegIo PROVE IInv'
  <1>1. Types'
    BY AppliedTypes DEF IInv, Types, RegIo, config, messages
  <1>2. Config'
    BY ConfigFrame DEF RegIo, config, messages
  <1>3. Conn'
    BY AppliedTypes DEF IInv, Conn, NoGhosts, RegIo, config
  <1>4. ASSUME NEW m \in Messages PROVE Msg(m)'
    BY DEF IInv, Msg, Allowed, RegIo, config, messages
  <1> QED
    BY <1>1, <1>2, <1>3, <1>4 DEF IInv

\* The targets are told of it.
LEMMA RegTargetsHolds == ASSUME IInv, RegTargets PROVE IInv'
  <1>0. /\ UNCHANGED <<options, targets, reject, rules, writer, applied, suspended>>
        /\ UNCHANGED <<snapshot, regAt, call, pc, dest, checked, torn>>
        /\ io = "registering" /\ io' = "open"
    BY DEF RegTargets, config, messages
  <1>1. targets \subseteq Targets
    BY AppliedTypes, ListTypes DEF IInv, Config
  <1>2. Types'
    <2>1. known' \subseteq Targets \cup {Default}
      BY <1>1 DEF RegTargets, IInv, Types
    <2> QED
      BY <1>0, <2>1 DEF IInv, Types
  <1>3. Config'
    BY <1>0, ConfigFrame
  <1>4. Conn'
    <2>1. Io \notin torn => known' = known \cup targets
      BY DEF RegTargets
    <2>2. Io \notin torn => known = {Default} /\ regAt = Len(applied)
      BY <1>0 DEF IInv, Conn
    <2>3. targets = TargetsOf(applied[Len(applied)])
      BY DEF IInv, Config, InForce
    <2> QED
      BY <1>0, <2>1, <2>2, <2>3 DEF IInv, Conn, NoGhosts
  <1>5. ASSUME NEW m \in Messages PROVE Msg(m)'
    BY <1>0, MsgFrame
  <1> QED
    BY <1>2, <1>3, <1>4, <1>5 DEF IInv

\* It goes, and the targets that are to be told are copied.
LEMMA UnregIoHolds == ASSUME IInv, UnregIo PROVE IInv'
  <1>0. /\ UNCHANGED <<options, targets, reject, rules, writer, applied, suspended>>
        /\ UNCHANGED <<regAt, call, pc, dest, checked, torn>>
        /\ io = "open" /\ io' = "closing" /\ known' = known \ {Default} /\ snapshot' = targets
    BY DEF UnregIo, config, messages
  <1>1. regAt \in 1..Len(applied) /\ Len(applied) \in Nat \ {0}
    BY <1>0, AppliedTypes DEF IInv, Conn
  <1>2. targets \subseteq Targets /\ TargetsOf(applied[regAt]) \subseteq Targets
    BY <1>1, AppliedTypes, ListTypes DEF IInv, Config
  <1>3. Types'
    BY <1>0, <1>2 DEF IInv, Types
  <1>4. Config'
    BY <1>0, ConfigFrame
  <1>5. Conn'
    <2>1. Io \notin torn => known' = TargetsOf(applied[regAt])
      BY <1>0, <1>2, NoTargets DEF IInv, Conn
    <2>2. \E j \in regAt..Len(applied) : targets = TargetsOf(applied[j])
      <3>1. Len(applied) \in regAt..Len(applied)
        BY <1>1
      <3>2. targets = TargetsOf(applied[Len(applied)])
        BY DEF IInv, Config, InForce
      <3> QED
        BY <3>1, <3>2
    <2> QED
      BY <1>0, <1>1, <2>1, <2>2 DEF Conn, NoGhosts
  <1>6. ASSUME NEW m \in Messages PROVE Msg(m)'
    BY <1>0, MsgFrame
  <1> QED
    BY <1>3, <1>4, <1>5, <1>6 DEF IInv

\* They are told.
LEMMA UnregTargetsHolds == ASSUME IInv, UnregTargets PROVE IInv'
  <1>0. /\ UNCHANGED <<options, targets, reject, rules, writer, applied, suspended>>
        /\ UNCHANGED <<regAt, call, pc, dest, checked, torn>>
        /\ io = "closing" /\ io' = "closed" /\ known' = known \ snapshot /\ snapshot' = {}
    BY DEF UnregTargets, config, messages
  <1>1. Types'
    BY <1>0 DEF IInv, Types
  <1>2. Config'
    BY <1>0, ConfigFrame
  <1>3. Conn'
    <2>1. ASSUME Io \notin torn
          PROVE  \E j \in regAt..Len(applied) :
                   known' = TargetsOf(applied[regAt]) \ TargetsOf(applied[j])
      <3>1. PICK j \in regAt..Len(applied) : snapshot = TargetsOf(applied[j])
        BY <1>0, <2>1 DEF IInv, Conn
      <3>2. known' = TargetsOf(applied[regAt]) \ TargetsOf(applied[j])
        BY <1>0, <2>1, <3>1 DEF IInv, Conn
      <3> QED
        BY <3>2
    <2> QED
      BY <1>0, <2>1 DEF IInv, Conn, NoGhosts
  <1>4. ASSUME NEW m \in Messages PROVE Msg(m)'
    BY <1>0, MsgFrame
  <1> QED
    BY <1>1, <1>2, <1>3, <1>4 DEF IInv

-----------------------------------------------------------------------------
(* Messages *)

\* The messages that a step leaves alone.
LEMMA Bystander ==
  ASSUME IInv, NEW m \in Messages, UNCHANGED <<call, torn, applied, regAt, io>>,
         NEW q \in Messages, q # m, NEW p, NEW t, NEW k,
         pc' = [pc EXCEPT ![m] = p], dest' \in {dest, [dest EXCEPT ![m] = t]},
         checked' \in {checked, [checked EXCEPT ![m] = k]}
  PROVE  Msg(q)'
  <1>1. pc'[q] = pc[q] /\ dest'[q] = dest[q] /\ checked'[q] = checked[q]
    BY DEF IInv, Types
  <1> QED
    BY <1>1, MsgFrame

\* A message that is not for the rules.
LEMMA PassThroughHolds == ASSUME IInv, NEW m \in Messages, PassThrough(m) PROVE IInv'
  <1>0. /\ UNCHANGED <<options, targets, reject, rules, writer, applied, suspended>>
        /\ UNCHANGED <<io, known, snapshot, regAt, call, checked, torn>>
        /\ pc[m] = "new" /\ pc' = [pc EXCEPT ![m] = "done"]
        /\ dest' = [dest EXCEPT ![m] = Default]
    BY DEF PassThrough, Send, config, connection
  <1>1. Types'
    BY <1>0 DEF IInv, Types
  <1>2. Config'
    BY <1>0, ConfigFrame
  <1>3. Conn'
    BY <1>0, ConnFrame
  <1>4. ASSUME NEW q \in Messages PROVE Msg(q)'
    <2>1. CASE q = m
      BY <1>0, <2>1, NoTargets DEF IInv, Types, Msg
    <2>2. CASE q # m
      BY <1>0, <2>2, Bystander
    <2> QED
      BY <2>1, <2>2
  <1> QED
    BY <1>1, <1>2, <1>3, <1>4 DEF IInv

\* The reject list is the one in force.
LEMMA CheckHolds == ASSUME IInv, NEW m \in Messages, Check(m) PROVE IInv'
  <1> DEFINE n == Len(applied)
             refused == Rejects(reject, call[m])
  <1>0. /\ UNCHANGED <<options, targets, reject, rules, writer, applied, suspended>>
        /\ UNCHANGED <<io, known, snapshot, regAt, call, torn>>
        /\ pc[m] = "new" /\ io = "open" /\ writer \in {"idle", "made"}
        /\ checked' = [checked EXCEPT ![m] = n]
        /\ pc' = [pc EXCEPT ![m] = IF refused THEN "done" ELSE "checked"]
        /\ dest' = IF refused THEN [dest EXCEPT ![m] = Refused] ELSE dest
    BY DEF Check, Send, config, connection, LockFree
  <1>1. n \in Nat \ {0} /\ regAt \in 1..n
    BY <1>0, AppliedTypes DEF IInv, Conn
  <1>2. Types'
    BY <1>0, <1>1 DEF IInv, Types
  <1>3. Config'
    BY <1>0 DEF IInv, Config, InForce, Ruling
  <1>4. Conn'
    BY <1>0, ConnFrame
  <1>5. ASSUME NEW q \in Messages PROVE Msg(q)'
    <2>1. CASE q = m
      <3>1. reject = applied[n].reject
        BY <1>0 DEF IInv, Config, InForce
      <3>2. /\ checked'[m] = n
            /\ pc'[m] = (IF refused THEN "done" ELSE "checked")
            /\ dest'[m] = (IF refused THEN Refused ELSE dest[m])
        BY <1>0 DEF IInv, Types
      <3>3. dest[m] = NoTarget /\ (m \in torn /\ m # Io => FALSE)
        BY <1>0, <2>1 DEF IInv, Msg
      <3>4. refused => Allowed(m, n, n)'
        BY <1>0, <3>1, <3>2 DEF Allowed
      <3>5. n \in n..n
        BY <1>1
      <3> QED
        BY <1>0, <1>1, <2>1, <3>1, <3>2, <3>3, <3>4, <3>5 DEF Msg
    <2>2. CASE q # m
      BY <1>0, <2>2, Bystander
    <2> QED
      BY <2>1, <2>2
  <1> QED
    BY <1>2, <1>3, <1>4, <1>5 DEF IInv

\* A message begins with the rules.
LEMMA ScanHolds == ASSUME IInv, NEW m \in Messages, Scan(m) PROVE IInv'
  <1>0. /\ UNCHANGED <<options, targets, reject, rules, writer, applied, suspended>>
        /\ UNCHANGED <<io, known, snapshot, regAt, call, dest, checked, torn>>
        /\ pc[m] = "checked" /\ pc' = [pc EXCEPT ![m] = "scanning"]
    BY DEF Scan, config, connection
  <1>1. Types'
    BY <1>0 DEF IInv, Types
  <1>2. Config'
    BY <1>0, ConfigFrame
  <1>3. Conn'
    BY <1>0, ConnFrame
  <1>4. ASSUME NEW q \in Messages PROVE Msg(q)'
    <2>1. CASE q = m
      BY <1>0, <2>1 DEF IInv, Types, Msg
    <2>2. CASE q # m
      BY <1>0, <2>2, Bystander
    <2> QED
      BY <2>1, <2>2
  <1> QED
    BY <1>1, <1>2, <1>3, <1>4 DEF IInv

\* The rules that it sees are those in force, or those before.
LEMMA ForwardHolds == ASSUME IInv, NEW m \in Messages, Forward(m) PROVE IInv'
  <1>0. PICK t : /\ dest' = [dest EXCEPT ![m] = t]
                 /\ m \in torn => t \in Targets \cup {Default}
                 /\ m \notin torn => t = Route(rules, call[m])
    BY DEF Forward, Send
  <1>1. /\ UNCHANGED <<options, targets, reject, rules, writer, applied, suspended>>
        /\ UNCHANGED <<io, known, snapshot, regAt, call, checked, torn>>
        /\ pc[m] = "scanning" /\ pc' = [pc EXCEPT ![m] = "done"]
    BY DEF Forward, Send, config, connection
  <1>2. Ruling \in 1..Len(applied) /\ applied[Ruling] \in Lists
    BY AppliedTypes DEF IInv, Types, Config, Ruling
  <1>3. t \in Targets \cup {Default}
    <2>1. Route(rules, call[m]) \in TargetsOf(applied[Ruling]) \cup {Default}
      BY <1>2, RouteRange DEF IInv, Config
    <2> QED
      BY <1>0, <1>2, <2>1, ListTypes
  <1>4. Types'
    BY <1>0, <1>1, <1>3 DEF IInv, Types
  <1>5. Config'
    BY <1>1, ConfigFrame
  <1>6. Conn'
    BY <1>1, ConnFrame
  <1>7. ASSUME NEW q \in Messages PROVE Msg(q)'
    <2>1. CASE q = m
      <3>1. Msg(m) /\ pc'[m] = "done" /\ dest'[m] = t /\ checked[m] \in 0..Len(applied)
        BY <1>0, <1>1 DEF IInv, Types
      <3>2. checked[m] # 0 /\ ~Rejects(applied[checked[m]].reject, call[m])
        BY <1>1, <3>1 DEF Msg
      <3>3. checked[m] <= Ruling
        BY <1>2, <3>1, AppliedTypes DEF IInv, Config, Ruling
      <3>4. Ruling \in checked[m]..Len(applied)
        BY <1>2, <3>1, <3>3
      <3>5. m \notin torn => Allowed(m, checked[m], Ruling)'
        BY <1>0, <1>1, <3>1, <3>2 DEF Allowed, IInv, Config, Ruling
      <3>6. m \notin torn => \E j \in checked[m]..Len(applied) : Allowed(m, checked[m], j)'
        <4>1. Ruling' = Ruling
          BY <1>1 DEF Ruling
        <4> QED
          BY <3>4, <3>5, <4>1
      <3> QED
        BY <1>1, <2>1, <3>1, <3>2, <3>6 DEF Msg
    <2>2. CASE q # m
      BY <1>0, <1>1, <2>2, Bystander
    <2> QED
      BY <2>1, <2>2
  <1> QED
    BY <1>4, <1>5, <1>6, <1>7 DEF IInv

\* Steps that change nothing but the suspension.
LEMMA StutterHolds ==
  ASSUME IInv, UNCHANGED <<config, connection, messages, torn>>, suspended' \in BOOLEAN
  PROVE  IInv'
  <1>0. /\ UNCHANGED <<options, targets, reject, rules, writer, applied, torn>>
        /\ UNCHANGED <<io, known, snapshot, regAt, call, pc, dest, checked>>
    BY DEF config, connection, messages
  <1>1. Types'
    BY <1>0 DEF IInv, Types
  <1>2. Config'
    BY <1>0, ConfigFrame
  <1>3. Conn'
    BY <1>0, ConnFrame
  <1>4. ASSUME NEW q \in Messages PROVE Msg(q)'
    BY <1>0, MsgFrame
  <1> QED
    BY <1>1, <1>2, <1>3, <1>4 DEF IInv

-----------------------------------------------------------------------------
(* Theorems *)

\* The invariant that the properties rest on.
THEOREM Invariance == Spec => []IInv
  <1>1. ASSUME IInv, [Next]_vars PROVE IInv'
    <2>1. CASE Restart
      BY <1>1, <2>1, ReconfigureHolds, InstallTargetsHolds, InstallRejectHolds,
         InstallRulesHolds DEF Restart
    <2>2. CASE Connection
      BY <1>1, <2>2, RegIoHolds, RegTargetsHolds, UnregIoHolds, UnregTargetsHolds
         DEF Connection
    <2>3. ASSUME NEW m \in Messages, Perform(m) PROVE IInv'
      BY <1>1, <2>3, PassThroughHolds, CheckHolds, ScanHolds, ForwardHolds DEF Perform
    <2>4. CASE Suspend
      BY <1>1, <2>4, StutterHolds DEF Suspend, IInv, Types
    <2>5. CASE UNCHANGED vars
      BY <1>1, <2>5, StutterHolds DEF vars, IInv, Types
    <2> QED
      BY <1>1, <2>1, <2>2, <2>3, <2>4, <2>5 DEF Next
  <1> QED
    BY InitHolds, <1>1, PTL DEF Spec

\* The types of the broker, for all constants.
THEOREM TypeCorrect == Spec => []TypeOK
  <1>1. IInv => TypeOK
    <2> SUFFICES ASSUME IInv PROVE TypeOK
      OBVIOUS
    <2>1. targets \subseteq Targets
      BY AppliedTypes, ListTypes DEF IInv, Config
    <2>2. writer # "idle" => Valid(options)
      BY DEF IInv, Config
    <2> QED
      BY <2>1, <2>2 DEF IInv, Types, TypeOK
  <1> QED
    BY Invariance, <1>1, PTL

\* Targets, reject list and rules come from one valid configuration whenever restart
\* does not hold the lock.
THEOREM ConsistentCorrect == Spec => []Consistent
  <1>1. IInv => Consistent
    BY DEF IInv, Config, Consistent, Ruling, InForce
  <1> QED
    BY Invariance, <1>1, PTL

\* A message goes where a configuration sends it that was in force since it was checked.
THEOREM RoutedCorrect == Spec => []Routed
  <1>1. IInv => Routed
    BY DEF IInv, Msg, Routed
  <1> QED
    BY Invariance, <1>1, PTL

\* A target gets no message of a connection that it has not been told of, but by a
\* configuration that is newer than the connection.
THEOREM KnownSenderCorrect == Spec => []KnownSender
  <1>1. IInv => KnownSender
    <2> SUFFICES ASSUME IInv, NEW m \in Messages, io = "open", Io \notin torn,
                        dest[m] \in Targets, dest[m] \notin known
                 PROVE  regAt < Len(applied) /\ dest[m] \notin TargetsOf(applied[regAt])
      BY DEF KnownSender
    <2>1. /\ Msg(m) /\ Len(applied) \in Nat \ {0} /\ regAt \in 1..Len(applied)
          /\ known = {Default} \cup TargetsOf(applied[regAt])
          /\ checked[m] \in 0..Len(applied)
      BY AppliedTypes DEF IInv, Types, Conn
    <2>2. checked[m] # 0 /\ pc[m] = "done" /\ regAt <= checked[m]
      BY <2>1, NoTargets DEF Msg
    <2>3. CASE m \in torn
      <3>1. checked[m] < Len(applied)
        BY <2>1, <2>3 DEF Msg
      <3> QED
        BY <2>1, <2>2, <3>1
    <2>4. CASE m \notin torn
      <3>1. PICK j \in checked[m]..Len(applied) : Allowed(m, checked[m], j)
        BY <2>1, <2>2, <2>4 DEF Msg
      <3>2. j \in 1..Len(applied) /\ regAt <= j
        BY <2>1, <2>2, <3>1
      <3>3. dest[m] = Route(applied[j].rules, call[m])
        BY <3>1, NoTargets DEF Allowed
      <3>4. dest[m] \in TargetsOf(applied[j])
        BY <3>2, <3>3, AppliedTypes, RouteRange, NoTargets DEF IInv
      <3>5. j # regAt
        BY <2>1, <3>4
      <3> QED
        BY <2>1, <3>2, <3>5
    <2> QED
      BY <2>3, <2>4
  <1> QED
    BY Invariance, <1>1, PTL

\* What targets still think open when the connection is closed was taken from the list
\* meanwhile.
THEOREM NoGhostsCorrect == Spec => []NoGhosts
  <1>1. IInv => NoGhosts
    BY DEF IInv, Conn
  <1> QED
    BY Invariance, <1>1, PTL

-----------------------------------------------------------------------------
(* The promise *)

\* What is in force for those who wait for the lock.
LEMMA RulingTypes ==
  ASSUME IInv
  PROVE  /\ Ruling \in 1..Len(applied) /\ applied[Ruling] \in Lists
         /\ rules = applied[Ruling].rules
         /\ LockFree => Ruling = Len(applied) /\ reject = applied[Ruling].reject
  <1>1. Ruling \in 1..Len(applied)
    BY AppliedTypes DEF IInv, Types, Config, Ruling
  <1> QED
    BY <1>1, AppliedTypes DEF IInv, Config, InForce, Ruling, LockFree

\* A message that leaves the place where it is, and the others that stay.
LEMMA StageOfOne ==
  ASSUME IInv, NEW m \in Messages, NEW p, pc' = [pc EXCEPT ![m] = p]
  PROVE  Stage' = [Stage EXCEPT ![m] = IF p \in {"checked", "scanning"} THEN "underway" ELSE p]
  BY DEF IInv, Types, Stage

\* A step that moves nobody and does not replace _rules changes nothing in the promise.
LEMMA Unseen ==
  ASSUME IInv, UNCHANGED <<suspended, call, pc, dest>>, torn' \ {Io} = torn \ {Io},
         applied'[Ruling'] = applied[Ruling]
  PROVE  UNCHANGED Promise!vars
  BY DEF Promise!vars, Stage

\* The first state of the broker is the first state of the promise.
LEMMA PromiseInit == Init => Promise!Init
  <1> SUFFICES ASSUME Init PROVE Promise!Init
    OBVIOUS
  <1> DEFINE f == IF Valid(options) THEN options ELSE Nothing
  <1>1. applied = <<f>> /\ writer = "idle" /\ torn = {}
        /\ pc = [m \in Messages |-> "new"] /\ dest = [m \in Messages |-> NoTarget]
    BY DEF Init
  <1>2. f \in Configurations
    <2>1. options \in Files
      BY CallsAssumption DEF Init
    <2>2. Valid(Nothing)
      BY DEF Valid, Nothing
    <2> QED
      BY <2>1, <2>2 DEF Configurations
  <1>3. applied[Ruling] = f
    BY <1>1 DEF Ruling
  <1>4. suspended \in BOOLEAN /\ call \in [Messages -> Calls]
    BY CallsAssumption DEF Init
  <1>5. Stage = [m \in Messages |-> "new"]
    BY <1>1 DEF Stage
  <1> QED
    BY <1>1, <1>2, <1>3, <1>4, <1>5 DEF Promise!Init

\* restart is seen when the rules are assigned.
LEMMA RestartSeen ==
  ASSUME IInv, Restart
  PROVE  Promise!Replace \/ UNCHANGED Promise!vars
  <1>1. UNCHANGED <<suspended, call, pc, dest>>
    BY DEF Restart, Reconfigure, InstallTargets, InstallReject, InstallRules, messages
  <1>2. CASE Reconfigure
    BY <1>1, <1>2, Unseen DEF Reconfigure, Ruling
  <1>3. CASE InstallTargets
    <2>1. applied' = Append(applied, options) /\ writer = "made" /\ writer' = "targets"
      BY <1>3 DEF InstallTargets
    <2>2. applied \in Seq(Lists) /\ Len(applied) \in Nat \ {0} /\ options \in Lists
      BY AppliedTypes DEF IInv, Types, Lists
    <2>3. Ruling = Len(applied) /\ Ruling' = Len(applied)
      BY <2>1, <2>2 DEF Ruling
    <2>4. applied'[Ruling'] = applied[Ruling]
      BY <2>1, <2>2, <2>3
    <2>5. torn' \ {Io} = torn \ {Io}
      BY <1>3 DEF InstallTargets
    <2> QED
      BY <1>1, <2>4, <2>5, Unseen
  <1>4. CASE InstallReject
    BY <1>1, <1>4, Unseen DEF InstallReject, Ruling
  <1>5. CASE InstallRules
    <2>1. applied' = applied /\ writer' = "idle" /\ writer = "reject"
          /\ torn' = torn \cup {m \in Messages : pc[m] = "scanning"}
      BY <1>5 DEF InstallRules
    <2>2. applied'[Ruling'] = options /\ options \in Configurations
      BY <2>1 DEF IInv, Types, Config, InForce, Ruling, Configurations
    <2>3. Stage' = Stage
      BY <1>1 DEF Stage
    <2>4. PICK ms : ms = {m \in Messages : pc[m] = "scanning"}
      OBVIOUS
    <2>5. ms \in SUBSET {m \in Messages : Stage[m] = "underway"}
      BY <2>4 DEF Stage
    <2>6. torn' \ {Io} = (torn \ {Io}) \cup ms
      BY <2>1, <2>4, IoAssumption
    <2> QED
      BY <1>1, <2>2, <2>3, <2>5, <2>6 DEF Promise!Replace
  <1> QED
    BY <1>2, <1>3, <1>4, <1>5 DEF Restart

\* A message passes by, is refused or let in, begins with the rules, and is sent.
LEMMA PerformSeen ==
  ASSUME IInv, NEW m \in Messages, Perform(m)
  PROVE  \/ Promise!PassBy(m) \/ Promise!Refuse(m) \/ Promise!LetIn(m) \/ Promise!Forward(m)
         \/ UNCHANGED Promise!vars
  <1>1. UNCHANGED <<applied, writer, suspended, call, torn>> /\ applied'[Ruling'] = applied[Ruling]
    BY DEF Perform, PassThrough, Check, Scan, Forward, config, Ruling
  <1>2. m # Io /\ Stage[m] = IF pc[m] \in {"checked", "scanning"} THEN "underway" ELSE pc[m]
    BY IoAssumption DEF Stage
  <1>3. ASSUME NEW t, Send(m, t)
        PROVE  Promise!Send(m, t)
    <2>1. pc' = [pc EXCEPT ![m] = "done"] /\ dest' = [dest EXCEPT ![m] = t]
      BY <1>3 DEF Send
    <2>2. Stage' = [Stage EXCEPT ![m] = "done"]
      BY <2>1, StageOfOne
    <2> QED
      BY <1>1, <2>1, <2>2 DEF Promise!Send
  <1>4. CASE PassThrough(m)
    BY <1>2, <1>3, <1>4 DEF PassThrough, Promise!PassBy
  <1>5. CASE Check(m)
    <2>1. pc[m] = "new" /\ ~suspended /\ HasMethod(call[m]) /\ reject = applied[Ruling].reject
      BY <1>5, RulingTypes DEF Check
    <2>2. CASE Rejects(reject, call[m])
      BY <1>2, <1>3, <1>5, <2>1, <2>2 DEF Check, Promise!Refuse, Promise!Meets
    <2>3. CASE ~Rejects(reject, call[m])
      <3>1. pc' = [pc EXCEPT ![m] = "checked"] /\ UNCHANGED dest
        BY <1>5, <2>3 DEF Check
      <3>2. Stage' = [Stage EXCEPT ![m] = "underway"]
        BY <3>1, StageOfOne
      <3> QED
        BY <1>1, <1>2, <2>1, <2>3, <3>1, <3>2 DEF Promise!LetIn, Promise!Meets
    <2> QED
      BY <2>2, <2>3
  <1>6. CASE Scan(m)
    <2>1. pc[m] = "checked" /\ pc' = [pc EXCEPT ![m] = "scanning"] /\ UNCHANGED dest
      BY <1>6 DEF Scan
    <2>2. Stage' = Stage
      BY <2>1 DEF IInv, Types, Stage
    <2> QED
      BY <1>1, <2>1, <2>2 DEF Promise!vars
  <1>7. CASE Forward(m)
    <2>1. PICK t : Send(m, t) /\ IF m \in torn THEN t \in Targets \cup {Default}
                                 ELSE t = Route(rules, call[m])
      BY <1>7 DEF Forward
    <2>2. Route(rules, call[m]) \in Targets \cup {Default}
      BY RulingTypes, RouteRange, ListTypes
    <2>3. t \in Targets \cup {Default} /\ Promise!Send(m, t)
          /\ (m \in torn \ {Io} \/ t = Route(applied[Ruling].rules, call[m]))
      BY <1>2, <1>3, <2>1, <2>2, RulingTypes
    <2>4. pc[m] = "scanning"
      BY <1>7 DEF Forward
    <2> QED
      BY <1>2, <2>3, <2>4 DEF Promise!Forward
  <1> QED
    BY <1>4, <1>5, <1>6, <1>7 DEF Perform

\* Every step of the broker is a step of its promise, or nothing to it.
THEOREM PromiseCorrect == Spec => KeepsPromise
  <1>1. ASSUME IInv, [Next]_vars
        PROVE  [Promise!Next]_(Promise!vars)
    <2>1. CASE Restart
      BY <1>1, <2>1, RestartSeen DEF Promise!Next
    <2>2. CASE Connection \/ UNCHANGED vars
      <3>1. UNCHANGED <<suspended, call, pc, dest, torn, applied, writer>>
        BY <2>2 DEF Connection, RegIo, RegTargets, UnregIo, UnregTargets, config, messages, vars
      <3> QED
        BY <1>1, <3>1, Unseen DEF Ruling
    <2>3. CASE Suspend
      <3>1. suspended' = ~suspended /\ UNCHANGED <<call, pc, dest, torn, applied, writer>>
        BY <2>3 DEF Suspend, config, messages
      <3> QED
        BY <3>1 DEF Promise!Suspend, Promise!Next, Stage, Ruling
    <2>4. ASSUME NEW m \in Messages, Perform(m)
          PROVE  [Promise!Next]_(Promise!vars)
      BY <1>1, <2>4, PerformSeen DEF Promise!Next
    <2> QED
      BY <1>1, <2>1, <2>2, <2>3, <2>4 DEF Next
  <1> QED
    BY <1>1, PromiseInit, Invariance, PTL DEF Spec, KeepsPromise, Promise!Spec

-----------------------------------------------------------------------------
(* Routes and what the matchers mean *)

\* A rule means a message, if M holds the pairs of a matcher and parameters that it means.
Takes(M, r, c) ==
  /\ r.methods = {} \/ All \in r.methods \/ c.method \in r.methods
  /\ r.matcher = NoMatcher \/ <<r.matcher, c.params>> \in M

\* The first rule that means a message.
FirstToTake(M, rs, c, i) ==
  i \in DOMAIN rs /\ Takes(M, rs[i], c) /\ \A j \in DOMAIN rs : Takes(M, rs[j], c) => i <= j

\* No matcher says that it matches what it does not mean; and each says so of what it does.
NoneTooMany(M, rs, c) == \A i \in DOMAIN rs : RuleFits(rs[i], c) => Takes(M, rs[i], c)
NoneTooFew(M, rs, c) == \A i \in DOMAIN rs : Takes(M, rs[i], c) => RuleFits(rs[i], c)

\* What RoutedAsMeant says, for any meaning of the matchers.
GoesAsMeant(M) ==
  \A m \in Messages \ torn :
    LET rs == InForce.rules
        c  == call[m]
    IN  pc[m] = "done" /\ dest[m] # Refused /\ checked[m] = Len(applied)
        /\ NoneTooMany(M, rs, c)
        => \/ \E i \in DOMAIN rs :
                /\ dest[m] = rs[i].target /\ Takes(M, rs[i], c)
                /\ NoneTooFew(M, rs, c) => FirstToTake(M, rs, c, i)
           \/ /\ dest[m] = Default
              /\ NoneTooFew(M, rs, c) => \A i \in DOMAIN rs : ~Takes(M, rs[i], c)

\* A message goes to the first rule that fits it, or to the default target if none does.
LEMMA RouteIsFirst ==
  ASSUME NEW f \in Lists, NEW c
  PROVE  \/ /\ Route(f.rules, c) = Default
            /\ \A i \in DOMAIN f.rules : ~RuleFits(f.rules[i], c)
         \/ \E i \in DOMAIN f.rules :
              /\ Route(f.rules, c) = f.rules[i].target /\ RuleFits(f.rules[i], c)
              /\ \A j \in DOMAIN f.rules : RuleFits(f.rules[j], c) => i <= j
  <1> DEFINE fit == {i \in DOMAIN f.rules : RuleFits(f.rules[i], c)}
             first == CHOOSE i \in fit : \A j \in fit : i <= j
  <1>1. CASE fit = {}
    BY <1>1 DEF Route
  <1>2. CASE fit # {}
    <2>1. fit \in SUBSET Nat
      BY ListTypes
    <2>2. \E i \in fit : \A j \in fit : i <= j
      BY <1>2, <2>1, Least
    <2>3. first \in fit /\ \A j \in fit : first <= j
      BY <2>2
    <2>4. Route(f.rules, c) = f.rules[first].target
      BY <1>2 DEF Route
    <2> HIDE DEF first
    <2> QED
      BY <2>3, <2>4
  <1> QED
    BY <1>1, <1>2

\* As long as the matchers keep to their meaning, a message goes by the first rule that fits it,
\* and so by a rule that means it.
LEMMA GoesByMeaning ==
  ASSUME NEW M, IInv
  PROVE  GoesAsMeant(M)
  <1> SUFFICES ASSUME NEW m \in Messages \ torn,
                      pc[m] = "done", dest[m] # Refused, checked[m] = Len(applied),
                      NoneTooMany(M, InForce.rules, call[m])
               PROVE  \/ \E i \in DOMAIN InForce.rules :
                           /\ dest[m] = InForce.rules[i].target
                           /\ Takes(M, InForce.rules[i], call[m])
                           /\ NoneTooFew(M, InForce.rules, call[m])
                                => FirstToTake(M, InForce.rules, call[m], i)
                      \/ /\ dest[m] = Default
                         /\ NoneTooFew(M, InForce.rules, call[m])
                              => \A i \in DOMAIN InForce.rules : ~Takes(M, InForce.rules[i], call[m])
    BY DEF GoesAsMeant
  <1>1. Len(applied) \in Nat \ {0} /\ InForce \in Lists
    BY AppliedTypes DEF IInv
  <1>2. PICK j \in checked[m]..Len(applied) : Allowed(m, checked[m], j)
    BY <1>1 DEF IInv, Msg
  <1>3. j = Len(applied)
    BY <1>1, <1>2
  <1>4. dest[m] = Route(InForce.rules, call[m])
    BY <1>2, <1>3 DEF Allowed, InForce
  <1> QED
    BY <1>1, <1>4, RouteIsFirst DEF NoneTooMany, NoneTooFew, FirstToTake

\* The broker's half of RoutedAsMeant: whatever the matchers mean, if they keep to it then
\* so does the broker, over every sequence of reconfigurations. A matcher that fails may
\* keep a message from the rule that means it, but never sends it to another that does not.
THEOREM MeantCorrect == ASSUME NEW M PROVE Spec => []GoesAsMeant(M)
  <1>1. IInv => GoesAsMeant(M)
    BY GoesByMeaning
  <1> QED
    BY Invariance, <1>1, PTL

-----------------------------------------------------------------------------
(* Induction, and functions that are defined by recursion *)

\* What holds of 0, and of n + 1 if of n, holds of every natural number.
LEMMA NumbersInduction ==
  ASSUME NEW T \in SUBSET Nat, 0 \in T, \A n \in T : n + 1 \in T
  PROVE  T = Nat
  <1> SUFFICES ASSUME Nat \ T # {}
               PROVE  FALSE
    OBVIOUS
  <1>1. PICK x \in Nat \ T : \A y \in Nat \ T : x <= y
    BY Least
  <1>2. x # 0 /\ x - 1 \in Nat /\ ~(x <= x - 1)
    OBVIOUS
  <1>3. x - 1 \in T
    BY <1>1, <1>2
  <1>4. (x - 1) + 1 \in T
    BY <1>3
  <1> QED
    BY <1>1, <1>4

\* And of the numbers from 0 to n, if each step up to n carries it on.
LEMMA IntervalInduction ==
  ASSUME NEW n \in Nat, NEW T, 0 \in T, \A i \in 1..n : i - 1 \in T => i \in T
  PROVE  \A i \in 0..n : i \in T
  <1> SUFFICES ASSUME \E i \in 0..n : i \notin T
               PROVE  FALSE
    OBVIOUS
  <1> DEFINE others == {i \in 0..n : i \notin T}
  <1>1. others \in SUBSET Nat /\ others # {}
    OBVIOUS
  <1>2. PICK x \in others : \A y \in others : x <= y
    BY <1>1, Least
  <1>3. x \in 1..n /\ x - 1 \in 0..n /\ ~(x <= x - 1)
    BY <1>2
  <1>4. x - 1 \in T
    BY <1>2, <1>3
  <1> QED
    BY <1>2, <1>3, <1>4

\* What holds of each element if it does of all of a lower rank, holds of every element.
LEMMA RankInduction ==
  ASSUME NEW P, NEW rank \in [P -> Nat], NEW T \in SUBSET P,
         \A p \in P : (\A q \in P : rank[q] < rank[p] => q \in T) => p \in T
  PROVE  T = P
  <1> SUFFICES ASSUME P \ T # {}
               PROVE  FALSE
    OBVIOUS
  <1> DEFINE ranks == {rank[p] : p \in P \ T}
  <1>1. ranks \in SUBSET Nat /\ ranks # {}
    OBVIOUS
  <1>2. PICK x \in ranks : \A y \in ranks : x <= y
    BY <1>1, Least
  <1>3. PICK p \in P \ T : x = rank[p]
    BY <1>2
  <1>4. \A q \in P \ T : rank[p] <= rank[q] /\ rank[q] \in Nat /\ rank[p] \in Nat
    BY <1>2, <1>3
  <1>5. \A q \in P : rank[q] < rank[p] => q \in T
    BY <1>4
  <1> QED
    BY <1>5

\* A step computes the value of an element from those of a lower rank.
Local(P, R, rank, step) ==
  \A p \in P : \A g, h \in [P -> R] :
    (\A q \in P : rank[q] < rank[p] => g[q] = h[q]) => step[p][g] = step[p][h]

\* f is what the step computes of the elements whose rank is below n.
Computed(P, rank, step, f, n) == \A p \in P : rank[p] < n => f[p] = step[p][f]

\* Two functions that a local step computes below n agree there.
LEMMA ComputedOnce ==
  ASSUME NEW P, NEW R, NEW rank \in [P -> Nat], NEW step, Local(P, R, rank, step),
         NEW f \in [P -> R], NEW g \in [P -> R], NEW n \in Nat,
         Computed(P, rank, step, f, n), Computed(P, rank, step, g, n)
  PROVE  \A p \in P : rank[p] < n => f[p] = g[p]
  <1> DEFINE T == {p \in P : rank[p] < n => f[p] = g[p]}
  <1>1. ASSUME NEW p \in P, \A q \in P : rank[q] < rank[p] => q \in T
        PROVE  p \in T
    <2> SUFFICES ASSUME rank[p] < n
                 PROVE  f[p] = g[p]
      OBVIOUS
    <2>1. \A q \in P : rank[q] < rank[p] => rank[q] < n
      OBVIOUS
    <2>2. \A q \in P : rank[q] < rank[p] => f[q] = g[q]
      BY <1>1, <2>1
    <2>3. step[p][f] = step[p][g]
      BY <2>2 DEF Local
    <2> QED
      BY <2>3 DEF Computed
  <1> HIDE DEF T
  <1>2. T \in SUBSET P
    BY DEF T
  <1>3. T = P
    BY <1>1, <1>2, RankInduction
  <1> QED
    BY <1>3 DEF T

\* There is a function that a local step computes everywhere: what a recursive definition
\* defines exists.
Recursive(P, R, rank, step) ==
  /\ rank \in [P -> Nat] /\ step \in [P -> [[P -> R] -> R]] /\ R # {}
  /\ Local(P, R, rank, step)

Solvable(P, R, step) == \E f \in [P -> R] : \A p \in P : f[p] = step[p][f]

LEMMA Recursion ==
  ASSUME NEW P, NEW R, NEW rank, NEW step, Recursive(P, R, rank, step)
  PROVE  Solvable(P, R, step)
  <1>0. rank \in [P -> Nat] /\ step \in [P -> [[P -> R] -> R]] /\ R # {} /\ Local(P, R, rank, step)
    BY DEF Recursive
  <1> DEFINE T == {n \in Nat : \E f \in [P -> R] : Computed(P, rank, step, f, n)}
  <1>1. 0 \in T
    <2> DEFINE f == [p \in P |-> CHOOSE r \in R : TRUE]
    <2>1. f \in [P -> R]
      BY <1>0
    <2>2. Computed(P, rank, step, f, 0)
      BY <1>0 DEF Computed
    <2> QED
      BY <2>1, <2>2
  <1>2. ASSUME NEW n \in T
        PROVE  n + 1 \in T
    <2>1. PICK f \in [P -> R] : Computed(P, rank, step, f, n)
      OBVIOUS
    <2> DEFINE g == [p \in P |-> step[p][f]]
    <2>2. g \in [P -> R]
      BY <1>0
    <2>3. ASSUME NEW p \in P, rank[p] < n + 1
          PROVE  g[p] = step[p][g]
      <3>1. ASSUME NEW q \in P, rank[q] < rank[p]
            PROVE  g[q] = f[q]
        <4>1. rank[q] < n
          BY <1>0, <2>3, <3>1
        <4> QED
          BY <2>1, <4>1 DEF Computed
      <3>2. step[p][g] = step[p][f]
        BY <1>0, <2>2, <3>1 DEF Local
      <3> QED
        BY <3>2
    <2> HIDE DEF g
    <2>4. Computed(P, rank, step, g, n + 1)
      BY <2>3 DEF Computed
    <2> QED
      BY <2>2, <2>4
  <1> HIDE DEF T
  <1>3. T = Nat
    <2>1. T \in SUBSET Nat
      BY DEF T
    <2> QED
      BY <1>1, <1>2, <2>1, NumbersInduction
  <1> DEFINE upTo(n) == CHOOSE f \in [P -> R] : Computed(P, rank, step, f, n)
             F == [p \in P |-> upTo(rank[p] + 1)[p]]
  <1>4. ASSUME NEW n \in Nat
        PROVE  upTo(n) \in [P -> R] /\ Computed(P, rank, step, upTo(n), n)
    BY <1>3 DEF T
  <1> HIDE DEF upTo
  <1>5. F \in [P -> R]
    BY <1>0, <1>4
  <1>6. ASSUME NEW p \in P
        PROVE  F[p] = step[p][F]
    <2> DEFINE f == upTo(rank[p] + 1)
    <2>1. f \in [P -> R] /\ Computed(P, rank, step, f, rank[p] + 1)
      BY <1>0, <1>4
    <2> HIDE DEF f
    <2>2. ASSUME NEW q \in P, rank[q] < rank[p]
          PROVE  f[q] = F[q]
      <3> DEFINE g == upTo(rank[q] + 1)
      <3>1. g \in [P -> R] /\ Computed(P, rank, step, g, rank[q] + 1)
        BY <1>0, <1>4
      <3>2. F[q] = g[q]
        OBVIOUS
      <3> HIDE DEF g, F
      <3>3. Computed(P, rank, step, f, rank[q] + 1)
        <4>1. \A r \in P : rank[r] < rank[q] + 1 => rank[r] < rank[p] + 1
          BY <1>0, <2>2
        <4> QED
          BY <2>1, <4>1 DEF Computed
      <3>4. rank[q] + 1 \in Nat /\ rank[q] < rank[q] + 1
        BY <1>0
      <3> QED
        BY <1>0, <2>1, <3>1, <3>2, <3>3, <3>4, ComputedOnce
    <2>3. step[p][f] = step[p][F]
      BY <1>0, <1>5, <2>1, <2>2 DEF Local
    <2>4. f[p] = step[p][f]
      BY <1>0, <2>1 DEF Computed
    <2>5. F[p] = f[p]
      BY DEF f
    <2> QED
      BY <2>3, <2>4, <2>5
  <1> QED
    BY <1>5, <1>6 DEF Solvable

-----------------------------------------------------------------------------
(* JSON and loops *)

\* What is in a JSON value is JSON, and is nested less deep.
LEMMA JsonKinds ==
  ASSUME NEW p \in Json
  PROVE  /\ p.t \in {"null", "num", "str", "arr", "obj"}
         /\ p.t = "arr" => p.e \in Seq(Json)
         /\ p.t = "obj" => p.m \in Seq(Texts \X Json)
         /\ \A q \in Elements(p) \cup Members(p) : q \in Json /\ Depth[q] < Depth[p]
  <1>1. CASE p = Null
    BY <1>1, JsonAssumption DEF Null, Elements, Members
  <1>2. CASE p = Num
    BY <1>2, JsonAssumption DEF Num, Elements, Members
  <1>3. CASE p \in [t : {"str"}, s : Texts]
    BY <1>3, JsonAssumption DEF Elements, Members
  <1>4. CASE p \in [t : {"arr"}, e : Seq(Json)]
    BY <1>4, JsonAssumption DEF Elements, Members
  <1>5. CASE p \in [t : {"obj"}, m : Seq(Texts \X Json)]
    <2>1. p.t = "obj" /\ p.m \in Seq(Texts \X Json)
      BY <1>5
    <2>2. \A i \in DOMAIN p.m : p.m[i][2] \in Json
      BY <2>1
    <2> QED
      BY <2>1, <2>2, JsonAssumption DEF Elements, Members
  <1> QED
    BY <1>1, <1>2, <1>3, <1>4, <1>5, JsonAssumption

\* A pattern parses if it is no number and everything in it parses.
LEMMA ParsesUnfolds ==
  Parses = [p \in Json |-> p.t # "num" /\ \A q \in Elements(p) \cup Members(p) : Parses[q]]
  <1> DEFINE step == [p \in Json |-> [f \in [Json -> BOOLEAN] |->
                        p.t # "num" /\ \A q \in Elements(p) \cup Members(p) : f[q]]]
             Def(f) == f = [p \in Json |-> p.t # "num" /\ \A q \in Elements(p) \cup Members(p) : f[q]]
  <1>1. step \in [Json -> [[Json -> BOOLEAN] -> BOOLEAN]]
    OBVIOUS
  <1>2. Local(Json, BOOLEAN, Depth, step)
    BY JsonKinds DEF Local
  <1>3. PICK f \in [Json -> BOOLEAN] : \A p \in Json : f[p] = step[p][f]
    <2> HIDE DEF step
    <2>1. Recursive(Json, BOOLEAN, Depth, step)
      BY <1>1, <1>2, JsonAssumption DEF Recursive
    <2>2. Solvable(Json, BOOLEAN, step)
      BY <2>1, Recursion
    <2> QED
      BY <2>2 DEF Solvable
  <1>4. Def(f)
    BY <1>3
  <1>5. Parses = CHOOSE g : Def(g)
    BY DEF Parses
  <1> HIDE DEF Def
  <1>6. Def(Parses)
    BY <1>4, <1>5
  <1> QED
    BY <1>6 DEF Def

\* HasObject is what its recursive definition says.
LEMMA HasObjectUnfolds ==
  HasObject = [p \in Json |-> p.t = "obj" \/ \E q \in Elements(p) : HasObject[q]]
  <1> DEFINE step == [p \in Json |-> [f \in [Json -> BOOLEAN] |->
                        p.t = "obj" \/ \E q \in Elements(p) : f[q]]]
             Def(f) == f = [p \in Json |-> p.t = "obj" \/ \E q \in Elements(p) : f[q]]
  <1>1. step \in [Json -> [[Json -> BOOLEAN] -> BOOLEAN]]
    OBVIOUS
  <1>2. Local(Json, BOOLEAN, Depth, step)
    BY JsonKinds DEF Local
  <1>3. PICK f \in [Json -> BOOLEAN] : \A p \in Json : f[p] = step[p][f]
    <2> HIDE DEF step
    <2>1. Recursive(Json, BOOLEAN, Depth, step)
      BY <1>1, <1>2, JsonAssumption DEF Recursive
    <2>2. Solvable(Json, BOOLEAN, step)
      BY <2>1, Recursion
    <2> QED
      BY <2>2 DEF Solvable
  <1>4. Def(f)
    BY <1>3
  <1>5. HasObject = CHOOSE g : Def(g)
    BY DEF HasObject
  <1> HIDE DEF Def
  <1>6. Def(HasObject)
    BY <1>4, <1>5
  <1> QED
    BY <1>6 DEF Def

\* What is in a pattern is a pattern.
LEMMA PatternParts ==
  ASSUME NEW p \in Patterns
  PROVE  /\ p \in Json /\ p.t \in {"null", "str", "arr", "obj"}
         /\ p.t = "arr" => /\ p.e \in Seq(Json)
                           /\ \A i \in DOMAIN p.e :
                                p.e[i] \in Patterns /\ Depth[p.e[i]] < Depth[p]
         /\ p.t = "obj" => /\ p.m \in Seq(Texts \X Json)
                           /\ \A i \in DOMAIN p.m :
                                p.m[i][2] \in Patterns /\ Depth[p.m[i][2]] < Depth[p]
  <1>1. p \in Json /\ Parses[p]
    BY DEF Patterns
  <1>2. p.t # "num" /\ \A q \in Elements(p) \cup Members(p) : Parses[q]
    BY <1>1, ParsesUnfolds
  <1>3. \A q \in Elements(p) \cup Members(p) : q \in Patterns /\ Depth[q] < Depth[p]
    BY <1>1, <1>2, JsonKinds DEF Patterns
  <1>4. p.t = "arr" => \A i \in DOMAIN p.e : p.e[i] \in Elements(p)
    BY DEF Elements
  <1>5. p.t = "obj" => \A i \in DOMAIN p.m : p.m[i][2] \in Members(p)
    BY DEF Members
  <1> QED
    BY <1>1, <1>2, <1>3, <1>4, <1>5, JsonKinds

PatternDepth == [p \in Patterns |-> Depth[p]]

\* Depths of patterns are numbers.
LEMMA PatternDepths == PatternDepth \in [Patterns -> Nat]
  BY JsonAssumption DEF PatternDepth, Patterns

\* What a loop passes through.
Passes(R, body, start, n, after) ==
  /\ after \in [0..n -> R] /\ after[0] = start
  /\ \A i \in 1..n : after[i] = body[i][after[i - 1]]

\* A loop ends with the last of the values that it passes through.
LEMMA LoopSteps ==
  ASSUME NEW R, NEW n \in Nat, NEW body \in [1..n -> [R -> R]], NEW start \in R
  PROVE  \E after : Passes(R, body, start, n, after) /\ Loop(body, start, n) = after[n]
  <1> DEFINE step == [i \in 0..n |-> [g \in [0..n -> R] |->
                        IF i = 0 THEN start ELSE body[i][g[i - 1]]]]
             Def(f) == f = [i \in 0..n |-> IF i = 0 THEN start ELSE body[i][f[i - 1]]]
             rank == [i \in 0..n |-> i]
  <1>1. step \in [0..n -> [[0..n -> R] -> R]]
    OBVIOUS
  <1>2. Local(0..n, R, rank, step)
    <2> SUFFICES ASSUME NEW i \in 0..n, NEW g \in [0..n -> R], NEW h \in [0..n -> R],
                        \A j \in 0..n : rank[j] < rank[i] => g[j] = h[j]
                 PROVE  step[i][g] = step[i][h]
      BY DEF Local
    <2>1. i # 0 => g[i - 1] = h[i - 1]
      OBVIOUS
    <2> QED
      BY <2>1
  <1>3. PICK f \in [0..n -> R] : \A i \in 0..n : f[i] = step[i][f]
    <2>1. rank \in [0..n -> Nat] /\ R # {}
      OBVIOUS
    <2> HIDE DEF step, rank
    <2>2. Recursive(0..n, R, rank, step)
      BY <1>1, <1>2, <2>1 DEF Recursive
    <2>3. Solvable(0..n, R, step)
      BY <2>2, Recursion
    <2> QED
      BY <2>3 DEF Solvable
  <1>4. Def(f)
    BY <1>3
  <1> DEFINE after == CHOOSE g : Def(g)
  <1>5. Loop(body, start, n) = after[n]
    BY DEF Loop
  <1>6. Def(after)
    <2> HIDE DEF Def
    <2> QED
      BY <1>4
  <1> HIDE DEF after
  <1>7. after = [i \in 0..n |-> IF i = 0 THEN start ELSE body[i][after[i - 1]]]
    BY <1>6
  <1>8. \A i \in 0..n : after[i] \in R
    <2> DEFINE T == {i \in 0..n : after[i] \in R}
    <2>1. 0 \in T
      BY <1>7
    <2>2. ASSUME NEW i \in 1..n, i - 1 \in T
          PROVE  i \in T
      BY <1>7, <2>2
    <2> HIDE DEF T
    <2>3. \A i \in 0..n : i \in T
      BY <2>1, <2>2, IntervalInduction
    <2> QED
      BY <2>3 DEF T
  <1>9. after \in [0..n -> R]
    BY <1>7, <1>8
  <1>10. after[0] = start /\ \A i \in 1..n : after[i] = body[i][after[i - 1]]
    BY <1>7
  <1> QED
    BY <1>5, <1>9, <1>10 DEF Passes

\* What a loop keeps: what is in J[i - 1] before it is done for i is in J[i] after it.
LEMMA LoopInvariant ==
  ASSUME NEW R, NEW n \in Nat, NEW body \in [1..n -> [R -> R]], NEW J \in [0..n -> SUBSET R],
         NEW start \in J[0], \A i \in 1..n : \A r \in J[i - 1] : body[i][r] \in J[i]
  PROVE  Loop(body, start, n) \in J[n]
  <1>1. start \in R
    OBVIOUS
  <1>2. PICK after : Passes(R, body, start, n, after) /\ Loop(body, start, n) = after[n]
    BY <1>1, LoopSteps
  <1> DEFINE T == {i \in 0..n : after[i] \in J[i]}
  <1>3. 0 \in T
    BY <1>2 DEF Passes
  <1>4. ASSUME NEW i \in 1..n, i - 1 \in T
        PROVE  i \in T
    BY <1>2, <1>4 DEF Passes
  <1> HIDE DEF T
  <1>5. \A i \in 0..n : i \in T
    BY <1>3, <1>4, IntervalInduction
  <1> QED
    BY <1>2, <1>5 DEF T

\* Such a loop, as one fact.
Keeps(R, body, start, n, J) ==
  /\ n \in Nat /\ body \in [1..n -> [R -> R]] /\ J \in [0..n -> SUBSET R]
  /\ start \in J[0] /\ \A i \in 1..n : \A r \in J[i - 1] : body[i][r] \in J[i]

\* What a loop keeps at each step holds of its end.
LEMMA LoopKeeps ==
  ASSUME NEW R, NEW body, NEW start, NEW n, NEW J, Keeps(R, body, start, n, J)
  PROVE  Loop(body, start, n) \in J[n]
  BY LoopInvariant DEF Keeps

-----------------------------------------------------------------------------
(* The two loops of the matchers, for any tries: functions of the error so far *)

Search(tries, n) ==
  [i \in 1..n |-> [acc \in Results |-> IF acc.ok THEN acc ELSE tries[i][acc.err]]]

Survey(tries, n) ==
  [i \in 1..n |-> [acc \in Results |-> IF acc.ok THEN tries[i][acc.err] ELSE acc]]

\* No try raises an error, and none takes back the error that it is called with.
Quiet(tries, n) == \A i \in 1..n : ~tries[i][FALSE].err
Lasting(tries, n) == \A i \in 1..n : tries[i][TRUE].err
Wrong(try) == ~try[FALSE].ok /\ ~try[FALSE].err

\* A search ends well only if some try does. It ends without an error if no try raises one,
\* and if it does then it ends well, or every try has ended badly and without an error.
LEMMA SearchFinds ==
  ASSUME NEW n \in Nat, NEW tries \in [1..n -> [BOOLEAN -> Results]], NEW err \in BOOLEAN,
         NEW L, L = Loop(Search(tries, n), Result(FALSE, err), n)
  PROVE  /\ L \in Results
         /\ L.ok => \E i \in 1..n : \E e \in BOOLEAN : tries[i][e].ok
         /\ ~err /\ Quiet(tries, n) => ~L.err
         /\ Lasting(tries, n) /\ ~L.err =>
              ~err /\ (L.ok \/ \A i \in 1..n : Wrong(tries[i]))
  <1> DEFINE body == Search(tries, n)
             Some(i) == \E k \in 1..i : \E e \in BOOLEAN : tries[k][e].ok
             None(i) == \A k \in 1..i : Wrong(tries[k])
             Good(r, i) == /\ r.ok => Some(i)
                           /\ ~err /\ Quiet(tries, n) => ~r.err
                           /\ Lasting(tries, n) /\ ~r.err => ~err /\ (r.ok \/ None(i))
             J == [i \in 0..n |-> {r \in Results : Good(r, i)}]
  <1>0. \A i \in 0..n : \A r : r \in J[i] <=> r \in Results /\ Good(r, i)
    <2> HIDE DEF Good
    <2> QED
      OBVIOUS
  <1>1. body \in [1..n -> [Results -> Results]]
    <2> SUFFICES ASSUME NEW i \in 1..n, NEW acc \in Results
                 PROVE  (IF acc.ok THEN acc ELSE tries[i][acc.err]) \in Results
      BY DEF Search
    <2> QED
      BY DEF Results
  <1>2. Result(FALSE, err) \in J[0]
    <2>1. Result(FALSE, err) \in Results /\ ~Result(FALSE, err).ok /\ Result(FALSE, err).err = err
      BY DEF Result, Results
    <2>2. None(0)
      OBVIOUS
    <2> HIDE DEF Some, None
    <2>3. Good(Result(FALSE, err), 0)
      BY <2>1, <2>2
    <2>4. 0 \in 0..n
      OBVIOUS
    <2> HIDE DEF Good, J
    <2> QED
      BY <1>0, <2>1, <2>3, <2>4
  <1>3. ASSUME NEW i \in 1..n, NEW r \in J[i - 1]
        PROVE  body[i][r] \in J[i]
    <2>0. i - 1 \in 0..n /\ i \in 0..n /\ i \in 1..i /\ 1..i = (1..(i - 1)) \cup {i}
      OBVIOUS
    <2>1. r \in Results /\ Good(r, i - 1)
      <3> HIDE DEF Good, J
      <3> QED
        BY <1>0, <1>3, <2>0
    <2>2. r.ok \in BOOLEAN /\ r.err \in BOOLEAN
      BY <2>1 DEF Results
    <2>3. body[i][r] = IF r.ok THEN r ELSE tries[i][r.err]
      BY <2>1 DEF Search
    <2>4. /\ Some(i - 1) => Some(i)
          /\ \A e \in BOOLEAN : tries[i][e].ok => Some(i)
          /\ None(i - 1) /\ Wrong(tries[i]) => None(i)
      BY <2>0
    <2> HIDE DEF Some, None, body
    <2>5. ASSUME r.ok
          PROVE  body[i][r] \in Results /\ Good(body[i][r], i)
      BY <2>1, <2>3, <2>4, <2>5
    <2>6. ASSUME ~r.ok
          PROVE  body[i][r] \in Results /\ Good(body[i][r], i)
      <3>1. body[i][r] = tries[i][r.err] /\ tries[i][r.err] \in Results
        BY <2>2, <2>3, <2>6
      <3>2. body[i][r].ok => Some(i)
        BY <2>2, <2>4, <3>1
      <3>3. ASSUME ~err, Quiet(tries, n)
            PROVE  ~body[i][r].err
        <4>1. r.err = FALSE
          BY <2>1, <2>2, <3>3
        <4> QED
          BY <3>1, <3>3, <4>1 DEF Quiet
      <3>4. ASSUME Lasting(tries, n), ~body[i][r].err
            PROVE  ~err /\ (body[i][r].ok \/ None(i))
        <4>1. r.err = FALSE
          BY <2>2, <3>1, <3>4 DEF Lasting
        <4>2. ~err /\ None(i - 1)
          BY <2>1, <2>6, <3>4, <4>1
        <4>3. body[i][r].ok \/ Wrong(tries[i])
          BY <3>1, <3>4, <4>1 DEF Wrong
        <4> QED
          BY <2>4, <4>2, <4>3
      <3> QED
        BY <3>1, <3>2, <3>3, <3>4
    <2>7. body[i][r] \in Results /\ Good(body[i][r], i)
      BY <2>5, <2>6
    <2> HIDE DEF Good, J
    <2> QED
      BY <1>0, <2>0, <2>7
  <1>4. J \in [0..n -> SUBSET Results]
    OBVIOUS
  <1>5. Loop(body, Result(FALSE, err), n) \in J[n]
    <2> HIDE DEF body, J
    <2>1. Keeps(Results, body, Result(FALSE, err), n, J)
      BY <1>1, <1>2, <1>3, <1>4 DEF Keeps
    <2> QED
      BY <2>1, LoopKeeps
  <1>6. L \in Results /\ Good(L, n)
    <2> HIDE DEF Good, J, body
    <2>1. n \in 0..n
      OBVIOUS
    <2> QED
      BY <1>0, <1>5, <2>1 DEF body
  <1> QED
    BY <1>6

\* A check of all ends well only if every try does. It ends without an error if no try
\* raises one, and if it does then it ends well, or some try has ended badly and without
\* an error.
LEMMA CheckPasses ==
  ASSUME NEW n \in Nat, NEW tries \in [1..n -> [BOOLEAN -> Results]], NEW err \in BOOLEAN,
         NEW L, L = Loop(Survey(tries, n), Result(TRUE, err), n)
  PROVE  /\ L \in Results
         /\ L.ok => \A i \in 1..n : \E e \in BOOLEAN : tries[i][e].ok
         /\ ~err /\ Quiet(tries, n) => ~L.err
         /\ Lasting(tries, n) /\ ~L.err =>
              ~err /\ (L.ok \/ \E i \in 1..n : Wrong(tries[i]))
  <1> DEFINE body == Survey(tries, n)
             Each(i) == \A k \in 1..i : \E e \in BOOLEAN : tries[k][e].ok
             Missed(i) == \E k \in 1..i : Wrong(tries[k])
             Good(r, i) == /\ r.ok => Each(i)
                           /\ ~err /\ Quiet(tries, n) => ~r.err
                           /\ Lasting(tries, n) /\ ~r.err => ~err /\ (r.ok \/ Missed(i))
             J == [i \in 0..n |-> {r \in Results : Good(r, i)}]
  <1>0. \A i \in 0..n : \A r : r \in J[i] <=> r \in Results /\ Good(r, i)
    <2> HIDE DEF Good
    <2> QED
      OBVIOUS
  <1>1. body \in [1..n -> [Results -> Results]]
    <2> SUFFICES ASSUME NEW i \in 1..n, NEW acc \in Results
                 PROVE  (IF acc.ok THEN tries[i][acc.err] ELSE acc) \in Results
      BY DEF Survey
    <2> QED
      BY DEF Results
  <1>2. Result(TRUE, err) \in J[0]
    <2>1. Result(TRUE, err) \in Results /\ Result(TRUE, err).ok /\ Result(TRUE, err).err = err
      BY DEF Result, Results
    <2>2. Each(0)
      OBVIOUS
    <2> HIDE DEF Each, Missed
    <2>3. Good(Result(TRUE, err), 0)
      BY <2>1, <2>2
    <2>4. 0 \in 0..n
      OBVIOUS
    <2> HIDE DEF Good, J
    <2> QED
      BY <1>0, <2>1, <2>3, <2>4
  <1>3. ASSUME NEW i \in 1..n, NEW r \in J[i - 1]
        PROVE  body[i][r] \in J[i]
    <2>0. i - 1 \in 0..n /\ i \in 0..n /\ i \in 1..i /\ 1..i = (1..(i - 1)) \cup {i}
      OBVIOUS
    <2>1. r \in Results /\ Good(r, i - 1)
      <3> HIDE DEF Good, J
      <3> QED
        BY <1>0, <1>3, <2>0
    <2>2. r.ok \in BOOLEAN /\ r.err \in BOOLEAN
      BY <2>1 DEF Results
    <2>3. body[i][r] = IF r.ok THEN tries[i][r.err] ELSE r
      BY <2>1 DEF Survey
    <2>4. /\ \A e \in BOOLEAN : Each(i - 1) /\ tries[i][e].ok => Each(i)
          /\ Missed(i - 1) \/ Wrong(tries[i]) => Missed(i)
      BY <2>0
    <2> HIDE DEF Each, Missed, body
    <2>5. ASSUME ~r.ok
          PROVE  body[i][r] \in Results /\ Good(body[i][r], i)
      BY <2>1, <2>3, <2>4, <2>5
    <2>6. ASSUME r.ok
          PROVE  body[i][r] \in Results /\ Good(body[i][r], i)
      <3>1. body[i][r] = tries[i][r.err] /\ tries[i][r.err] \in Results
        BY <2>2, <2>3, <2>6
      <3>2. body[i][r].ok => Each(i)
        BY <2>1, <2>2, <2>4, <2>6, <3>1
      <3>3. ASSUME ~err, Quiet(tries, n)
            PROVE  ~body[i][r].err
        <4>1. r.err = FALSE
          BY <2>1, <2>2, <3>3
        <4> QED
          BY <3>1, <3>3, <4>1 DEF Quiet
      <3>4. ASSUME Lasting(tries, n), ~body[i][r].err
            PROVE  ~err /\ (body[i][r].ok \/ Missed(i))
        <4>1. r.err = FALSE
          BY <2>2, <3>1, <3>4 DEF Lasting
        <4>2. ~err
          BY <2>1, <3>4, <4>1
        <4>3. body[i][r].ok \/ Wrong(tries[i])
          BY <3>1, <3>4, <4>1 DEF Wrong
        <4> QED
          BY <2>4, <4>2, <4>3
      <3> QED
        BY <3>1, <3>2, <3>3, <3>4
    <2>7. body[i][r] \in Results /\ Good(body[i][r], i)
      BY <2>5, <2>6
    <2> HIDE DEF Good, J
    <2> QED
      BY <1>0, <2>0, <2>7
  <1>4. J \in [0..n -> SUBSET Results]
    OBVIOUS
  <1>5. Loop(body, Result(TRUE, err), n) \in J[n]
    <2> HIDE DEF body, J
    <2>1. Keeps(Results, body, Result(TRUE, err), n, J)
      BY <1>1, <1>2, <1>3, <1>4 DEF Keeps
    <2> QED
      BY <2>1, LoopKeeps
  <1>6. L \in Results /\ Good(L, n)
    <2> HIDE DEF Good, J, body
    <2>1. n \in 0..n
      OBVIOUS
    <2> QED
      BY <1>0, <1>5, <2>1 DEF body
  <1> QED
    BY <1>6

-----------------------------------------------------------------------------
(* What a matcher says, from what the matchers of its parts say *)

Verdicts == [BOOLEAN -> [Values -> [BOOLEAN -> Results]]]
Matchings == [Patterns -> Verdicts]

\* The elements and the members of a value are values.
LEMMA ValueParts ==
  ASSUME NEW v \in Values
  PROVE  /\ v.t = "arr" => v \in Json /\ v.e \in Seq(Json) /\ \A j \in DOMAIN v.e : v.e[j] \in Values
         /\ v.t = "obj" => /\ v \in Json /\ v.m \in Seq(Texts \X Json)
                           /\ \A j \in DOMAIN v.m : v.m[j][2] \in Values
  <1>1. CASE v = Missing
    BY <1>1 DEF Missing
  <1>2. CASE v \in Json
    <2>1. /\ v.t = "arr" => v.e \in Seq(Json)
          /\ v.t = "obj" => v.m \in Seq(Texts \X Json)
      BY <1>2, JsonKinds
    <2>2. v.t = "arr" => \A j \in DOMAIN v.e : v.e[j] \in Json
      BY <2>1
    <2>3. v.t = "obj" => \A j \in DOMAIN v.m : v.m[j][2] \in Json
      BY <2>1
    <2> QED
      BY <1>2, <2>1, <2>2, <2>3 DEF Values
  <1> QED
    BY <1>1, <1>2 DEF Values

\* A matcher on a value is a function of the error so far.
LEMMA MatchingTypes ==
  ASSUME NEW match \in Matchings, NEW q \in Patterns, NEW inner \in BOOLEAN, NEW v \in Values
  PROVE  match[q][inner][v] \in [BOOLEAN -> Results]
  BY DEF Matchings, Verdicts

\* variant_match: fits if an alternative does. Without an error at the end there was none at
\* the start, and it has fitted or every alternative was wrong without an error.
LEMMA VariantTries ==
  ASSUME NEW match \in Matchings, NEW p \in Patterns, p.t = "arr",
         NEW v \in Values, NEW err \in BOOLEAN,
         NEW L, L = VariantMatch(match, p, v, err)
  PROVE  /\ L \in Results
         /\ L.ok => \E i \in DOMAIN p.e : \E e \in BOOLEAN : match[p.e[i]][TRUE][v][e].ok
         /\ ~err /\ (\A i \in DOMAIN p.e : ~match[p.e[i]][TRUE][v][FALSE].err) => ~L.err
         /\ (\A i \in DOMAIN p.e : match[p.e[i]][TRUE][v][TRUE].err) /\ ~L.err =>
              ~err /\ (L.ok \/ \A i \in DOMAIN p.e : Wrong(match[p.e[i]][TRUE][v]))
  <1> DEFINE n == Len(p.e)
             tries == [i \in 1..n |-> match[p.e[i]][TRUE][v]]
  <1>1. n \in Nat /\ DOMAIN p.e = 1..n /\ \A i \in 1..n : p.e[i] \in Patterns
    BY PatternParts
  <1>2. tries \in [1..n -> [BOOLEAN -> Results]]
    BY <1>1, MatchingTypes
  <1>3. \A i \in 1..n : tries[i] = match[p.e[i]][TRUE][v]
    OBVIOUS
  <1>4. L = Loop(Search(tries, n), Result(FALSE, err), n)
    BY <1>1 DEF VariantMatch, Search
  <1> HIDE DEF n, tries
  <1>5. /\ L \in Results
        /\ L.ok => \E i \in 1..n : \E e \in BOOLEAN : tries[i][e].ok
        /\ ~err /\ Quiet(tries, n) => ~L.err
        /\ Lasting(tries, n) /\ ~L.err => ~err /\ (L.ok \/ \A i \in 1..n : Wrong(tries[i]))
    BY <1>1, <1>2, <1>4, SearchFinds
  <1> QED
    BY <1>1, <1>3, <1>5 DEF Quiet, Lasting

\* The inner loop of array_match: the same of the elements of the value for one pattern.
LEMMA FoundTries ==
  ASSUME NEW match \in Matchings, NEW q \in Patterns,
         NEW v \in Values, v.t = "arr", NEW err \in BOOLEAN,
         NEW L, L = Found(match, q, v, err)
  PROVE  /\ L \in Results
         /\ L.ok => \E j \in DOMAIN v.e : \E e \in BOOLEAN : match[q][FALSE][v.e[j]][e].ok
         /\ ~err /\ (\A j \in DOMAIN v.e : ~match[q][FALSE][v.e[j]][FALSE].err) => ~L.err
         /\ (\A j \in DOMAIN v.e : match[q][FALSE][v.e[j]][TRUE].err) /\ ~L.err =>
              ~err /\ (L.ok \/ \A j \in DOMAIN v.e : Wrong(match[q][FALSE][v.e[j]]))
  <1> DEFINE n == Len(v.e)
             tries == [j \in 1..n |-> match[q][FALSE][v.e[j]]]
  <1>1. n \in Nat /\ DOMAIN v.e = 1..n /\ \A j \in 1..n : v.e[j] \in Values
    BY ValueParts
  <1>2. tries \in [1..n -> [BOOLEAN -> Results]]
    BY <1>1, MatchingTypes
  <1>3. \A j \in 1..n : tries[j] = match[q][FALSE][v.e[j]]
    OBVIOUS
  <1>4. L = Loop(Search(tries, n), Result(FALSE, err), n)
    BY <1>1 DEF Found, Search
  <1> HIDE DEF n, tries
  <1>5. /\ L \in Results
        /\ L.ok => \E j \in 1..n : \E e \in BOOLEAN : tries[j][e].ok
        /\ ~err /\ Quiet(tries, n) => ~L.err
        /\ Lasting(tries, n) /\ ~L.err => ~err /\ (L.ok \/ \A j \in 1..n : Wrong(tries[j]))
    BY <1>1, <1>2, <1>4, SearchFinds
  <1> QED
    BY <1>1, <1>3, <1>5 DEF Quiet, Lasting

\* array_match: fits if each pattern has an element; without an error at the end it fits or
\* some pattern has none.
LEMMA ArrayTries ==
  ASSUME NEW match \in Matchings, NEW p \in Patterns, p.t = "arr",
         NEW v \in Values, NEW err \in BOOLEAN,
         NEW L, L = ArrayMatch(match, p, v, err)
  PROVE  /\ L \in Results
         /\ L.ok => /\ v.t = "arr"
                    /\ \A i \in DOMAIN p.e : \E j \in DOMAIN v.e : \E e \in BOOLEAN :
                         match[p.e[i]][FALSE][v.e[j]][e].ok
         /\ ~err /\ (v.t = "arr" => \A i \in DOMAIN p.e : \A j \in DOMAIN v.e :
                                      ~match[p.e[i]][FALSE][v.e[j]][FALSE].err) => ~L.err
         /\ (v.t = "arr" => \A i \in DOMAIN p.e : \A j \in DOMAIN v.e :
                              match[p.e[i]][FALSE][v.e[j]][TRUE].err) /\ ~L.err =>
              /\ ~err
              /\ L.ok \/ v.t # "arr"
                 \/ \E i \in DOMAIN p.e : \A j \in DOMAIN v.e : Wrong(match[p.e[i]][FALSE][v.e[j]])
  <1>1. CASE v.t # "arr" \/ err
    <2>1. L = Result(FALSE, err)
      BY <1>1 DEF ArrayMatch
    <2>2. L \in Results /\ ~L.ok /\ L.err = err
      BY <2>1 DEF Result, Results
    <2> QED
      BY <1>1, <2>2
  <1>2. CASE v.t = "arr" /\ ~err
    <2> DEFINE n == Len(p.e)
               tries == [i \in 1..n |-> [e \in BOOLEAN |-> Found(match, p.e[i], v, e)]]
    <2>1. n \in Nat /\ DOMAIN p.e = 1..n /\ \A i \in 1..n : p.e[i] \in Patterns
      BY PatternParts
    <2>2. tries \in [1..n -> [BOOLEAN -> Results]]
      <3>1. \A i \in 1..n : \A e \in BOOLEAN : Found(match, p.e[i], v, e) \in Results
        BY <1>2, <2>1, FoundTries
      <3> QED
        BY <3>1
    <2>3. \A i \in 1..n : \A e \in BOOLEAN : tries[i][e] = Found(match, p.e[i], v, e)
      OBVIOUS
    <2>4. L = Loop(Survey(tries, n), Result(TRUE, err), n)
      <3>1. \A i \in 1..n : \A acc \in Results : acc.err \in BOOLEAN
        BY DEF Results
      <3>2. [i \in DOMAIN p.e |-> [acc \in Results |->
               IF acc.ok THEN Found(match, p.e[i], v, acc.err) ELSE acc]] = Survey(tries, n)
        BY <2>1, <3>1 DEF Survey
      <3> QED
        BY <1>2, <3>2 DEF ArrayMatch
    <2> HIDE DEF n, tries
    <2>5. /\ L \in Results
          /\ L.ok => \A i \in 1..n : \E e \in BOOLEAN : tries[i][e].ok
          /\ Quiet(tries, n) => ~L.err
          /\ Lasting(tries, n) /\ ~L.err => L.ok \/ \E i \in 1..n : Wrong(tries[i])
      BY <1>2, <2>1, <2>2, <2>4, CheckPasses
    <2>6. ASSUME L.ok, NEW i \in DOMAIN p.e
          PROVE  \E j \in DOMAIN v.e : \E e \in BOOLEAN : match[p.e[i]][FALSE][v.e[j]][e].ok
      <3>1. PICK e \in BOOLEAN : tries[i][e].ok
        BY <2>1, <2>5, <2>6
      <3>2. p.e[i] \in Patterns /\ Found(match, p.e[i], v, e).ok
        BY <2>1, <2>3, <3>1
      <3>3. PICK q \in Patterns : q = p.e[i]
        BY <3>2
      <3>4. Found(match, q, v, e).ok =>
              \E j \in DOMAIN v.e : \E x \in BOOLEAN : match[q][FALSE][v.e[j]][x].ok
        BY <1>2, FoundTries
      <3> QED
        BY <3>2, <3>3, <3>4
    <2>7. ASSUME \A i \in DOMAIN p.e : \A j \in DOMAIN v.e :
                   ~match[p.e[i]][FALSE][v.e[j]][FALSE].err
          PROVE  ~L.err
      <3>1. ASSUME NEW i \in 1..n
            PROVE  ~tries[i][FALSE].err
        <4>1. PICK q \in Patterns : q = p.e[i]
          BY <2>1
        <4>2. \A j \in DOMAIN v.e : ~match[q][FALSE][v.e[j]][FALSE].err
          BY <2>1, <2>7, <4>1
        <4>3. ~Found(match, q, v, FALSE).err
          BY <1>2, <4>2, FoundTries
        <4> QED
          BY <2>3, <4>1, <4>3
      <3> QED
        BY <2>5, <3>1 DEF Quiet
    <2>9. ASSUME \A i \in DOMAIN p.e : \A j \in DOMAIN v.e :
                   match[p.e[i]][FALSE][v.e[j]][TRUE].err,
                 ~L.err
          PROVE  L.ok \/ \E i \in DOMAIN p.e : \A j \in DOMAIN v.e :
                            Wrong(match[p.e[i]][FALSE][v.e[j]])
      <3>1. ASSUME NEW i \in 1..n
            PROVE  /\ tries[i][TRUE].err
                   /\ Wrong(tries[i]) => \A j \in DOMAIN v.e : Wrong(match[p.e[i]][FALSE][v.e[j]])
        <4>1. PICK q \in Patterns : q = p.e[i]
          BY <2>1
        <4>2. \A j \in DOMAIN v.e : match[q][FALSE][v.e[j]][TRUE].err
          BY <2>1, <2>9, <4>1
        <4>3. Found(match, q, v, TRUE).err
          BY <1>2, <4>2, FoundTries
        <4>4. ~Found(match, q, v, FALSE).err /\ ~Found(match, q, v, FALSE).ok =>
                \A j \in DOMAIN v.e : Wrong(match[q][FALSE][v.e[j]])
          BY <1>2, <4>2, FoundTries
        <4> QED
          BY <2>3, <4>1, <4>3, <4>4 DEF Wrong
      <3> QED
        BY <2>1, <2>5, <2>9, <3>1 DEF Lasting
    <2>8. L.ok => \A i \in DOMAIN p.e : \E j \in DOMAIN v.e : \E e \in BOOLEAN :
                    match[p.e[i]][FALSE][v.e[j]][e].ok
      BY <2>6
    <2> QED
      BY <1>2, <2>5, <2>7, <2>8, <2>9
  <1> QED
    BY <1>1, <1>2

\* The inner loop of object_match, for one member of the pattern; an error ends it.
LEMMA MemberTries ==
  ASSUME NEW match \in Matchings, NEW q, q[2] \in Patterns, NEW leaf,
         NEW v \in Values, v.t = "obj", NEW err \in BOOLEAN,
         NEW L, L = MemberFound(match, leaf, q, v, err)
  PROVE  /\ L \in Results
         /\ L.ok => \E j \in DOMAIN v.m : \E e \in BOOLEAN :
                      TextFits(leaf, q[1], v.m[j][1]) /\ match[q[2]][FALSE][v.m[j][2]][e].ok
         /\ ~L.err => /\ ~err
                      /\ L.ok \/ \A j \in DOMAIN v.m : TextFits(leaf, q[1], v.m[j][1]) =>
                                   Wrong(match[q[2]][FALSE][v.m[j][2]])
  <1> DEFINE n == Len(v.m)
             try(j, e) == IF e \/ ~TextFits(leaf, q[1], v.m[j][1]) THEN Result(FALSE, e)
                          ELSE match[q[2]][FALSE][v.m[j][2]][e]
             tries == [j \in 1..n |-> [e \in BOOLEAN |-> try(j, e)]]
             loop(j, acc) == IF acc.ok \/ acc.err \/ ~TextFits(leaf, q[1], v.m[j][1]) THEN acc
                             ELSE match[q[2]][FALSE][v.m[j][2]][acc.err]
  <1>1. n \in Nat /\ DOMAIN v.m = 1..n /\ \A j \in 1..n : v.m[j][2] \in Values
    BY ValueParts
  <1>2. \A j \in 1..n : \A e \in BOOLEAN :
          try(j, e) \in Results
          /\ (try(j, e).ok => TextFits(leaf, q[1], v.m[j][1]) /\ match[q[2]][FALSE][v.m[j][2]][e].ok)
          /\ (e => try(j, e).err)
          /\ (TextFits(leaf, q[1], v.m[j][1]) /\ ~e => try(j, e) = match[q[2]][FALSE][v.m[j][2]][e])
    <2> SUFFICES ASSUME NEW j \in 1..n, NEW e \in BOOLEAN
                 PROVE  try(j, e) \in Results
                        /\ (try(j, e).ok => TextFits(leaf, q[1], v.m[j][1])
                                            /\ match[q[2]][FALSE][v.m[j][2]][e].ok)
                        /\ (e => try(j, e).err)
                        /\ (TextFits(leaf, q[1], v.m[j][1]) /\ ~e =>
                              try(j, e) = match[q[2]][FALSE][v.m[j][2]][e])
      OBVIOUS
    <2>1. match[q[2]][FALSE][v.m[j][2]][e] \in Results
      <3>1. PICK w \in Values : w = v.m[j][2]
        BY <1>1
      <3>2. match[q[2]][FALSE][w] \in [BOOLEAN -> Results]
        BY MatchingTypes
      <3> QED
        BY <3>1, <3>2
    <2>2. Result(FALSE, e) \in Results /\ ~Result(FALSE, e).ok /\ Result(FALSE, e).err = e
      BY DEF Result, Results
    <2> QED
      BY <2>1, <2>2
  <1>3. \A acc \in Results : acc.err \in BOOLEAN /\ acc.ok \in BOOLEAN
                             /\ (~acc.ok => acc = Result(FALSE, acc.err))
    BY DEF Result, Results
  <1>4. \A j \in 1..n : \A acc \in Results :
          loop(j, acc) = IF acc.ok THEN acc ELSE try(j, acc.err)
    BY <1>3
  <1>5. L = Loop([j \in 1..n |-> [acc \in Results |-> loop(j, acc)]], Result(FALSE, err), n)
    BY <1>1 DEF MemberFound
  <1> HIDE DEF n, try, loop
  <1>6. tries \in [1..n -> [BOOLEAN -> Results]]
    BY <1>2
  <1>7. [j \in 1..n |-> [acc \in Results |-> loop(j, acc)]] = Search(tries, n)
    BY <1>3, <1>4 DEF Search
  <1>8. \A j \in 1..n : \A e \in BOOLEAN : tries[j][e] = try(j, e)
    OBVIOUS
  <1> HIDE DEF tries
  <1>9. n \in Nat /\ L = Loop(Search(tries, n), Result(FALSE, err), n)
    BY <1>1, <1>5, <1>7
  <1>10. /\ L \in Results
         /\ L.ok => \E j \in 1..n : \E e \in BOOLEAN : tries[j][e].ok
         /\ Lasting(tries, n) /\ ~L.err => ~err /\ (L.ok \/ \A j \in 1..n : Wrong(tries[j]))
    BY <1>6, <1>9, SearchFinds
  <1>11. Lasting(tries, n)
    BY <1>2, <1>8 DEF Lasting
  <1>12. ASSUME NEW j \in 1..n, Wrong(tries[j]), TextFits(leaf, q[1], v.m[j][1])
         PROVE  Wrong(match[q[2]][FALSE][v.m[j][2]])
    <2>1. tries[j][FALSE] = match[q[2]][FALSE][v.m[j][2]][FALSE]
      BY <1>2, <1>8, <1>12
    <2> QED
      BY <1>12, <2>1 DEF Wrong
  <1>13. ASSUME L.ok
         PROVE  \E j \in DOMAIN v.m : \E e \in BOOLEAN :
                  TextFits(leaf, q[1], v.m[j][1]) /\ match[q[2]][FALSE][v.m[j][2]][e].ok
    <2>1. PICK j \in 1..n, e \in BOOLEAN : tries[j][e].ok
      BY <1>10, <1>13
    <2>2. TextFits(leaf, q[1], v.m[j][1]) /\ match[q[2]][FALSE][v.m[j][2]][e].ok
      BY <1>2, <1>8, <2>1
    <2> QED
      BY <1>1, <2>2
  <1> QED
    BY <1>1, <1>10, <1>11, <1>12, <1>13

\* object_match: fits if each member of the pattern has one by name and value; without an
\* error at the end the value was an object, and it fits or some member of the pattern has none.
LEMMA ObjectTries ==
  ASSUME NEW match \in Matchings, NEW p \in Patterns, p.t = "obj", NEW leaf,
         NEW v \in Values, NEW err \in BOOLEAN,
         NEW L, L = ObjectMatch(match, leaf, p, v, err)
  PROVE  /\ L \in Results
         /\ L.ok => /\ v.t = "obj"
                    /\ \A i \in DOMAIN p.m : \E j \in DOMAIN v.m : \E e \in BOOLEAN :
                         /\ TextFits(leaf, p.m[i][1], v.m[j][1])
                         /\ match[p.m[i][2]][FALSE][v.m[j][2]][e].ok
         /\ ~L.err => /\ v.t = "obj" /\ ~err
                      /\ L.ok \/ \E i \in DOMAIN p.m : \A j \in DOMAIN v.m :
                                   TextFits(leaf, p.m[i][1], v.m[j][1]) =>
                                     Wrong(match[p.m[i][2]][FALSE][v.m[j][2]])
  <1>1. CASE v.t # "obj" \/ err
    <2>1. L = Result(FALSE, TRUE)
      BY <1>1 DEF ObjectMatch
    <2>2. L \in Results /\ ~L.ok /\ L.err
      BY <2>1 DEF Result, Results
    <2> QED
      BY <2>2
  <1>2. CASE v.t = "obj" /\ ~err
    <2> DEFINE n == Len(p.m)
               tries == [i \in 1..n |-> [e \in BOOLEAN |-> MemberFound(match, leaf, p.m[i], v, e)]]
    <2>1. n \in Nat /\ DOMAIN p.m = 1..n /\ \A i \in 1..n : p.m[i][2] \in Patterns
      BY PatternParts
    <2>2. tries \in [1..n -> [BOOLEAN -> Results]]
      <3>1. \A i \in 1..n : \A e \in BOOLEAN : MemberFound(match, leaf, p.m[i], v, e) \in Results
        BY <1>2, <2>1, MemberTries
      <3> QED
        BY <3>1
    <2>3. \A i \in 1..n : \A e \in BOOLEAN : tries[i][e] = MemberFound(match, leaf, p.m[i], v, e)
      OBVIOUS
    <2>4. L = Loop(Survey(tries, n), Result(TRUE, err), n)
      <3>1. \A i \in 1..n : \A acc \in Results : acc.err \in BOOLEAN
        BY DEF Results
      <3>2. [i \in DOMAIN p.m |-> [acc \in Results |->
               IF acc.ok THEN MemberFound(match, leaf, p.m[i], v, acc.err) ELSE acc]]
            = Survey(tries, n)
        BY <2>1, <3>1 DEF Survey
      <3> QED
        BY <1>2, <3>2 DEF ObjectMatch
    <2> HIDE DEF n, tries
    <2>5. /\ L \in Results
          /\ L.ok => \A i \in 1..n : \E e \in BOOLEAN : tries[i][e].ok
          /\ Lasting(tries, n) /\ ~L.err => L.ok \/ \E i \in 1..n : Wrong(tries[i])
      BY <1>2, <2>1, <2>2, <2>4, CheckPasses
    <2>6. ASSUME L.ok, NEW i \in DOMAIN p.m
          PROVE  \E j \in DOMAIN v.m : \E e \in BOOLEAN :
                   /\ TextFits(leaf, p.m[i][1], v.m[j][1])
                   /\ match[p.m[i][2]][FALSE][v.m[j][2]][e].ok
      <3>1. PICK e \in BOOLEAN : tries[i][e].ok
        BY <2>1, <2>5, <2>6
      <3>2. MemberFound(match, leaf, p.m[i], v, e).ok
        BY <2>1, <2>3, <3>1
      <3> QED
        BY <1>2, <2>1, <3>2, MemberTries
    <2>7. ASSUME NEW i \in 1..n
          PROVE  /\ tries[i][TRUE].err
                 /\ Wrong(tries[i]) => \A j \in DOMAIN v.m :
                      TextFits(leaf, p.m[i][1], v.m[j][1]) => Wrong(match[p.m[i][2]][FALSE][v.m[j][2]])
      <3>1. PICK q : q = p.m[i] /\ q[2] \in Patterns
        BY <2>1
      <3>2. MemberFound(match, leaf, q, v, TRUE).err
        BY <1>2, <3>1, MemberTries
      <3>3. ~MemberFound(match, leaf, q, v, FALSE).err /\ ~MemberFound(match, leaf, q, v, FALSE).ok =>
              \A j \in DOMAIN v.m : TextFits(leaf, q[1], v.m[j][1]) =>
                Wrong(match[q[2]][FALSE][v.m[j][2]])
        BY <1>2, <3>1, MemberTries
      <3> QED
        BY <2>3, <3>1, <3>2, <3>3 DEF Wrong
    <2>8. ~L.err => L.ok \/ \E i \in 1..n : Wrong(tries[i])
      BY <2>5, <2>7 DEF Lasting
    <2>9. ~L.err => L.ok \/ \E i \in DOMAIN p.m : \A j \in DOMAIN v.m :
                      TextFits(leaf, p.m[i][1], v.m[j][1]) =>
                        Wrong(match[p.m[i][2]][FALSE][v.m[j][2]])
      BY <2>1, <2>7, <2>8
    <2>10. L.ok => \A i \in DOMAIN p.m : \E j \in DOMAIN v.m : \E e \in BOOLEAN :
                     /\ TextFits(leaf, p.m[i][1], v.m[j][1])
                     /\ match[p.m[i][2]][FALSE][v.m[j][2]][e].ok
      BY <2>6
    <2> QED
      BY <1>2, <2>5, <2>9, <2>10
  <1> QED
    BY <1>1, <1>2

-----------------------------------------------------------------------------
(* The matcher of a pattern *)

\* A matcher always returns a verdict and an error.
LEMMA MatchTypes ==
  ASSUME NEW mode, NEW match \in Matchings, NEW p \in Patterns, NEW inner \in BOOLEAN,
         NEW v \in Values, NEW err \in BOOLEAN
  PROVE  MatchWith(match, mode, p, inner, v, err) \in Results
  <1>1. \A ok : (ok \in BOOLEAN) => \A x \in BOOLEAN : Result(ok, x) \in Results
    BY DEF Result, Results
  <1>2. LeafMatch(ValueLeaf(mode), p, v, err) \in Results
    BY <1>1 DEF LeafMatch
  <1>3. p.t = "arr" => VariantMatch(match, p, v, err) \in Results
    BY VariantTries
  <1>4. p.t = "arr" => ArrayMatch(match, p, v, err) \in Results
    BY ArrayTries
  <1>5. p.t = "obj" => ObjectMatch(match, NameLeaf(mode), p, v, err) \in Results
    BY ObjectTries
  <1>6. p.t \in {"null", "str", "arr", "obj"}
    BY PatternParts
  <1>7. Result(TRUE, err) \in Results
    BY <1>1
  <1> HIDE DEF Results
  <1> QED
    BY <1>2, <1>3, <1>4, <1>5, <1>6, <1>7 DEF MatchWith

\* A matcher only calls those of the parts of its pattern.
LEMMA MatchLocal ==
  ASSUME NEW mode, NEW g, NEW h, NEW p \in Patterns,
         \A q \in Patterns : Depth[q] < Depth[p] => g[q] = h[q],
         NEW inner \in BOOLEAN, NEW v \in Values, NEW err \in BOOLEAN
  PROVE  MatchWith(g, mode, p, inner, v, err) = MatchWith(h, mode, p, inner, v, err)
  <1>1. \A q : g[q] = h[q] => \A x : Found(g, q, v, x) = Found(h, q, v, x)
    BY DEF Found
  <1>2. \A q : g[q[2]] = h[q[2]] =>
          \A x : MemberFound(g, NameLeaf(mode), q, v, x) = MemberFound(h, NameLeaf(mode), q, v, x)
    BY DEF MemberFound
  <1>3. ASSUME p.t = "arr"
        PROVE  VariantMatch(g, p, v, err) = VariantMatch(h, p, v, err)
               /\ ArrayMatch(g, p, v, err) = ArrayMatch(h, p, v, err)
    <2>1. \A i \in DOMAIN p.e : g[p.e[i]] = h[p.e[i]]
      BY <1>3, PatternParts
    <2>2. VariantMatch(g, p, v, err) = VariantMatch(h, p, v, err)
      BY <2>1 DEF VariantMatch
    <2>3. \A i \in DOMAIN p.e : \A x : Found(g, p.e[i], v, x) = Found(h, p.e[i], v, x)
      BY <1>1, <2>1
    <2>4. ArrayMatch(g, p, v, err) = ArrayMatch(h, p, v, err)
      BY <2>3 DEF ArrayMatch
    <2> QED
      BY <2>2, <2>4
  <1>4. ASSUME p.t = "obj"
        PROVE  ObjectMatch(g, NameLeaf(mode), p, v, err) = ObjectMatch(h, NameLeaf(mode), p, v, err)
    <2>1. \A i \in DOMAIN p.m : g[p.m[i][2]] = h[p.m[i][2]]
      BY <1>4, PatternParts
    <2>2. \A i \in DOMAIN p.m : \A x :
            MemberFound(g, NameLeaf(mode), p.m[i], v, x) = MemberFound(h, NameLeaf(mode), p.m[i], v, x)
      BY <1>2, <2>1
    <2> QED
      BY <2>2 DEF ObjectMatch
  <1>5. p.t \in {"null", "str", "arr", "obj"}
    BY PatternParts
  <1> QED
    BY <1>3, <1>4, <1>5 DEF MatchWith

\* The matcher of a pattern does what MatchWith says, with the matchers of its parts.
LEMMA MatchUnfolds ==
  ASSUME NEW mode
  PROVE  /\ Match(mode) \in Matchings
         /\ \A p \in Patterns : \A inner \in BOOLEAN : \A v \in Values : \A err \in BOOLEAN :
              Match(mode)[p][inner][v][err] = MatchWith(Match(mode), mode, p, inner, v, err)
  <1> DEFINE value(f, p) == [inner \in BOOLEAN |-> [v \in Values |-> [err \in BOOLEAN |->
                               MatchWith(f, mode, p, inner, v, err)]]]
             step == [p \in Patterns |-> [f \in Matchings |-> value(f, p)]]
             Def(f) == f = [p \in Patterns |-> value(f, p)]
  <1>1. \A p \in Patterns : \A f \in Matchings : value(f, p) \in Verdicts
    BY MatchTypes DEF Verdicts
  <1>2. ASSUME NEW p \in Patterns, NEW g, NEW h,
               \A q \in Patterns : PatternDepth[q] < PatternDepth[p] => g[q] = h[q]
        PROVE  value(g, p) = value(h, p)
    <2>1. \A q \in Patterns : Depth[q] < Depth[p] => g[q] = h[q]
      BY <1>2 DEF PatternDepth
    <2>2. \A inner \in BOOLEAN : \A v \in Values : \A err \in BOOLEAN :
            MatchWith(g, mode, p, inner, v, err) = MatchWith(h, mode, p, inner, v, err)
      BY <2>1, MatchLocal
    <2> QED
      BY <2>2
  <1> HIDE DEF value
  <1>3. Recursive(Patterns, Verdicts, PatternDepth, step)
    <2>1. step \in [Patterns -> [[Patterns -> Verdicts] -> Verdicts]]
      BY <1>1 DEF Matchings
    <2>2. Verdicts # {}
      <3>1. [inner \in BOOLEAN |-> [v \in Values |-> [err \in BOOLEAN |-> Result(TRUE, TRUE)]]]
              \in Verdicts
        BY DEF Verdicts, Result, Results
      <3> QED
        BY <3>1
    <2>3. Local(Patterns, Verdicts, PatternDepth, step)
      BY <1>2 DEF Local, Matchings
    <2> HIDE DEF step
    <2> QED
      BY <2>1, <2>2, <2>3, PatternDepths DEF Recursive
  <1>4. PICK f \in Matchings : \A p \in Patterns : f[p] = step[p][f]
    <2> HIDE DEF step
    <2>1. Solvable(Patterns, Verdicts, step)
      BY <1>3, Recursion
    <2> QED
      BY <2>1 DEF Solvable, Matchings
  <1>5. Def(f)
    BY <1>4 DEF Matchings
  <1>6. Match(mode) = CHOOSE g : Def(g)
    BY DEF Match, value
  <1> HIDE DEF Def
  <1>7. Def(Match(mode))
    BY <1>5, <1>6
  <1>8. Match(mode) = [p \in Patterns |-> value(Match(mode), p)]
    BY <1>7 DEF Def
  <1>9. PICK F : F = Match(mode)
    OBVIOUS
  <1>10. \A p \in Patterns : F[p] = value(F, p)
    BY <1>8, <1>9
  <1>11. \A p \in Patterns : F[p] = f[p]
    <2> DEFINE T == {p \in Patterns : F[p] = f[p]}
    <2>1. ASSUME NEW p \in Patterns,
                 \A q \in Patterns : PatternDepth[q] < PatternDepth[p] => q \in T
          PROVE  p \in T
      <3>1. value(F, p) = value(f, p)
        BY <1>2, <2>1
      <3>2. f[p] = value(f, p)
        BY <1>4
      <3> QED
        BY <1>10, <3>1, <3>2
    <2> HIDE DEF T
    <2>2. T \in SUBSET Patterns
      BY DEF T
    <2>3. T = Patterns
      BY <2>1, <2>2, PatternDepths, RankInduction
    <2> QED
      BY <2>3 DEF T
  <1>12. F \in Matchings
    <2>1. \A p \in Patterns : F[p] \in Verdicts
      BY <1>11 DEF Matchings
    <2>2. F = [p \in Patterns |-> value(F, p)]
      BY <1>8, <1>9
    <2> QED
      BY <1>10, <2>1, <2>2 DEF Matchings
  <1>13. \A p \in Patterns : \A inner \in BOOLEAN : \A v \in Values : \A err \in BOOLEAN :
           value(F, p)[inner][v][err] = MatchWith(F, mode, p, inner, v, err)
    BY DEF value
  <1>14. \A p \in Patterns : \A inner \in BOOLEAN : \A v \in Values : \A err \in BOOLEAN :
           F[p][inner][v][err] = MatchWith(F, mode, p, inner, v, err)
    BY <1>10, <1>13
  <1> QED
    BY <1>9, <1>12, <1>14

-----------------------------------------------------------------------------
(* The meaning of a pattern *)

\* What a pattern means depends on its parts only.
LEMMA FitsLocal ==
  ASSUME NEW mode, NEW g, NEW h, NEW p \in Patterns,
         \A q \in Patterns : Depth[q] < Depth[p] => g[q] = h[q],
         NEW inner \in BOOLEAN, NEW v \in Values
  PROVE  FitsWith(g, mode, p, inner, v) = FitsWith(h, mode, p, inner, v)
  <1>1. p.t = "arr" => \A i \in DOMAIN p.e : g[p.e[i]] = h[p.e[i]]
    BY PatternParts
  <1>2. p.t = "obj" => \A i \in DOMAIN p.m : g[p.m[i][2]] = h[p.m[i][2]]
    BY PatternParts
  <1>3. FitsWith(g, mode, p, inner, v) => FitsWith(h, mode, p, inner, v)
    BY <1>1, <1>2 DEF FitsWith
  <1>4. FitsWith(h, mode, p, inner, v) => FitsWith(g, mode, p, inner, v)
    BY <1>1, <1>2 DEF FitsWith
  <1>5. FitsWith(g, mode, p, inner, v) \in BOOLEAN /\ FitsWith(h, mode, p, inner, v) \in BOOLEAN
    BY DEF FitsWith
  <1> QED
    BY <1>3, <1>4, <1>5

\* A pattern fits what FitsWith says, by what its parts fit.
LEMMA FitsUnfolds ==
  ASSUME NEW mode
  PROVE  \A p \in Patterns : \A inner \in BOOLEAN : \A v \in Values :
           Fits(mode)[p][inner][v] = FitsWith(Fits(mode), mode, p, inner, v)
  <1> DEFINE Meanings == [BOOLEAN -> [Values -> BOOLEAN]]
             value(f, p) == [inner \in BOOLEAN |-> [v \in Values |-> FitsWith(f, mode, p, inner, v)]]
             step == [p \in Patterns |-> [f \in [Patterns -> Meanings] |-> value(f, p)]]
             Def(f) == f = [p \in Patterns |-> value(f, p)]
  <1>1. \A p, f : value(f, p) \in Meanings
    <2>1. \A p, f, inner, v : FitsWith(f, mode, p, inner, v) \in BOOLEAN
      BY DEF FitsWith
    <2> QED
      BY <2>1
  <1>2. ASSUME NEW p \in Patterns, NEW g, NEW h,
               \A q \in Patterns : PatternDepth[q] < PatternDepth[p] => g[q] = h[q]
        PROVE  value(g, p) = value(h, p)
    <2>1. \A q \in Patterns : Depth[q] < Depth[p] => g[q] = h[q]
      BY <1>2 DEF PatternDepth
    <2>2. \A inner \in BOOLEAN : \A v \in Values :
            FitsWith(g, mode, p, inner, v) = FitsWith(h, mode, p, inner, v)
      BY <2>1, FitsLocal
    <2> QED
      BY <2>2
  <1> HIDE DEF value
  <1>3. Recursive(Patterns, Meanings, PatternDepth, step)
    <2>1. Meanings # {}
      <3>1. [inner \in BOOLEAN |-> [v \in Values |-> TRUE]] \in Meanings
        OBVIOUS
      <3> QED
        BY <3>1
    <2> HIDE DEF Meanings
    <2>2. step \in [Patterns -> [[Patterns -> Meanings] -> Meanings]]
      BY <1>1
    <2>3. Local(Patterns, Meanings, PatternDepth, step)
      BY <1>2 DEF Local
    <2> HIDE DEF step
    <2> QED
      BY <2>1, <2>2, <2>3, PatternDepths DEF Recursive
  <1>4. \E f : Def(f)
    <2> HIDE DEF Meanings
    <2>1. PICK f \in [Patterns -> Meanings] : \A p \in Patterns : f[p] = step[p][f]
      <3> HIDE DEF step
      <3>1. Solvable(Patterns, Meanings, step)
        BY <1>3, Recursion
      <3> QED
        BY <3>1 DEF Solvable
    <2>2. Def(f)
      BY <2>1
    <2> QED
      BY <2>2
  <1>5. Fits(mode) = CHOOSE g : Def(g)
    BY DEF Fits, value
  <1> HIDE DEF Def
  <1>6. Def(Fits(mode))
    BY <1>4, <1>5
  <1>7. PICK F : F = Fits(mode)
    OBVIOUS
  <1>8. \A p \in Patterns : F[p] = value(F, p)
    BY <1>6, <1>7 DEF Def
  <1>9. \A p \in Patterns : \A inner \in BOOLEAN : \A v \in Values :
          value(F, p)[inner][v] = FitsWith(F, mode, p, inner, v)
    BY DEF value
  <1>10. \A p \in Patterns : \A inner \in BOOLEAN : \A v \in Values :
           F[p][inner][v] = FitsWith(F, mode, p, inner, v)
    BY <1>8, <1>9
  <1> QED
    BY <1>7, <1>10

\* A matcher that compares values by the bits of values never says of a value that it
\* matches if the pattern does not fit it, whatever error it is called with.
THEOREM MatchSound ==
  ASSUME NEW mode, ValueLeaf(mode) = MeantLeaf(mode)
  PROVE  \A p \in Patterns : \A inner \in BOOLEAN : \A v \in Values : \A err \in BOOLEAN :
           Match(mode)[p][inner][v][err].ok => Fits(mode)[p][inner][v]
  <1> DEFINE Sound(p) == \A inner \in BOOLEAN : \A v \in Values : \A err \in BOOLEAN :
                           Match(mode)[p][inner][v][err].ok => Fits(mode)[p][inner][v]
             T == {p \in Patterns : Sound(p)}
  <1>1. PICK match \in Matchings : match = Match(mode)
    BY MatchUnfolds
  <1>2. PICK fits : fits = Fits(mode)
    OBVIOUS
  <1>3. ASSUME NEW p \in Patterns,
               \A q \in Patterns : PatternDepth[q] < PatternDepth[p] => q \in T
        PROVE  p \in T
    <2> SUFFICES ASSUME NEW inner \in BOOLEAN, NEW v \in Values, NEW err \in BOOLEAN,
                        match[p][inner][v][err].ok
                 PROVE  fits[p][inner][v]
      BY <1>1, <1>2
    <2>1. \A q \in Patterns : Depth[q] < Depth[p] =>
            \A i \in BOOLEAN : \A x \in Values : \A e \in BOOLEAN :
              match[q][i][x][e].ok => fits[q][i][x]
      BY <1>1, <1>2, <1>3 DEF PatternDepth
    <2>2. MatchWith(match, mode, p, inner, v, err).ok
      BY <1>1, MatchUnfolds
    <2>3. fits[p][inner][v] = FitsWith(fits, mode, p, inner, v)
      BY <1>2, FitsUnfolds
    <2> SUFFICES FitsWith(fits, mode, p, inner, v)
      BY <2>3
    <2>4. CASE p.t = "null"
      BY <2>4 DEF FitsWith
    <2>5. CASE p.t = "str"
      <3>1. MatchWith(match, mode, p, inner, v, err) = LeafMatch(ValueLeaf(mode), p, v, err)
        BY <2>5 DEF MatchWith
      <3>2. LeafMatch(ValueLeaf(mode), p, v, err).ok => LeafFits(ValueLeaf(mode), p.s, v)
        BY DEF LeafMatch, Result
      <3> QED
        BY <2>2, <2>5, <3>1, <3>2 DEF FitsWith
    <2>6. CASE p.t = "arr" /\ ~inner /\ p.e # <<>>
      <3>1. VariantMatch(match, p, v, err).ok
        BY <2>2, <2>6 DEF MatchWith
      <3>2. PICK i \in DOMAIN p.e : \E e \in BOOLEAN : match[p.e[i]][TRUE][v][e].ok
        BY <2>6, <3>1, VariantTries
      <3>3. p.e[i] \in Patterns /\ Depth[p.e[i]] < Depth[p]
        BY <2>6, PatternParts
      <3>4. fits[p.e[i]][TRUE][v]
        BY <2>1, <3>2, <3>3
      <3> QED
        BY <2>6, <3>4 DEF FitsWith
    <2>7. CASE p.t = "arr" /\ inner /\ p.e # <<>>
      <3>1. ArrayMatch(match, p, v, err).ok
        BY <2>2, <2>7 DEF MatchWith
      <3>2. v.t = "arr" /\ \A i \in DOMAIN p.e : \E j \in DOMAIN v.e : \E e \in BOOLEAN :
                             match[p.e[i]][FALSE][v.e[j]][e].ok
        BY <2>7, <3>1, ArrayTries
      <3>3. \A i \in DOMAIN p.e : p.e[i] \in Patterns /\ Depth[p.e[i]] < Depth[p]
        BY <2>7, PatternParts
      <3>4. \A j \in DOMAIN v.e : v.e[j] \in Values
        BY <3>2, ValueParts
      <3>5. ASSUME NEW i \in DOMAIN p.e
            PROVE  \E j \in DOMAIN v.e : fits[p.e[i]][FALSE][v.e[j]]
        <4>1. PICK j \in DOMAIN v.e : \E e \in BOOLEAN : match[p.e[i]][FALSE][v.e[j]][e].ok
          BY <3>2
        <4>2. fits[p.e[i]][FALSE][v.e[j]]
          BY <2>1, <3>3, <3>4, <4>1
        <4> QED
          BY <4>2
      <3> QED
        BY <2>7, <3>2, <3>5 DEF FitsWith
    <2>8. CASE p.t = "obj" /\ p.m # <<>>
      <3>1. ObjectMatch(match, NameLeaf(mode), p, v, err).ok
        BY <2>2, <2>8 DEF MatchWith
      <3>2. v.t = "obj" /\ \A i \in DOMAIN p.m : \E j \in DOMAIN v.m : \E e \in BOOLEAN :
                             /\ TextFits(NameLeaf(mode), p.m[i][1], v.m[j][1])
                             /\ match[p.m[i][2]][FALSE][v.m[j][2]][e].ok
        BY <2>8, <3>1, ObjectTries
      <3>3. \A i \in DOMAIN p.m : p.m[i][2] \in Patterns /\ Depth[p.m[i][2]] < Depth[p]
        BY <2>8, PatternParts
      <3>4. \A j \in DOMAIN v.m : v.m[j][2] \in Values
        BY <3>2, ValueParts
      <3>5. ASSUME NEW i \in DOMAIN p.m
            PROVE  \E j \in DOMAIN v.m :
                     /\ TextFits(NameLeaf(mode), p.m[i][1], v.m[j][1])
                     /\ fits[p.m[i][2]][FALSE][v.m[j][2]]
        <4>1. PICK j \in DOMAIN v.m : \E e \in BOOLEAN :
                /\ TextFits(NameLeaf(mode), p.m[i][1], v.m[j][1])
                /\ match[p.m[i][2]][FALSE][v.m[j][2]][e].ok
          BY <3>2
        <4>2. fits[p.m[i][2]][FALSE][v.m[j][2]]
          BY <2>1, <3>3, <3>4, <4>1
        <4> QED
          BY <4>1, <4>2
      <3> QED
        BY <2>8, <3>2, <3>5 DEF FitsWith
    <2>9. CASE (p.t = "arr" /\ p.e = <<>>) \/ (p.t = "obj" /\ p.m = <<>>)
      BY <2>9 DEF FitsWith
    <2>10. p.t \in {"null", "str", "arr", "obj"}
      BY PatternParts
    <2> QED
      BY <2>4, <2>5, <2>6, <2>7, <2>8, <2>9, <2>10
  <1> HIDE DEF T
  <1>4. T \in SUBSET Patterns
    BY DEF T
  <1>5. T = Patterns
    BY <1>3, <1>4, PatternDepths, RankInduction
  <1> QED
    BY <1>5 DEF T

\* An answer without an error is right: the matcher was not called with an error, and it
\* matches whatever the pattern fits.
THEOREM MatchComplete ==
  ASSUME NEW mode, ValueLeaf(mode) = MeantLeaf(mode)
  PROVE  \A p \in Patterns : \A inner \in BOOLEAN : \A v \in Values : \A err \in BOOLEAN :
           ~Match(mode)[p][inner][v][err].err =>
             ~err /\ (Fits(mode)[p][inner][v] => Match(mode)[p][inner][v][err].ok)
  <1> DEFINE Complete(p) == \A inner \in BOOLEAN : \A v \in Values : \A err \in BOOLEAN :
               ~Match(mode)[p][inner][v][err].err =>
                 ~err /\ (Fits(mode)[p][inner][v] => Match(mode)[p][inner][v][err].ok)
             T == {p \in Patterns : Complete(p)}
  <1>1. PICK match \in Matchings : match = Match(mode)
    BY MatchUnfolds
  <1>2. PICK fits : fits = Fits(mode)
    OBVIOUS
  <1>3. ASSUME NEW p \in Patterns,
               \A q \in Patterns : PatternDepth[q] < PatternDepth[p] => q \in T
        PROVE  p \in T
    <2> SUFFICES ASSUME NEW inner \in BOOLEAN, NEW v \in Values, NEW err \in BOOLEAN,
                        ~match[p][inner][v][err].err
                 PROVE  ~err /\ (fits[p][inner][v] => match[p][inner][v][err].ok)
      BY <1>1, <1>2
    <2>1. PICK L : L = MatchWith(match, mode, p, inner, v, err)
      OBVIOUS
    <2>2. \A q \in Patterns : Depth[q] < Depth[p] =>
            \A i \in BOOLEAN : \A x \in Values : \A e \in BOOLEAN :
              ~match[q][i][x][e].err => ~e /\ (fits[q][i][x] => match[q][i][x][e].ok)
      BY <1>1, <1>2, <1>3 DEF PatternDepth
    <2>3. \A q \in Patterns : Depth[q] < Depth[p] =>
            \A i \in BOOLEAN : \A x \in Values :
              match[q][i][x][TRUE].err /\ (Wrong(match[q][i][x]) => ~fits[q][i][x])
      BY <2>2 DEF Wrong
    <2>4. match[p][inner][v][err] = L
      BY <1>1, <2>1, MatchUnfolds
    <2>5. fits[p][inner][v] = FitsWith(fits, mode, p, inner, v)
      BY <1>2, FitsUnfolds
    <2>6. ~L.err
      BY <2>4
    <2> SUFFICES ~err /\ (FitsWith(fits, mode, p, inner, v) => L.ok)
      BY <2>4, <2>5
    <2>7. CASE p.t = "null" \/ (p.t = "arr" /\ p.e = <<>>) \/ (p.t = "obj" /\ p.m = <<>>)
      <3>1. L = Result(TRUE, err)
        BY <2>1, <2>7 DEF MatchWith
      <3> QED
        BY <2>6, <3>1 DEF Result
    <2>8. CASE p.t = "str"
      <3>1. L = LeafMatch(ValueLeaf(mode), p, v, err)
        BY <2>1, <2>8 DEF MatchWith
      <3>2. ~err /\ (LeafFits(ValueLeaf(mode), p.s, v) => L.ok)
        BY <2>6, <3>1 DEF LeafMatch, Result
      <3>3. FitsWith(fits, mode, p, inner, v) => LeafFits(ValueLeaf(mode), p.s, v)
        BY <2>8 DEF FitsWith
      <3> QED
        BY <3>2, <3>3
    <2>9. CASE p.t = "arr" /\ ~inner /\ p.e # <<>>
      <3>1. L = VariantMatch(match, p, v, err)
        BY <2>1, <2>9 DEF MatchWith
      <3>2. \A i \in DOMAIN p.e : p.e[i] \in Patterns /\ Depth[p.e[i]] < Depth[p]
        BY <2>9, PatternParts
      <3>3. \A i \in DOMAIN p.e : /\ match[p.e[i]][TRUE][v][TRUE].err
                                  /\ Wrong(match[p.e[i]][TRUE][v]) => ~fits[p.e[i]][TRUE][v]
        BY <2>3, <3>2
      <3>4. ~err /\ (L.ok \/ \A i \in DOMAIN p.e : Wrong(match[p.e[i]][TRUE][v]))
        BY <2>6, <2>9, <3>1, <3>3, VariantTries
      <3>5. FitsWith(fits, mode, p, inner, v) => \E i \in DOMAIN p.e : fits[p.e[i]][TRUE][v]
        BY <2>9 DEF FitsWith
      <3> QED
        BY <3>3, <3>4, <3>5
    <2>10. CASE p.t = "arr" /\ inner /\ p.e # <<>>
      <3>1. L = ArrayMatch(match, p, v, err)
        BY <2>1, <2>10 DEF MatchWith
      <3>2. \A i \in DOMAIN p.e : p.e[i] \in Patterns /\ Depth[p.e[i]] < Depth[p]
        BY <2>10, PatternParts
      <3>3. v.t = "arr" => \A j \in DOMAIN v.e : v.e[j] \in Values
        BY ValueParts
      <3>4. v.t = "arr" => \A i \in DOMAIN p.e : \A j \in DOMAIN v.e :
              /\ match[p.e[i]][FALSE][v.e[j]][TRUE].err
              /\ Wrong(match[p.e[i]][FALSE][v.e[j]]) => ~fits[p.e[i]][FALSE][v.e[j]]
        <4> SUFFICES ASSUME v.t = "arr", NEW i \in DOMAIN p.e, NEW j \in DOMAIN v.e
                     PROVE  /\ match[p.e[i]][FALSE][v.e[j]][TRUE].err
                            /\ Wrong(match[p.e[i]][FALSE][v.e[j]]) => ~fits[p.e[i]][FALSE][v.e[j]]
          OBVIOUS
        <4>1. PICK q \in Patterns : q = p.e[i] /\ Depth[q] < Depth[p]
          BY <3>2
        <4>2. PICK x \in Values : x = v.e[j]
          BY <3>3
        <4>3. match[q][FALSE][x][TRUE].err /\ (Wrong(match[q][FALSE][x]) => ~fits[q][FALSE][x])
          BY <2>3, <4>1
        <4> QED
          BY <4>1, <4>2, <4>3
      <3>5. /\ ~err
            /\ L.ok \/ v.t # "arr"
               \/ \E i \in DOMAIN p.e : \A j \in DOMAIN v.e : Wrong(match[p.e[i]][FALSE][v.e[j]])
        BY <2>6, <2>10, <3>1, <3>4, ArrayTries
      <3>6. FitsWith(fits, mode, p, inner, v) =>
              v.t = "arr" /\ \A i \in DOMAIN p.e : \E j \in DOMAIN v.e : fits[p.e[i]][FALSE][v.e[j]]
        BY <2>10 DEF FitsWith
      <3> QED
        BY <3>4, <3>5, <3>6
    <2>11. CASE p.t = "obj" /\ p.m # <<>>
      <3>1. L = ObjectMatch(match, NameLeaf(mode), p, v, err)
        BY <2>1, <2>11 DEF MatchWith
      <3>2. /\ v.t = "obj" /\ ~err
            /\ L.ok \/ \E i \in DOMAIN p.m : \A j \in DOMAIN v.m :
                         TextFits(NameLeaf(mode), p.m[i][1], v.m[j][1]) =>
                           Wrong(match[p.m[i][2]][FALSE][v.m[j][2]])
        BY <2>6, <2>11, <3>1, ObjectTries
      <3>3. \A i \in DOMAIN p.m : p.m[i][2] \in Patterns /\ Depth[p.m[i][2]] < Depth[p]
        BY <2>11, PatternParts
      <3>4. \A j \in DOMAIN v.m : v.m[j][2] \in Values
        BY <3>2, ValueParts
      <3>5. \A i \in DOMAIN p.m, j \in DOMAIN v.m :
              Wrong(match[p.m[i][2]][FALSE][v.m[j][2]]) => ~fits[p.m[i][2]][FALSE][v.m[j][2]]
        <4> TAKE i \in DOMAIN p.m, j \in DOMAIN v.m
        <4>1. PICK q \in Patterns : q = p.m[i][2] /\ Depth[q] < Depth[p]
          BY <3>3
        <4>2. PICK x \in Values : x = v.m[j][2]
          BY <3>4
        <4>3. Wrong(match[q][FALSE][x]) => ~fits[q][FALSE][x]
          BY <2>3, <4>1
        <4> QED
          BY <4>1, <4>2, <4>3
      <3>6. FitsWith(fits, mode, p, inner, v) =>
              \A i \in DOMAIN p.m : \E j \in DOMAIN v.m :
                /\ TextFits(NameLeaf(mode), p.m[i][1], v.m[j][1])
                /\ fits[p.m[i][2]][FALSE][v.m[j][2]]
        BY <2>11 DEF FitsWith
      <3> QED
        BY <3>2, <3>5, <3>6
    <2>12. p.t \in {"null", "str", "arr", "obj"}
      BY PatternParts
    <2> QED
      BY <2>7, <2>8, <2>9, <2>10, <2>11, <2>12
  <1> HIDE DEF T
  <1>4. T \in SUBSET Patterns
    BY DEF T
  <1>5. T = Patterns
    BY <1>3, <1>4, PatternDepths, RankInduction
  <1> QED
    BY <1>5 DEF T

\* No error is raised if no object is in the pattern and the message has parameters.
LEMMA NoError ==
  ASSUME NEW mode
  PROVE  \A p \in Patterns : ~HasObject[p] =>
           \A inner \in BOOLEAN : \A v \in Json : ~Match(mode)[p][inner][v][FALSE].err
  <1> DEFINE T == {p \in Patterns : ~HasObject[p] =>
                     \A inner \in BOOLEAN : \A v \in Json : ~Match(mode)[p][inner][v][FALSE].err}
  <1>1. PICK match \in Matchings : match = Match(mode)
    BY MatchUnfolds
  <1>2. ASSUME NEW p \in Patterns,
               \A q \in Patterns : PatternDepth[q] < PatternDepth[p] => q \in T
        PROVE  p \in T
    <2> SUFFICES ASSUME ~HasObject[p], NEW inner \in BOOLEAN, NEW v \in Json
                 PROVE  ~match[p][inner][v][FALSE].err
      BY <1>1
    <2>1. PICK L : L = MatchWith(match, mode, p, inner, v, FALSE)
      OBVIOUS
    <2>2. \A q \in Patterns : Depth[q] < Depth[p] /\ ~HasObject[q] =>
            \A i \in BOOLEAN : \A x \in Json : ~match[q][i][x][FALSE].err
      BY <1>1, <1>2 DEF PatternDepth
    <2>3. v \in Values /\ match[p][inner][v][FALSE] = L
      BY <1>1, <2>1, MatchUnfolds DEF Values
    <2> SUFFICES ~L.err
      BY <2>3
    <2>4. p.t # "obj" /\ \A q \in Elements(p) : ~HasObject[q]
      BY HasObjectUnfolds, PatternParts
    <2>5. p.t = "arr" =>
            \A i \in DOMAIN p.e : /\ p.e[i] \in Patterns /\ Depth[p.e[i]] < Depth[p]
                                  /\ ~HasObject[p.e[i]]
      BY <2>4, PatternParts DEF Elements
    <2>6. CASE p.t = "null" \/ (p.t = "arr" /\ p.e = <<>>)
      <3>1. L = Result(TRUE, FALSE)
        BY <2>1, <2>6 DEF MatchWith
      <3> QED
        BY <3>1 DEF Result
    <2>7. CASE p.t = "str"
      <3>1. L = LeafMatch(ValueLeaf(mode), p, v, FALSE)
        BY <2>1, <2>7 DEF MatchWith
      <3>2. v.t # "none"
        BY JsonKinds
      <3> QED
        BY <3>1, <3>2 DEF LeafMatch, Result
    <2>8. CASE p.t = "arr" /\ ~inner /\ p.e # <<>>
      <3>1. L = VariantMatch(match, p, v, FALSE)
        BY <2>1, <2>8 DEF MatchWith
      <3>2. \A i \in DOMAIN p.e : ~match[p.e[i]][TRUE][v][FALSE].err
        BY <2>2, <2>5, <2>8
      <3> QED
        BY <2>3, <2>8, <3>1, <3>2, VariantTries
    <2>9. CASE p.t = "arr" /\ inner /\ p.e # <<>>
      <3>1. L = ArrayMatch(match, p, v, FALSE)
        BY <2>1, <2>9 DEF MatchWith
      <3>2. v.t = "arr" => \A j \in DOMAIN v.e : v.e[j] \in Json
        BY JsonKinds
      <3>3. v.t = "arr" => \A i \in DOMAIN p.e : \A j \in DOMAIN v.e :
                             ~match[p.e[i]][FALSE][v.e[j]][FALSE].err
        BY <2>2, <2>5, <2>9, <3>2
      <3> QED
        BY <2>3, <2>9, <3>1, <3>3, ArrayTries
    <2>10. p.t \in {"null", "str", "arr", "obj"}
      BY PatternParts
    <2> QED
      BY <2>4, <2>6, <2>7, <2>8, <2>9, <2>10
  <1> HIDE DEF T
  <1>3. T \in SUBSET Patterns
    BY DEF T
  <1>4. T = Patterns
    BY <1>2, <1>3, PatternDepths, RankInduction
  <1> QED
    BY <1>4 DEF T

-----------------------------------------------------------------------------
(* Routes and the matchers of Routing *)

Asked == {c.params : c \in Calls}

MeantPairs ==
  {x \in Parsed \X Asked : Fits(Mode[x[1]])[Pattern[x[1]]][FALSE][Param[x[2]]]}

\* A rule that can be made.
Made(r) == r.matcher = NoMatcher \/ r.matcher \in Parsed

\* What a rule means, in terms of the pairs of a matcher and parameters.
LEMMA MeansTakes ==
  ASSUME NEW r, Made(r), NEW c \in Calls
  PROVE  Means(r, c) <=> Takes(MeantPairs, r, c)
  <1>1. c.params \in Asked
    BY DEF Asked
  <1>2. r.matcher \in Parsed =>
          (<<r.matcher, c.params>> \in MeantPairs
             <=> Fits(Mode[r.matcher])[Pattern[r.matcher]][FALSE][Param[c.params]])
    BY <1>1 DEF MeantPairs
  <1> QED
    BY <1>2 DEF Made, Means, Takes

\* What the matcher of a rule says of a message.
LEMMA VerdictOf ==
  ASSUME NEW k \in Parsed, NEW c \in Calls
  PROVE  LET r == Match(Mode[k])[Pattern[k]][FALSE][Param[c.params]][FALSE]
         IN  /\ Pattern[k] \in Patterns /\ Param[c.params] \in Values
             /\ Verdict[k][c.params] = "match" <=> r.ok /\ ~r.err
             /\ Verdict[k][c.params] = "error" <=> r.err
  <1>1. Pattern[k] \in Patterns /\ Param[c.params] \in Values
    BY MatchersAssumption DEF Patterns
  <1>2. Verdict[k][c.params] = Judgement(Mode[k], Pattern[k], Param[c.params])
    BY MatchersAssumption
  <1> QED
    BY <1>1, <1>2 DEF Judgement

\* The matcher of a rule does not say that it matches what its pattern does not mean.
LEMMA RuleSound ==
  ASSUME NEW r, Made(r), NEW c \in Calls, ByValueBits(r), RuleFits(r, c)
  PROVE  Means(r, c)
  <1>1. CASE r.matcher = NoMatcher
    BY <1>1 DEF RuleFits, Means
  <1>2. CASE r.matcher \in Parsed /\ r.matcher # NoMatcher
    <2>1. PICK k \in Parsed : k = r.matcher
      BY <1>2
    <2>2. Pattern[k] \in Patterns /\ Param[c.params] \in Values
      BY VerdictOf
    <2>3. Match(Mode[k])[Pattern[k]][FALSE][Param[c.params]][FALSE].ok
      BY <1>2, <2>1, VerdictOf DEF RuleFits
    <2>4. ValueLeaf(Mode[k]) = MeantLeaf(Mode[k])
      BY <1>2, <2>1 DEF ByValueBits
    <2>5. Fits(Mode[k])[Pattern[k]][FALSE][Param[c.params]]
      BY <2>2, <2>3, <2>4, MatchSound
    <2> QED
      BY <2>1, <2>5 DEF RuleFits, Means
  <1> QED
    BY <1>1, <1>2 DEF Made

\* And it says so of whatever its pattern means, unless it raises an error.
LEMMA RuleComplete ==
  ASSUME NEW r, Made(r), NEW c \in Calls, ByValueBits(r), ~Raises(r, c), Means(r, c)
  PROVE  RuleFits(r, c)
  <1>1. CASE r.matcher = NoMatcher
    BY <1>1 DEF RuleFits, Means
  <1>2. CASE r.matcher \in Parsed /\ r.matcher # NoMatcher
    <2>1. PICK k \in Parsed : k = r.matcher
      BY <1>2
    <2>2. PICK answer : answer = Match(Mode[k])[Pattern[k]][FALSE][Param[c.params]][FALSE]
      OBVIOUS
    <2>3. /\ Pattern[k] \in Patterns /\ Param[c.params] \in Values
          /\ Verdict[k][c.params] = "match" <=> answer.ok /\ ~answer.err
          /\ Verdict[k][c.params] = "error" <=> answer.err
      BY <2>2, VerdictOf
    <2>4. ~answer.err
      <3>1. CASE Verdict[k][c.params] # "error"
        BY <2>3, <3>1
      <3>2. CASE ~HasObject[Pattern[k]] /\ Param[c.params] # Missing
        BY <2>2, <2>3, <3>2, NoError DEF Values
      <3> QED
        BY <1>2, <2>1, <3>1, <3>2 DEF Raises, MayRaise
    <2>5. ValueLeaf(Mode[k]) = MeantLeaf(Mode[k])
      BY <1>2, <2>1 DEF ByValueBits
    <2>6. Fits(Mode[k])[Pattern[k]][FALSE][Param[c.params]]
      BY <1>2, <2>1 DEF Means
    <2>7. answer.ok
      BY <2>2, <2>3, <2>4, <2>5, <2>6, MatchComplete
    <2> QED
      BY <2>1, <2>3, <2>4, <2>7 DEF RuleFits, Means
  <1> QED
    BY <1>1, <1>2 DEF Made

\* The route that is meant is the target of the first rule that means the message.
LEMMA MeantRouteIsFirst ==
  ASSUME NEW f \in Lists, NEW c
  PROVE  /\ (\A i \in DOMAIN f.rules : ~Means(f.rules[i], c)) => MeantRoute(f.rules, c) = Default
         /\ \A i \in DOMAIN f.rules :
              Means(f.rules[i], c) /\ (\A j \in DOMAIN f.rules : Means(f.rules[j], c) => i <= j)
                => MeantRoute(f.rules, c) = f.rules[i].target
  <1> DEFINE fit == {i \in DOMAIN f.rules : Means(f.rules[i], c)}
             first == CHOOSE i \in fit : \A j \in fit : i <= j
  <1>1. (\A i \in DOMAIN f.rules : ~Means(f.rules[i], c)) => MeantRoute(f.rules, c) = Default
    BY DEF MeantRoute
  <1>2. ASSUME NEW i \in fit, \A j \in fit : i <= j
        PROVE  MeantRoute(f.rules, c) = f.rules[i].target
    <2>1. first \in fit /\ \A j \in fit : first <= j
      BY <1>2
    <2>2. MeantRoute(f.rules, c) = f.rules[first].target
      BY <1>2 DEF MeantRoute
    <2>3. fit \subseteq Nat
      BY ListTypes
    <2> HIDE DEF fit, first
    <2>4. first <= i /\ i <= first /\ first \in Nat /\ i \in Nat
      BY <1>2, <2>1, <2>3
    <2>5. first = i
      BY <2>4
    <2> QED
      BY <2>2, <2>5
  <1> QED
    BY <1>1, <1>2

\* RoutedAsMeant: over every sequence of reconfigurations, for every set of patterns and
\* of parameters, nested as deep as they may be, a message goes to no rule whose pattern
\* does not mean it, and to the first whose pattern does unless an error is raised.
THEOREM RoutedAsMeantCorrect == Spec => []RoutedAsMeant
  <1>1. ASSUME IInv
        PROVE  RoutedAsMeant
    <2> SUFFICES ASSUME NEW m \in Messages \ torn,
                        pc[m] = "done", dest[m] # Refused, checked[m] = Len(applied),
                        \A i \in DOMAIN InForce.rules : ByValueBits(InForce.rules[i])
                 PROVE  /\ dest[m] # Default =>
                             \E i \in DOMAIN InForce.rules :
                               InForce.rules[i].target = dest[m] /\ Means(InForce.rules[i], call[m])
                        /\ (\A i \in DOMAIN InForce.rules : ~Raises(InForce.rules[i], call[m])) =>
                             dest[m] = MeantRoute(InForce.rules, call[m])
      BY DEF RoutedAsMeant
    <2> DEFINE rs == InForce.rules
               c == call[m]
    <2>1. c \in Calls /\ InForce \in Lists /\ Len(applied) \in Nat
      BY <1>1, AppliedTypes DEF IInv, Types
    <2>2. \A i \in DOMAIN rs : Made(rs[i])
      <3>1. writer \in {"idle", "made"}
        BY <1>1, <2>1 DEF IInv, Types, Config
      <3> QED
        BY <1>1, <3>1 DEF IInv, Config, Valid, Made
    <2>3. \A i \in DOMAIN rs : Means(rs[i], c) <=> Takes(MeantPairs, rs[i], c)
      BY <2>1, <2>2, MeansTakes
    <2>4. NoneTooMany(MeantPairs, rs, c)
      BY <2>1, <2>2, <2>3, RuleSound DEF NoneTooMany
    <2>5. (\A i \in DOMAIN rs : ~Raises(rs[i], c)) => NoneTooFew(MeantPairs, rs, c)
      BY <2>1, <2>2, <2>3, RuleComplete DEF NoneTooFew
    <2>6. \/ \E i \in DOMAIN rs :
               /\ dest[m] = rs[i].target /\ Takes(MeantPairs, rs[i], c)
               /\ NoneTooFew(MeantPairs, rs, c) => FirstToTake(MeantPairs, rs, c, i)
          \/ /\ dest[m] = Default
             /\ NoneTooFew(MeantPairs, rs, c) => \A i \in DOMAIN rs : ~Takes(MeantPairs, rs[i], c)
      <3>1. GoesAsMeant(MeantPairs)
        BY <1>1, GoesByMeaning
      <3> QED
        BY <2>4, <3>1 DEF GoesAsMeant
    <2>7. dest[m] # Default => \E i \in DOMAIN rs : rs[i].target = dest[m] /\ Means(rs[i], c)
      BY <2>3, <2>6
    <2>8. ASSUME \A i \in DOMAIN rs : ~Raises(rs[i], c)
          PROVE  dest[m] = MeantRoute(rs, c)
      <3>1. CASE \E i \in DOMAIN rs :
                   dest[m] = rs[i].target /\ FirstToTake(MeantPairs, rs, c, i)
        <4>1. PICK i \in DOMAIN rs : dest[m] = rs[i].target /\ FirstToTake(MeantPairs, rs, c, i)
          BY <3>1
        <4>2. Means(rs[i], c) /\ \A j \in DOMAIN rs : Means(rs[j], c) => i <= j
          BY <2>3, <4>1 DEF FirstToTake
        <4> QED
          BY <2>1, <4>1, <4>2, MeantRouteIsFirst
      <3>2. CASE dest[m] = Default /\ \A i \in DOMAIN rs : ~Takes(MeantPairs, rs[i], c)
        BY <2>1, <2>3, <3>2, MeantRouteIsFirst
      <3> QED
        BY <2>5, <2>6, <2>8, <3>1, <3>2
    <2> QED
      BY <2>7, <2>8
  <1> QED
    BY Invariance, <1>1, PTL
=============================================================================
