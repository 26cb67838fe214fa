-------------------------------- MODULE Broker --------------------------------
(***************************************************************************)
(* jsonrpc-broker (package/broker/broker/broker.cpp): sends a message to    *)
(* the target of the first rule that fits it, refuses it if its method is  *)
(* on the reject list, or passes it to the default target.                 *)
(*                                                                         *)
(* restart replaces the targets, the reject list and the rules one after   *)
(* the other under the lock. perform_incoming reads the reject list under  *)
(* the lock and the rules without it, and reg_io goes over the targets     *)
(* without it: a reader that is overtaken by the writer reads a container  *)
(* while it is assigned, and may come to any target.                       *)
(*                                                                         *)
(* One connection is modelled: connections share nothing but the           *)
(* configuration.                                                          *)
(***************************************************************************)
EXTENDS Naturals, Sequences, FiniteSets

CONSTANTS
  Messages,   \* messages of the connection
  Methods,    \* the methods they may ask for
  NoMethod,   \* for a message without one
  Calls,      \* what they may ask: [method, params]
  Targets,    \* the targets that rules name
  Files,      \* the configurations: [reject, rules]
  Scenarios,  \* pairs of a configuration to start with and what each message asks
  Edits,      \* pairs of configurations, the first of which may become the second
  Matchers,   \* the parameters of rules
  NoMatcher,  \* for a rule without them
  Verdict,    \* what the matcher of a rule says of a message
  Parsed,     \* the matchers that can be made
  MaxInstalls,\* bound on the configurations installed
  Env         \* the events of the environment that may occur

Default == "default"
All == "*"
NoTarget == "no target"
Refused == "procedure_not_found"

ASSUME VerdictAssumption ==
  \A mt \in Matchers, c \in Calls : Verdict[mt][c.params] \in {"match", "no", "error"}
ASSUME CallsAssumption ==
  /\ NoMethod \notin Methods \cup {All}
  /\ \A c \in Calls : c.method \in Methods \cup {NoMethod}
  /\ \A s \in Scenarios : s[1] \in Files /\ s[2] \in [Messages -> Calls]
ASSUME FilesAssumption ==
  /\ Edits \subseteq Files \X Files
  /\ \A f \in Files : /\ f.reject \subseteq Methods \cup {All}
                       /\ f.rules \in Seq([methods : SUBSET (Methods \cup {All}),
                                           target : Targets,
                                           matcher : Matchers \cup {NoMatcher}])
ASSUME TargetsAssumption == {Default, NoTarget, Refused} \cap Targets = {}
ASSUME BoundAssumption == MaxInstalls \in Nat \ {0}

VARIABLES
  options,    \* the configuration of the domain
  targets,    \* _targets
  reject,     \* _reject, and _reject_all when it has "*"
  rules,      \* _rules
  writer,     \* where restart is
  suspended,  \* the domain is suspended
  io,         \* where the connection is
  known,      \* the targets that have been told of it and not yet of its end
  snapshot,   \* the targets that unreg_io has copied
  call,       \* what each message asks
  pc,         \* where each message is
  dest,       \* where it has gone
  \* What has happened, for the properties:
  applied,    \* the configurations installed, oldest first
  regAt,      \* the one that reg_io has met
  checked,    \* the configuration whose reject list has let the message pass
  torn        \* the readers that the writer has overtaken

config == <<options, targets, reject, rules, writer, applied>>
connection == <<io, known, snapshot, regAt>>
messages == <<call, pc, dest, checked>>
vars == <<config, suspended, connection, messages, torn>>

Nothing == [reject |-> {}, rules |-> <<>>]
Io == "io"

ASSUME IoAssumption == Io \notin Messages

-----------------------------------------------------------------------------
(* What a configuration says *)

Valid(f) ==
  \A i \in DOMAIN f.rules : f.rules[i].matcher = NoMatcher \/ f.rules[i].matcher \in Parsed

TargetsOf(f) == {f.rules[i].target : i \in DOMAIN f.rules}

HasMethod(c) == c.method # NoMethod

Rejects(list, c) == All \in list \/ c.method \in list

\* A matcher that ends with an error does not match.
RuleFits(r, c) ==
  /\ r.methods = {} \/ All \in r.methods \/ c.method \in r.methods
  /\ r.matcher = NoMatcher \/ Verdict[r.matcher][c.params] = "match"

\* The target of the first rule that fits.
Route(rs, c) ==
  LET fit == {i \in DOMAIN rs : RuleFits(rs[i], c)}
  IN  IF fit = {} THEN Default
      ELSE rs[CHOOSE i \in fit : \A j \in fit : i <= j].target

-----------------------------------------------------------------------------
Init ==
  /\ \E s \in Scenarios : options = s[1] /\ call = s[2]
  /\ LET f == IF Valid(options) THEN options ELSE Nothing
     IN  /\ targets = TargetsOf(f) /\ reject = f.reject /\ rules = f.rules
         /\ applied = <<f>>
  /\ writer = "idle"
  /\ suspended \in (IF "suspend" \in Env THEN BOOLEAN ELSE {FALSE})
  /\ io = "none" /\ known = {} /\ snapshot = {} /\ regAt = 0
  /\ pc = [m \in Messages |-> "new"]
  /\ dest = [m \in Messages |-> NoTarget]
  /\ checked = [m \in Messages |-> 0]
  /\ torn = {}

-----------------------------------------------------------------------------
(* restart *)

\* The configurations that may follow this one.
Offered == {e[2] : e \in {x \in Edits : x[1] = options}}

\* A slip: the options are taken over before the matchers are made.
ReconfigureAnyway ==
  /\ writer = "idle"
  /\ Len(applied) < MaxInstalls
  /\ \E f \in Offered :
       /\ options' = f
       /\ writer' = "made"
  /\ UNCHANGED <<targets, reject, rules, applied, suspended, connection, messages, torn>>

\* A slip: the reject list is replaced before the matchers are made.
ReconfigureEarly ==
  /\ writer = "idle"
  /\ Len(applied) < MaxInstalls
  /\ \E f \in Offered :
       /\ options' = f
       /\ reject' = f.reject
       /\ writer' = IF Valid(f) THEN "made" ELSE "idle"
  /\ UNCHANGED <<targets, rules, applied, suspended, connection, messages, torn>>

\* The new targets, reject list and rules are made first: if a matcher is not, restart
\* returns and everything stays as it was.
Reconfigure ==
  /\ writer = "idle"
  /\ Len(applied) < MaxInstalls
  /\ \E f \in Offered :
       /\ options' = f
       /\ writer' = IF Valid(f) THEN "made" ELSE "idle"
  /\ UNCHANGED <<targets, reject, rules, applied, suspended, connection, messages, torn>>

\* The lock is taken and the targets are assigned.
InstallTargets ==
  /\ writer = "made"
  /\ writer' = "targets"
  /\ targets' = TargetsOf(options)
  /\ applied' = Append(applied, options)
  /\ torn' = torn \cup (IF io = "registering" THEN {Io} ELSE {})
  /\ UNCHANGED <<options, reject, rules, suspended, connection, messages>>

InstallReject ==
  /\ writer = "targets"
  /\ writer' = "reject"
  /\ reject' = options.reject
  /\ UNCHANGED <<options, targets, rules, applied, suspended, connection, messages, torn>>

\* The rules are assigned and the lock is released.
InstallRules ==
  /\ writer = "reject"
  /\ writer' = "idle"
  /\ rules' = options.rules
  /\ torn' = torn \cup {m \in Messages : pc[m] = "scanning"}
  /\ UNCHANGED <<options, targets, reject, applied, suspended, connection, messages>>

LockFree == writer \in {"idle", "made"}

-----------------------------------------------------------------------------
(* reg_io and unreg_io *)

\* The copy of the list that is made under the lock is not used.
RegIo ==
  /\ io = "none"
  /\ LockFree
  /\ io' = "registering"
  /\ known' = {Default}
  /\ regAt' = Len(applied)
  /\ UNCHANGED <<config, suspended, snapshot, messages, torn>>

\* A slip: only the default target is told.
RegNoTargets ==
  /\ io = "registering"
  /\ io' = "open"
  /\ UNCHANGED <<config, suspended, known, snapshot, regAt, messages, torn>>

RegTargets ==
  /\ io = "registering"
  /\ io' = "open"
  /\ IF Io \in torn THEN \E ts \in SUBSET Targets : known' = known \cup ts
     ELSE known' = known \cup targets
  /\ UNCHANGED <<config, suspended, snapshot, regAt, messages, torn>>

UnregIo ==
  /\ io = "open"
  /\ LockFree
  /\ io' = "closing"
  /\ known' = known \ {Default}
  /\ snapshot' = targets
  /\ UNCHANGED <<config, suspended, regAt, messages, torn>>

\* A slip: the targets are not told of the end.
UnregNoTargets ==
  /\ io = "closing"
  /\ io' = "closed"
  /\ snapshot' = {}
  /\ UNCHANGED <<config, suspended, known, regAt, messages, torn>>

UnregTargets ==
  /\ io = "closing"
  /\ io' = "closed"
  /\ known' = known \ snapshot
  /\ snapshot' = {}
  /\ UNCHANGED <<config, suspended, regAt, messages, torn>>

-----------------------------------------------------------------------------
(* perform_incoming *)

Send(m, t) ==
  /\ pc' = [pc EXCEPT ![m] = "done"]
  /\ dest' = [dest EXCEPT ![m] = t]

\* A message of a suspended domain, or without a method, goes to the default target.
PassThrough(m) ==
  /\ pc[m] = "new" /\ io = "open"
  /\ suspended \/ ~HasMethod(call[m])
  /\ Send(m, Default)
  /\ UNCHANGED <<config, suspended, connection, call, checked, torn>>

\* A slip: the reject list is read without the lock.
CheckUnlocked(m) ==
  /\ pc[m] = "new" /\ io = "open"
  /\ ~suspended /\ HasMethod(call[m])
  /\ checked' = [checked EXCEPT ![m] = Len(applied)]
  /\ IF Rejects(reject, call[m]) THEN Send(m, Refused)
     ELSE pc' = [pc EXCEPT ![m] = "checked"] /\ UNCHANGED dest
  /\ UNCHANGED <<config, suspended, connection, call, torn>>

\* The reject list, under the lock.
Check(m) ==
  /\ pc[m] = "new" /\ io = "open"
  /\ ~suspended /\ HasMethod(call[m])
  /\ LockFree
  /\ checked' = [checked EXCEPT ![m] = Len(applied)]
  /\ IF Rejects(reject, call[m]) THEN Send(m, Refused)
     ELSE pc' = [pc EXCEPT ![m] = "checked"] /\ UNCHANGED dest
  /\ UNCHANGED <<config, suspended, connection, call, torn>>

\* The rules, without the lock.
Scan(m) ==
  /\ pc[m] = "checked"
  /\ pc' = [pc EXCEPT ![m] = "scanning"]
  /\ UNCHANGED <<config, suspended, connection, call, dest, checked, torn>>

Forward(m) ==
  /\ pc[m] = "scanning"
  /\ IF m \in torn THEN \E t \in Targets \cup {Default} : Send(m, t)
     ELSE Send(m, Route(rules, call[m]))
  /\ UNCHANGED <<config, suspended, connection, call, checked, torn>>

Suspend ==
  /\ "suspend" \in Env
  /\ suspended' = ~suspended
  /\ UNCHANGED <<config, connection, messages, torn>>

Restart == Reconfigure \/ InstallTargets \/ InstallReject \/ InstallRules
Connection == RegIo \/ RegTargets \/ UnregIo \/ UnregTargets
Perform(m) == PassThrough(m) \/ Check(m) \/ Scan(m) \/ Forward(m)

Next ==
  \/ Restart \/ Connection \/ Suspend
  \/ \E m \in Messages : Perform(m)

Spec == Init /\ [][Next]_vars

-----------------------------------------------------------------------------
(* Properties *)

\* Types. What is not idle is about to install a configuration that is valid.
TypeOK ==
  /\ options \in Files /\ writer \in {"idle", "made", "targets", "reject"}
  /\ writer # "idle" => Valid(options)
  /\ targets \subseteq Targets /\ snapshot \subseteq Targets
  /\ known \subseteq Targets \cup {Default}
  /\ suspended \in BOOLEAN /\ torn \subseteq Messages \cup {Io}
  /\ io \in {"none", "registering", "open", "closing", "closed"}
  /\ pc \in [Messages -> {"new", "checked", "scanning", "done"}]
  /\ dest \in [Messages -> Targets \cup {Default, NoTarget, Refused}]
  /\ \A m \in Messages : checked[m] \in 0..Len(applied)
  /\ Len(applied) \in 1..MaxInstalls

InForce == applied[Len(applied)]

\* The three parts come from one configuration when restart does not run, and a
\* configuration with a rule that does not parse leaves all three as they were.
Consistent ==
  writer \in {"idle", "made"} =>
    /\ Valid(InForce)
    /\ targets = TargetsOf(InForce)
    /\ reject = InForce.reject
    /\ rules = InForce.rules

\* A message that no reconfiguration overtakes while it scans the rules goes where one
\* configuration sends it; between the check and the scan the configuration may only
\* have become newer. In particular a method that every configuration rejects reaches
\* no target.
Allowed(m, i, j) ==
  IF Rejects(applied[i].reject, call[m]) THEN dest[m] = Refused
  ELSE dest[m] = Route(applied[j].rules, call[m])

Routed ==
  \A m \in Messages \ torn :
    pc[m] = "done" /\ checked[m] # 0 =>
      \E j \in checked[m]..Len(applied) : Allowed(m, checked[m], j)

\* While the connection is open, whatever target a message of it reaches has been told
\* of the connection, unless a reconfiguration after reg_io has brought the target in.
KnownSender ==
  \A m \in Messages :
    io = "open" /\ Io \notin torn /\ dest[m] \in Targets /\ dest[m] \notin known =>
      /\ regAt < Len(applied)
      /\ dest[m] \notin TargetsOf(applied[regAt])

\* When the connection is closed nobody thinks that it is open, but the targets that a
\* reconfiguration meanwhile took from the list.
NoGhosts ==
  io = "closed" /\ Io \notin torn =>
    \E j \in regAt..Len(applied) :
      known = TargetsOf(applied[regAt]) \ TargetsOf(applied[j])

\* The configuration whose rules are in _rules: restart assigns them last, so for those
\* who wait for the lock it replaces everything then.
Ruling == IF writer \in {"targets", "reject"} THEN Len(applied) - 1 ELSE Len(applied)

Stage ==
  [m \in Messages |-> IF pc[m] \in {"checked", "scanning"} THEN "underway" ELSE pc[m]]

Configurations == {f \in Files \cup {Nothing} : Valid(f)}

Promise == INSTANCE BrokerPromise WITH
  conf <- applied[Ruling], stage <- Stage, overtaken <- torn \ {Io}

\* jsonrpc-broker keeps its promise: restart, which assigns one list after the other and
\* may fail in the middle, replaces the configuration as a whole for every message that
\* it does not overtake in the rules.
KeepsPromise == Promise!Spec
=============================================================================
