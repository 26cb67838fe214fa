------------------------------- MODULE Routing -------------------------------
(***************************************************************************)
(* Broker with the matchers of Matchmaker: a rule's matcher is made of a   *)
(* mode and a pattern, and its verdict on a message is what match says of  *)
(* the message's parameters.                                               *)
(***************************************************************************)
EXTENDS Matchmaker, Broker

CONSTANTS
  Mode,     \* the mode of each matcher
  Pattern,  \* and its pattern
  Param     \* the JSON of parameters

\* A matcher that ends with an error is not asked for its verdict.
Judgement(mode, p, v) ==
  LET r == Match(mode)[p][FALSE][v][FALSE]
  IN  IF r.err THEN "error" ELSE IF r.ok THEN "match" ELSE "no"

ASSUME MatchersAssumption ==
  /\ \A k \in Matchers : Mode[k] \subseteq Bits /\ Pattern[k] \in Json
  /\ \A c \in Calls : Param[c.params] \in Values
  /\ Parsed = {k \in Matchers : Parses[Pattern[k]]}
  /\ \A k \in Parsed, c \in Calls :
       Verdict[k][c.params] = Judgement(Mode[k], Pattern[k], Param[c.params])

-----------------------------------------------------------------------------
(* Where a message goes by the meaning of the patterns *)

Means(r, c) ==
  /\ r.methods = {} \/ All \in r.methods \/ c.method \in r.methods
  /\ r.matcher = NoMatcher \/ Fits(Mode[r.matcher])[Pattern[r.matcher]][FALSE][Param[c.params]]

ByValueBits(r) ==
  r.matcher = NoMatcher \/ ValueLeaf(Mode[r.matcher]) = MeantLeaf(Mode[r.matcher])

\* A matcher raises an error, and has a reason to.
Raises(r, c) ==
  /\ r.matcher # NoMatcher
  /\ Verdict[r.matcher][c.params] = "error"
  /\ MayRaise(Pattern[r.matcher], Param[c.params])

MeantRoute(rs, c) ==
  LET fit == {i \in DOMAIN rs : Means(rs[i], c)}
  IN  IF fit = {} THEN Default ELSE rs[CHOOSE i \in fit : \A j \in fit : i <= j].target

\* A rule never takes a message that its pattern does not mean, errors or not; and unless a
\* matcher raises an error, which takes an object in a pattern or a message without
\* parameters, the message goes to the first rule that means it. This leaves out the modes
\* in which the bits of names decide how values are compared.
RoutedAsMeant ==
  \A m \in Messages \ torn :
    LET rs == InForce.rules
        c  == call[m]
    IN  /\ pc[m] = "done" /\ dest[m] # Refused /\ checked[m] = Len(applied)
        /\ \A i \in DOMAIN rs : ByValueBits(rs[i])
        => /\ dest[m] # Default =>
                \E i \in DOMAIN rs : rs[i].target = dest[m] /\ Means(rs[i], c)
           /\ (\A i \in DOMAIN rs : ~Raises(rs[i], c)) => dest[m] = MeantRoute(rs, c)
=============================================================================
