------------------------------- MODULE MCBroker -------------------------------
(***************************************************************************)
(* Broker with the matchers of Routing. Three configurations replace       *)
(* one another, one of them with a rule that does not parse; the others    *)
(* have one rule each, for the patterns and modes that are to be tried.    *)
(***************************************************************************)
EXTENDS Routing, TLC

CONSTANTS m1, m2, t1, t2

a == <<"a">>
ab == <<"a", "b">>
dot == <<".">>

Parameters ==
  <<Missing, Null, Num, Str(a), Str(ab), Arr(<<>>), Arr(<<Num, Str(a)>>), Arr(<<Str(ab), Str(a)>>),
    Arr(<<Arr(<<Str(a)>>)>>), Obj(<< <<a, Str(a)>> >>), Obj(<< <<a, Num>>, <<ab, Str(ab)>> >>),
    Obj(<< <<ab, Arr(<<Str(a), Str(ab)>>)>> >>), Obj(<< <<a, Obj(<< <<a, Num>> >>)>> >>)>>

Leaves == <<Null, Str(a), Str(dot)>>

Alternatives ==
  <<Arr(<<>>), Arr(<<Str(ab), Str(a)>>), Arr(<<Obj(<< <<a, Null>> >>), Str(a)>>),
    Arr(<<Str(a), Obj(<< <<a, Null>> >>)>>), Arr(<<Obj(<< <<a, Str(a)>> >>), Null>>),
    Arr(<<Arr(<<Str(a), Str(ab)>>)>>), Arr(<<Arr(<<Arr(<<Arr(<<Str(a)>>)>>)>>)>>),
    Arr(<<Arr(<<>>)>>)>>

Objects ==
  <<Obj(<<>>)>> \o [i \in DOMAIN Leaves |-> Obj(<< <<a, Leaves[i]>> >>)]
  \o [i \in DOMAIN Leaves |-> Obj(<< <<a, Null>>, <<ab, Leaves[i]>> >>)]
  \o <<Obj(<< <<a, Obj(<< <<a, Str(a)>> >>)>> >>), Obj(<< <<ab, Arr(<<Arr(<<Str(ab), Str(a)>>)>>)>> >>),
       Obj(<< <<a, Arr(<<Obj(<< <<ab, Null>> >>), Str(a)>>)>>, <<ab, Null>> >>)>>

PatternTable == Leaves \o Alternatives \o Objects

ModeTable ==
  <<{"FullName", "FullValue"}, {"PrefixName", "PrefixValue"}, {"FullName", "PrefixValue"},
    {"RegexName", "RegexValue"}, {"PrefixName", "RegexValue"}>>

\* Matchers and parameters are numbers, for the states to be small.
Matcher(mode, p) == [mode |-> mode, p |-> p]

Table ==
  <<Matcher({"FullName", "FullValue"}, Obj(<< <<a, Num>> >>)),
    Matcher({"FullName", "FullValue"}, Obj(<< <<a, Str(a)>> >>))>> \o
  FlattenSeq([i \in DOMAIN ModeTable |->
                [j \in DOMAIN PatternTable |-> Matcher(ModeTable[i], PatternTable[j])]])

\* The first one does not parse.
BadMatcher == 1
AMatcher == 2
MCMatchers == 1..107
MCParsed == 2..107

AParams == 10
OtherParams == 3
Params == DOMAIN Parameters

MCMode == LET table == Table IN [k \in MCMatchers |-> table[k].mode]
MCPattern == LET table == Table IN [k \in MCMatchers |-> table[k].p]
MCParam == Parameters
MCTexts == {a, ab, dot}

\* All that is in a value, and how deep it is nested.
RECURSIVE Within(_), Height(_)
Within(p) == {p} \cup UNION {Within(q) : q \in Elements(p) \cup Members(p)}
Height(p) ==
  LET parts == Elements(p) \cup Members(p)
  IN  IF parts = {} THEN 0 ELSE 1 + Max({Height(q) : q \in parts})

MCJson ==
  UNION {Within(p) : p \in ({Parameters[v] : v \in Params} \ {Missing})
                           \cup {Table[1].p} \cup {PatternTable[j] : j \in DOMAIN PatternTable}}
MCDepth == [p \in MCJson |-> Height(p)]

MCVerdict ==
  LET mode == MCMode
      p == MCPattern
  IN  [k \in MCMatchers |-> [v \in Params |->
         IF k \in MCParsed THEN Judgement(mode[k], p[k], Parameters[v]) ELSE "no"]]

MCMethods == {"get", "set"}
Call(method, params) == [method |-> method, params |-> params]
WithoutMethod == Call(NoMethod, AParams)
MCCalls == {Call(method, v) : method \in MCMethods, v \in Params} \cup {WithoutMethod}
Rule(ms, t, mt) == [methods |-> ms, target |-> t, matcher |-> mt]

FileA == [reject |-> {"set"}, rules |-> <<Rule({"get"}, t1, AMatcher), Rule({}, t2, NoMatcher)>>]
FileB == [reject |-> {}, rules |-> <<Rule({"set"}, t2, NoMatcher)>>]
FileC == [reject |-> {All}, rules |-> <<Rule({All}, t2, NoMatcher), Rule({"get"}, t1, BadMatcher)>>]

FilesOfMatchers == {[reject |-> {}, rules |-> <<Rule({"get"}, t1, k)>>] : k \in MCParsed}

MCFiles == {FileA, FileB, FileC} \cup FilesOfMatchers

Asking(v) == (m1 :> Call("set", OtherParams)) @@ (m2 :> Call("get", v))

\* A result, which has no method, next to a request that is rejected.
Answering == (m1 :> Call("set", OtherParams)) @@ (m2 :> WithoutMethod)

MCScenarios ==
  {FileA, FileB, FileC} \X {Asking(AParams), Asking(OtherParams)}
  \cup {<<FileA, Answering>>}
  \cup FilesOfMatchers \X {Asking(v) : v \in Params}

MCEdits == {<<FileA, FileB>>, <<FileB, FileA>>, <<FileA, FileC>>, <<FileB, FileC>>, <<FileC, FileA>>}
=============================================================================
