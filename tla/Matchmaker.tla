------------------------------ MODULE Matchmaker ------------------------------
(***************************************************************************)
(* The matchmaker (utilites/matchmaker): does a JSON value fit a pattern,   *)
(* itself written in JSON? A null fits anything, an array is a choice of   *)
(* alternatives and, inside a choice, a set of elements to be found, an    *)
(* object names members to be found, and a string is compared as the mode  *)
(* says: in full, as a prefix or as a regular expression.                  *)
(*                                                                         *)
(* A matcher reports an error beside its verdict, and the error is carried *)
(* from one matcher to the next and never reset: that is what the model    *)
(* keeps. Texts are sequences of characters, and a regular expression is a *)
(* text of which "." stands for any one character.                         *)
(***************************************************************************)
EXTENDS Naturals, Sequences, SequencesExt

CONSTANTS
  Texts,  \* the texts of strings and of names
  Json,   \* the JSON values of patterns and of parameters, with all that is in them
  Depth   \* how deep each of them is nested

Null == [t |-> "null"]
Num == [t |-> "num"]
Str(s) == [t |-> "str", s |-> s]
Arr(e) == [t |-> "arr", e |-> e]
\* Members are pairs of a name and a value.
Obj(m) == [t |-> "obj", m |-> m]
\* A message without parameters has an empty text in their place.
Missing == [t |-> "none"]
Values == Json \cup {Missing}

Bits == {"FullName", "FullValue", "PrefixName", "PrefixValue", "RegexName", "RegexValue"}

Elements(p) == IF p.t = "arr" THEN {p.e[i] : i \in DOMAIN p.e} ELSE {}
Members(p) == IF p.t = "obj" THEN {p.m[i][2] : i \in DOMAIN p.m} ELSE {}

\* JSON is a text, so what is nested in it is so finitely often.
ASSUME JsonAssumption ==
  /\ Json \subseteq {Null, Num} \cup [t : {"str"}, s : Texts]
                   \cup [t : {"arr"}, e : Seq(Json)] \cup [t : {"obj"}, m : Seq(Texts \X Json)]
  /\ Depth \in [Json -> Nat]
  /\ \A p \in Json : \A q \in Elements(p) \cup Members(p) : Depth[q] < Depth[p]

-----------------------------------------------------------------------------
(* The leaves *)

\* match_factory. What a value is compared by depends on the bits of names too.
NameLeaf(mode) ==
  IF "FullName" \in mode THEN "full"
  ELSE IF "PrefixName" \in mode THEN "prefix"
  ELSE IF "RegexName" \in mode THEN "regex" ELSE "full"

ValueLeaf(mode) ==
  IF "FullValue" \in mode THEN "full"
  ELSE IF mode \cap {"PrefixName", "PrefixValue"} # {} THEN "prefix"
  ELSE IF mode \cap {"RegexName", "RegexValue"} # {} THEN "regex" ELSE "full"

RegexFits(re, text) ==
  Len(re) = Len(text) /\ \A i \in 1..Len(re) : re[i] \in {".", text[i]}

TextFits(leaf, p, text) ==
  CASE leaf = "full"   -> p = text
    [] leaf = "prefix" -> IsPrefix(p, text)
    [] leaf = "regex"  -> RegexFits(p, text)

\* A regular expression is tried on the raw text of what is not a string; that of an
\* array or an object is longer than any expression here.
Raw(v) == IF v.t = "null" THEN <<"n", "u", "l", "l">> ELSE <<"1">>

LeafFits(leaf, p, v) ==
  \/ v.t = "str" /\ TextFits(leaf, p, v.s)
  \/ v.t \in {"null", "num"} /\ leaf = "regex" /\ RegexFits(p, Raw(v))

-----------------------------------------------------------------------------
(* configure: what can be made a matcher *)

Parses[p \in Json] ==
  /\ p.t # "num"
  /\ \A q \in Elements(p) \cup Members(p) : Parses[q]

Patterns == {p \in Json : Parses[p]}

-----------------------------------------------------------------------------
(* match. inner says that the pattern is an element of an array that is a choice of
   alternatives: there an array stands for elements to be found. What a matcher calls the
   matchers of its parts for is the argument match. *)

Result(ok, err) == [ok |-> ok, err |-> err]
Results == [ok : BOOLEAN, err : BOOLEAN]

\* What body, done for 1, 2, ... n, makes of start.
Loop(body, start, n) ==
  LET after[i \in 0..n] == IF i = 0 THEN start ELSE body[i][after[i - 1]]
  IN  after[n]

\* full_match and regex_match parse the value, prefix_match only looks whether it is a
\* string: there is an error when there is nothing to parse.
LeafMatch(leaf, p, v, err) ==
  Result(~err /\ LeafFits(leaf, p.s, v), err \/ (v.t = "none" /\ leaf # "prefix"))

\* variant_match: the first alternative that fits, whatever error the ones before it
\* have left.
VariantMatch(match, p, v, err) ==
  Loop([i \in DOMAIN p.e |-> [acc \in Results |->
          IF acc.ok THEN acc ELSE match[p.e[i]][TRUE][v][acc.err]]],
       Result(FALSE, err), Len(p.e))

\* array_match: every pattern has an element that fits it.
Found(match, q, v, err) ==
  Loop([j \in DOMAIN v.e |-> [acc \in Results |->
          IF acc.ok THEN acc ELSE match[q][FALSE][v.e[j]][acc.err]]],
       Result(FALSE, err), Len(v.e))

\* A slip: one element of the array is enough.
ArrayMatchAny(match, p, v, err) ==
  IF v.t # "arr" \/ err THEN Result(FALSE, err)
  ELSE Loop([i \in DOMAIN p.e |-> [acc \in Results |->
               IF acc.ok THEN acc ELSE Found(match, p.e[i], v, acc.err)]],
            Result(FALSE, err), Len(p.e))

ArrayMatch(match, p, v, err) ==
  IF v.t # "arr" \/ err THEN Result(FALSE, err)
  ELSE Loop([i \in DOMAIN p.e |-> [acc \in Results |->
               IF acc.ok THEN Found(match, p.e[i], v, acc.err) ELSE acc]],
            Result(TRUE, err), Len(p.e))

\* object_match: every member has one that fits it by name and value; the search for it
\* ends when there is an error. What is not an object is an error.
MemberFound(match, leaf, q, v, err) ==
  Loop([j \in DOMAIN v.m |-> [acc \in Results |->
          IF acc.ok \/ acc.err \/ ~TextFits(leaf, q[1], v.m[j][1]) THEN acc
          ELSE match[q[2]][FALSE][v.m[j][2]][acc.err]]],
       Result(FALSE, err), Len(v.m))

ObjectMatch(match, leaf, p, v, err) ==
  IF v.t # "obj" \/ err THEN Result(FALSE, TRUE)
  ELSE Loop([i \in DOMAIN p.m |-> [acc \in Results |->
               IF acc.ok THEN MemberFound(match, leaf, p.m[i], v, acc.err) ELSE acc]],
            Result(TRUE, err), Len(p.m))

MatchWith(match, mode, p, inner, v, err) ==
  CASE p.t = "null" -> Result(TRUE, err)
    [] p.t = "str" -> LeafMatch(ValueLeaf(mode), p, v, err)
    [] p.t = "arr" /\ p.e = <<>> -> Result(TRUE, err)
    [] p.t = "arr" /\ p.e # <<>> /\ ~inner -> VariantMatch(match, p, v, err)
    [] p.t = "arr" /\ p.e # <<>> /\ inner -> ArrayMatch(match, p, v, err)
    [] p.t = "obj" /\ p.m = <<>> -> Result(TRUE, err)
    [] p.t = "obj" /\ p.m # <<>> -> ObjectMatch(match, NameLeaf(mode), p, v, err)

Match(mode) ==
  LET match[p \in Patterns] ==
        [inner \in BOOLEAN |-> [v \in Values |-> [err \in BOOLEAN |->
           MatchWith(match, mode, p, inner, v, err)]]]
  IN  match

-----------------------------------------------------------------------------
(* What a pattern means: without errors and the order in which things are tried, and
   with values compared by the bits of values. *)

MeantLeaf(mode) ==
  IF "FullValue" \in mode THEN "full"
  ELSE IF "PrefixValue" \in mode THEN "prefix"
  ELSE IF "RegexValue" \in mode THEN "regex" ELSE "full"

FitsWith(fits, mode, p, inner, v) ==
  \/ p.t = "null"
  \/ p.t = "str" /\ LeafFits(MeantLeaf(mode), p.s, v)
  \/ /\ p.t = "arr"
     /\ \/ p.e = <<>>
        \/ ~inner /\ \E i \in DOMAIN p.e : fits[p.e[i]][TRUE][v]
        \/ inner /\ v.t = "arr" /\ \A i \in DOMAIN p.e :
                                     \E j \in DOMAIN v.e : fits[p.e[i]][FALSE][v.e[j]]
  \/ /\ p.t = "obj"
     /\ \/ p.m = <<>>
        \/ v.t = "obj" /\ \A i \in DOMAIN p.m :
                            \E j \in DOMAIN v.m :
                              /\ TextFits(NameLeaf(mode), p.m[i][1], v.m[j][1])
                              /\ fits[p.m[i][2]][FALSE][v.m[j][2]]

Fits(mode) ==
  LET fits[p \in Patterns] ==
        [inner \in BOOLEAN |-> [v \in Values |-> FitsWith(fits, mode, p, inner, v)]]
  IN  fits

\* Where an error can come from: an object in the pattern, or nothing in the message.
HasObject[p \in Json] == p.t = "obj" \/ \E q \in Elements(p) : HasObject[q]

MayRaise(p, v) == HasObject[p] \/ v = Missing
=============================================================================
