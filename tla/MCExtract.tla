------------------------------ MODULE MCExtract ------------------------------
(***************************************************************************)
(* Extract with a parser for a small JSON: the values are strings, arrays  *)
(* of values and objects of strings and values, without separators. A      *)
(* string is what is between two quotes, brackets included.                *)
(***************************************************************************)
EXTENDS Extract, FiniteSets

CONSTANT MaxLen

Quote == "q"
Chars == {"[", "]", "{", "}", Quote}
MCTexts == UNION {[1..n -> Chars] : n \in 0..MaxLen}

RECURSIVE ParseValue(_, _)
RECURSIVE ParseItems(_, _)
RECURSIVE ParseMembers(_, _)

ParseString(t, i) ==
  LET quotes == {j \in i + 1 .. Len(t) : t[j] = Quote}
  IN  IF i > Len(t) \/ quotes = {} THEN Fail
      ELSE IF t[i] # Quote THEN Fail
      ELSE 1 + CHOOSE j \in quotes : \A k \in quotes : j <= k

ParseItems(t, i) ==
  IF i > Len(t) THEN Fail
  ELSE IF t[i] = "]" THEN i + 1
  ELSE LET j == ParseValue(t, i) IN IF j = Fail THEN Fail ELSE ParseItems(t, j)

ParseMembers(t, i) ==
  IF i > Len(t) THEN Fail
  ELSE IF t[i] = "}" THEN i + 1
  ELSE LET n == ParseString(t, i)
           j == IF n = Fail THEN Fail ELSE ParseValue(t, n)
       IN  IF j = Fail THEN Fail ELSE ParseMembers(t, j)

ParseValue(t, i) ==
  IF i > Len(t) THEN Fail
  ELSE IF t[i] = "[" THEN ParseItems(t, i + 1)
  ELSE IF t[i] = "{" THEN ParseMembers(t, i + 1)
  ELSE ParseString(t, i)
=============================================================================
