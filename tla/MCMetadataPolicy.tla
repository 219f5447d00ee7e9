-------------------------- MODULE MCMetadataPolicy --------------------------
(***************************************************************************)
(* Every pair of policies with one or two operators each over two words,   *)
(* and every three with one.                                               *)
(***************************************************************************)
EXTENDS MetadataPolicy

A == String(<<"a">>)
B == String(<<"b">>)
AB == String(<<"a", "b">>)

MCListed == {A, B, AB}

\* One operator with one operand.
Operators ==
  ({"value"} \X {Null, A, AB, Other, Array(<< >>), Array(<<A>>), Array(<<A, B>>), Array(<<B, A>>)})
    \cup ({"add"} \X {{}, {A}, {B}, {AB}})
    \cup ({"default"} \X {Null, A, Array(<<B>>)})
    \cup ({"one_of"} \X {{A}, {B}, {A, AB}})
    \cup ({"subset_of"} \X {{}, {A}, {A, B}, {A, AB}})
    \cup ({"superset_of"} \X {{}, {A}, {B}})
    \cup ({"essential"} \X {TRUE, FALSE})
    \cup {<<"additional", {"regexp"}>>}

With(p, o) == [p EXCEPT ![o[1]] = o[2]]

Singles == {With(NoOperators, o) : o \in Operators}

Doubles == {With(p, o) : p \in Singles, o \in Operators}

Uncritical(policies) == [policy : policies, crit : {{}}]

\* Statements that call the additional operator critical, and have or lack it.
Critical1 == [policy : {None, With(NoOperators, <<"additional", {"regexp"}>>)}, crit : {{"regexp"}}]

MCChains ==
  LET one == Uncritical(Doubles \cup {None, NoOperators}) \cup Critical1
      three == Uncritical(Singles)
  IN {<<s>> : s \in one} \cup (one \X one) \cup (three \X three \X three)

MCParameters ==
  {Field("any", FALSE), Field("scope", FALSE), Field("endpoint", FALSE), Field("array", TRUE)}

MCMetadata == {None, Null, A, AB, Other, Array(<< >>), Array(<<B>>), Array(<<B, A>>), Array(<<A, A>>), Array(<<AB>>)}
=============================================================================
