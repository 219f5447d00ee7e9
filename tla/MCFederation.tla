---------------------------- MODULE MCFederation ----------------------------
(***************************************************************************)
(* A leaf, two intermediates and an anchor, with and without loops, with   *)
(* branches that meet.  In each at most one thing is wrong to begin with:  *)
(* a Superior does not know its subordinate, or knows its previous key, or *)
(* has no fetch endpoint.                                                  *)
(***************************************************************************)
EXTENDS Federation

CONSTANTS leaf, a, b, anchor

SomeHints ==
  {[e \in Entities |-> CASE e = leaf -> l [] e = a -> x [] e = b -> y [] e = anchor -> z] :
     l \in {<<a>>, <<a, b>>},
     x \in {<< >>, <<anchor>>, <<b, anchor>>},
     y \in {<<anchor>>, <<a, anchor>>, <<leaf, a>>},
     z \in {<< >>, <<a>>}}

Edges(h) == {<<s, e>> \in Entities \X Entities : s \in ToSet(h[e])}

AllEndorsed(h) ==
  [s \in Entities |-> [e \in Entities |-> IF <<s, e>> \in Edges(h) THEN 1 ELSE NoKey]]

EndorsedIn(h) ==
  {AllEndorsed(h)}
    \cup {[AllEndorsed(h) EXCEPT ![edge[1]][edge[2]] = k] : edge \in Edges(h), k \in {NoKey, 0}}

FederationsWith(h) ==
  [hints : {h}, endpoints : {Entities}, endorsed : EndorsedIn(h)]
    \cup [hints : {h}, endpoints : {Entities \ {a}, Entities \ {anchor}},
          endorsed : {AllEndorsed(h)}]

\* A Superior without a fetch endpoint, and a way past its subordinate.
Detour == (leaf :> <<a, anchor>>) @@ (a :> <<b, anchor>>) @@ (b :> <<anchor>>) @@ (anchor :> << >>)

SomeFederations ==
  UNION {FederationsWith(h) : h \in SomeHints}
    \cup {[hints |-> Detour, endpoints |-> Entities \ {b}, endorsed |-> AllEndorsed(Detour)]}
=============================================================================
