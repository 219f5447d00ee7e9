---------------------------- MODULE MCTrustChain ----------------------------
(***************************************************************************)
(* A leaf below two intermediates below an anchor; and every chain that    *)
(* differs from the right one, or from a shorter right one, in one JWT:    *)
(* one of its claims, its header or its signature, or that it is missing,  *)
(* repeated or in the place of another.                                    *)
(***************************************************************************)
EXTENDS TrustChain

K(kid, key) == [kid |-> kid, key |-> key]

\* Every entity has one key; other keys may carry the same kid.
KeyOf == [e \in Entities |-> "key of " \o e]
Owns == [k \in Keys |-> CHOOSE e \in Entities : k = KeyOf[e]]

Config(e) ==
  [iss |-> e, sub |-> e, exp |-> 2, nbf |-> 0, iat |-> 0, jwks |-> <<K("1", KeyOf[e])>>,
   kid |-> "1", key |-> KeyOf[e], crit |-> {}, formed |-> TRUE]

About(superior, e) == [Config(e) EXCEPT !.iss = superior, !.key = KeyOf[superior]]

Right ==
  <<Config("leaf"), About("low", "leaf"), About("high", "low"), About("anchor", "high"),
    Config("anchor")>>

Shorter == <<Config("leaf"), About("anchor", "leaf"), Config("anchor")>>

Alone == <<Config("anchor"), Config("anchor")>>

SomeJwks ==
  {<< >>} \cup {<<K(k, KeyOf[e])>> : k \in Kids \cup {NoKid}, e \in Entities}
    \cup {<<K("1", KeyOf[e]), K("1", KeyOf[f])>> : e, f \in Entities}

Changed(jwt) ==
  {[jwt EXCEPT !.iss = e] : e \in Entities} \cup {[jwt EXCEPT !.sub = e] : e \in Entities}
    \cup {[jwt EXCEPT !.exp = t] : t \in -1..2} \cup {[jwt EXCEPT !.nbf = t] : t \in 0..2}
    \cup {[jwt EXCEPT !.iat = t] : t \in 0..3}
    \cup {[jwt EXCEPT !.jwks = ks] : ks \in SomeJwks}
    \cup {[jwt EXCEPT !.kid = k] : k \in Kids \cup {NoKid}}
    \cup {[jwt EXCEPT !.key = k] : k \in Keys}
    \cup {[jwt EXCEPT !.crit = c] : c \in SUBSET Claims}
    \cup {[jwt EXCEPT !.formed = FALSE]}

OneChanged(c) == UNION {{[c EXCEPT ![i] = jwt] : jwt \in Changed(c[i])} : i \in DOMAIN c}

OneMissing(c) == {SubSeq(c, 1, i - 1) \o SubSeq(c, i + 1, Len(c)) : i \in DOMAIN c}

OneRepeated(c) == {SubSeq(c, 1, i) \o SubSeq(c, i, Len(c)) : i \in DOMAIN c}

TwoSwapped(c) == {[c EXCEPT ![i] = c[j], ![j] = c[i]] : i, j \in DOMAIN c}

\* A chain whose leaf signs with a key of its own choice, which it lists.
OwnKey(c) == {[c EXCEPT ![1].jwks = <<K("1", k)>>, ![1].key = k] : k \in Keys}

Around(c) ==
  OneChanged(c) \cup OneMissing(c) \cup OneRepeated(c) \cup TwoSwapped(c) \cup OwnKey(c)

SomeChains ==
  {<< >>} \cup UNION {Around(c) : c \in {Right, Shorter, Alone}}

\* Everything that can be handed over is a list of JWTs.
SomeEntities == {"leaf", "low", "high", "anchor"}
SomeKeys == {"key of " \o e : e \in SomeEntities}
SomeKids == {"1", "2"}
=============================================================================
