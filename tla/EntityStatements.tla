-------------------------- MODULE EntityStatements --------------------------
(***************************************************************************)
(* Entity Configurations and Subordinate Statements, and the checks that   *)
(* turn a JWT into one of them: from_verified_jwt of both (entity.rs) and  *)
(* the signature and time checks below them (jwt.rs).                      *)
(*                                                                         *)
(* A JWT is a record of what the checks look at.  `kid` is what its header *)
(* names and `key` the key that really signed it; `formed` stands for the  *)
(* checks that depend on nothing but the JWT: its typ header, claims that  *)
(* parse, hints that are not empty, Trust Marks of the type they claim,    *)
(* and a crit that names extension claims the JWT carries.                 *)
(***************************************************************************)
EXTENDS Integers, Sequences

CONSTANTS
  Entities,    \* Entity Identifiers
  Keys,        \* key pairs
  Kids, NoKid, \* key ids; a header or a JWK may have none, or an empty one
  Claims,      \* the extension claims a JWT may mark critical
  Understood,  \* the ones of them that the caller understands
  Leeway       \* CLOCK_SKEW_LEEWAY, for the clocks of others

ASSUME StatementsAssumption ==
  /\ NoKid \notin Kids
  /\ Understood \subseteq Claims
  /\ Leeway \in Nat

PublicJwk == [kid : Kids \cup {NoKid}, key : Keys]

\* A JWT without nbf is one whose nbf is long past.
Jwt == [iss    : Entities,
        sub    : Entities,
        exp    : Int,
        nbf    : Int,
        iat    : Int,
        jwks   : Seq(PublicJwk),
        kid    : Kids \cup {NoKid},
        key    : Keys,
        crit   : SUBSET Claims,
        formed : BOOLEAN]

\* The first key of `jwks` with the header's kid signed the JWT.
NamedKeySigned(jwt, jwks) ==
  /\ jwt.kid # NoKid
  /\ \E j \in DOMAIN jwks :
       /\ jwks[j].kid = jwt.kid
       /\ jwks[j].key = jwt.key
       /\ \A i \in 1..(j - 1) : jwks[i].kid # jwt.kid

\* Mistake: no leeway for the clock of the issuer.
TimesHoldStrictly(jwt, t) == jwt.exp >= t /\ jwt.nbf <= t /\ jwt.iat <= t

\* TimeClaims::validate, with leeway.
TimesHold(jwt, t) ==
  /\ jwt.exp >= t - Leeway
  /\ jwt.nbf <= t + Leeway
  /\ jwt.iat <= t + Leeway

\* verify_jwt_with_jwks, for JWTs of the right typ.
Verifies(jwt, jwks, t) == NamedKeySigned(jwt, jwks) /\ TimesHold(jwt, t)

\* The checks that EntityConfiguration and SubordinateStatement share, their
\* exp and nbf without leeway.
IsCurrent(jwt, t) ==
  /\ jwt.formed
  /\ jwt.jwks # << >>
  /\ jwt.exp >= t
  /\ jwt.nbf <= t

IsUnderstood(jwt) == jwt.crit \subseteq Understood

\* EntityConfiguration::from_verified_jwt.
IsConfigurationOf(jwt, entity, t) ==
  /\ IsCurrent(jwt, t)
  /\ jwt.iss = entity /\ jwt.sub = entity
  /\ Verifies(jwt, jwt.jwks, t)
  /\ IsUnderstood(jwt)

\* SubordinateStatement::from_verified_jwt.
IsStatementAbout(jwt, issuer, subject, issuerKeys, t) ==
  /\ jwt.iss # jwt.sub
  /\ IsCurrent(jwt, t)
  /\ jwt.iss = issuer /\ jwt.sub = subject
  /\ Verifies(jwt, issuerKeys, t)
  /\ IsUnderstood(jwt)
=============================================================================
