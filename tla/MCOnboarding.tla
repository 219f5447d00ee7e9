---------------------------- MODULE MCOnboarding ----------------------------
(* Bounds for Onboarding: a candidate, the Superior itself and an entity   *)
(* whose identifier is not an https URL, any of which may be checked.      *)
(***************************************************************************)
EXTENDS Onboarding

Key(n) == [kid |-> "a", key |-> n]

SuperiorKey == [kid |-> "s", key |-> "superior"]

\* A configuration that passes every check.
Good == [jwt |-> [iss |-> "op", sub |-> "op", exp |-> 5, nbf |-> 0, iat |-> 0,
                  jwks |-> <<Key("one")>>, kid |-> "a", key |-> "one",
                  crit |-> {}, formed |-> TRUE],
         hints |-> {"superior"}]

\* The configuration of `e`, which differs from Good in nothing else.
Of(e) == [Good EXCEPT !.jwt.iss = e, !.jwt.sub = e]

\* What hosts answer: Good, another key under the same kid, a configuration
\* that expires soon, and ones that differ from Good in one thing that matters.
AnsweredConfigurations ==
  { Good,
    [Good EXCEPT !.jwt.jwks = <<Key("two")>>, !.jwt.key = "two"],
    [Good EXCEPT !.jwt.exp = 1],
    [Good EXCEPT !.hints = {}],
    [Good EXCEPT !.jwt.key = "two"],
    [Good EXCEPT !.jwt.jwks = <<Key("one"), Key("two")>>],
    [Good EXCEPT !.jwt.crit = {"extension"}],
    Of("superior"),
    Of("insecure") }

Plain == [permitted |-> {"superior", "op", "insecure"}, excluded |-> {},
          metadata_policy |-> "none", metadata_policy_crit |-> "none"]

\* No policy, one that may be published, and ones that differ from it.
RequiredPolicies ==
  { Plain,
    [Plain EXCEPT !.excluded = {"op"}],
    [Plain EXCEPT !.metadata_policy = "invalid"],
    [Plain EXCEPT !.metadata_policy = "valid", !.metadata_policy_crit = "invalid"] }
=============================================================================
