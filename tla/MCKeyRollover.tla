--------------------------- MODULE MCKeyRollover ----------------------------
(***************************************************************************)
(* A key set whose signers are all at hand after a restart.                *)
(***************************************************************************)
EXTENDS KeyRollover, Integers, FiniteSets, TLC

\* Every order in which the application may hand over all its signers.
AllSigners == {s \in [1..Cardinality(Kids) -> Kids] : NoRepeats(s)}

Symmetry == Permutations(Kids)

\* States with the same view have the same future: how long ago a wait was over,
\* or a configuration expired, makes no difference to any guard or property.
Aged(endpoint, lifetime) ==
  IF endpoint = NoEndpoint \/ endpoint.since + lifetime + Slack > now
  THEN endpoint ELSE [endpoint EXCEPT !.since = now - lifetime - Slack]

View ==
  <<keyVars, now, replacedJwks, replacedSigners, historicalVars, statements,
    Aged(configuration, ConfigurationLifetime), Aged(fetch, StatementLifetime),
    [J \in SUBSET Kids |-> IF Valid(configurations[J]) THEN configurations[J] ELSE 0]>>
=============================================================================
