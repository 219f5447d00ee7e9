---------------------------- MODULE KeyRollover -----------------------------
(***************************************************************************)
(* A key rollover seen from outside: the key set and its store, the        *)
(* endpoints that an application builds from them, and the verifiers that  *)
(* hold the Entity Configurations and statements those endpoints issued.   *)
(*                                                                         *)
(* An endpoint value keeps the jwks and the signer it was built with, so   *)
(* every step of the rollover reaches verifiers only when the application  *)
(* builds the endpoint again; the process may stop between any two steps.  *)
(* A handler awaits the lock, the store and the signer, and an endpoint    *)
(* that was replaced lives on while requests are at it: such a handler     *)
(* still issues with the old jwks or the old key, dated when it goes on.   *)
(*                                                                         *)
(* What an endpoint issues is held by somebody until it expires.  Of the   *)
(* configurations with the same jwks, and of the statements of one key,    *)
(* only the one that expires last matters.                                 *)
(***************************************************************************)
EXTENDS FederationKeys

CONSTANTS
  ConfigurationLifetime,  \* of an Entity Configuration, in seconds
  StatementLifetime,      \* of a Subordinate Statement
  Slack,                  \* what the operator waits beyond the documented time
  NoEndpoint,             \* the application has not built the endpoint
  MaxTime                 \* bound of the model: the clock stops here

VARIABLES
  now,            \* the clock
  configuration,  \* the EntityConfigurationEndpoint: the jwks it serves, and since
                  \*   when nothing else is served
  replacedJwks,   \* the jwks of those it replaced at which requests await the lock
  fetch,          \* the FetchEndpoint: the kid of its signer, and since when no
                  \*   other signs
  replacedSigners,\* those of the ones it replaced at which requests await the store
  historical,     \* the kids of the HistoricalKeysEndpoints' signers, of replaced
                  \*   ones too
  answering,      \* the kids of the signers that a HistoricalKeysEndpoint awaits
  configurations, \* the last exp of the configurations with each jwks
  statements      \* the last exp of the statements each key signed

configurationVars == <<configuration, replacedJwks>>
fetchVars == <<fetch, replacedSigners>>
historicalVars == <<historical, answering>>
endpointVars == <<configurationVars, fetchVars, historicalVars>>
issuedVars == <<configurations, statements>>
vars == <<keyVars, now, endpointVars, issuedVars>>

ASSUME RolloverAssumption ==
  /\ Times \subseteq Nat
  /\ ConfigurationLifetime \in Nat \ {0}
  /\ StatementLifetime \in Nat \ {0}
  /\ Slack \in Nat
  /\ NoEndpoint \notin [jwks : SUBSET Kids, since : Nat] \cup [signer : Kids, since : Nat]

-----------------------------------------------------------------------------

\* A JWT is valid up to and including the second of its exp.
Valid(exp) == now <= exp

ActiveKid(rs) == CHOOSE k \in Kids : \E i \in InState(rs, {"active"}) : rs[i].kid = k

RevokedKids(rs) == {rs[i].kid : i \in {j \in DOMAIN rs : rs[j].revoked # NoTime}}

PublicKey(k) == [kid |-> k, form |-> "public"]

\* to_historical_key: a retired key expires when it was retired.
HistoricalKey(record) ==
  [kid |-> record.kid, exp |-> record.retired_at, revoked |-> record.revoked]

\* Mistake: a revoked key is passed over.
HistoricalKeysUnrevoked(rs) ==
  {HistoricalKey(rs[i]) : i \in {j \in InState(rs, {"retired"}) : rs[j].revoked = NoTime}}

\* The historical keys of a record list.
HistoricalKeys(rs) == {HistoricalKey(rs[i]) : i \in InState(rs, {"retired"})}

\* What the endpoint, HistoricalKeys::validate and sign ask of the retired keys.
HistoryIsPublishable(rs) ==
  LET retired == InState(rs, {"retired"})
  IN /\ RetiredAreDated(rs)
     /\ DistinctKids(rs, retired)
     /\ \A i \in retired : CanBePublished(rs[i]) /\ CanBeDecoded(rs[i])

Start ==
  /\ Init /\ stored = << >>
  /\ now = 1
  /\ configuration = NoEndpoint /\ fetch = NoEndpoint /\ historical = {}
  /\ replacedJwks = {} /\ replacedSigners = {} /\ answering = {}
  /\ configurations = [J \in SUBSET Kids |-> 0]
  /\ statements = [k \in Kids |-> 0]

Tick ==
  /\ now < MaxTime
  /\ now' = now + 1
  /\ UNCHANGED <<keyVars, endpointVars, issuedVars>>

-----------------------------------------------------------------------------
(* The operator, who keeps to the procedure of keys.rs, and waits for the  *)
(* requests at replaced endpoints first.                                   *)

ActiveIn(rs, k) == \E i \in InState(rs, {"active"}) : rs[i].kid = k

\* Step 2: the new key was published for a configuration lifetime.
PublishedLongEnough(k) ==
  /\ configuration # NoEndpoint /\ replacedJwks = {}
  /\ k \in configuration.jwks
  /\ configuration.since + ConfigurationLifetime + Slack <= now

\* Step 4: the old key was replaced, and has not signed for a statement lifetime.
UnusedLongEnough(k) ==
  /\ ~ActiveIn(stored, k)
  /\ fetch # NoEndpoint /\ replacedSigners = {} /\ k \notin answering
  /\ fetch.signer # k
  /\ fetch.since + StatementLifetime + Slack <= now

\* A next key never signed; it is given up at any time.
MayRetire(k) == k \in {records[i].kid : i \in InState(records, {"next"})} \/ UnusedLongEnough(k)

\* Keys are retired and revoked as of the operator's clock.
Operate ==
  /\ \/ \E k \in Kids :
          \/ New(k, PublicKey(k))
          \/ AddNext(k, PublicKey(k))
          \/ PublishedLongEnough(k) /\ Activate(k)
          \/ now \in Times /\ MayRetire(k) /\ Retire(k, now)
          \/ now \in Times /\ Revoke(k, now)
     \/ Save
     \/ \E given \in SignerLists : Restore(given)
  /\ UNCHANGED <<now, endpointVars, issuedVars>>

\* The process stops, and its endpoints with it.
Stop ==
  /\ Crash
  /\ configuration' = NoEndpoint /\ fetch' = NoEndpoint /\ historical' = {}
  /\ replacedJwks' = {} /\ replacedSigners' = {} /\ answering' = {}
  /\ UNCHANGED <<now, issuedVars>>

-----------------------------------------------------------------------------
(* The application builds its endpoints, from a key set that it saved.     *)

Saved == up /\ stored = records

ServesJwks(J) == configuration # NoEndpoint /\ configuration.jwks = J

SignsWith(k) == fetch # NoEndpoint /\ fetch.signer = k

\* What is served and signed with, at the present endpoints and those they replaced.
Serving == {J \in SUBSET Kids : ServesJwks(J)} \cup replacedJwks

Signing == {k \in Kids : SignsWith(k)} \cup replacedSigners

\* Requests at a replaced endpoint of the same jwks or signer count as requests
\* at the new one.
DeployConfiguration ==
  /\ Saved
  /\ ~ServesJwks(JwksKids(records))
  /\ configuration' = [jwks |-> JwksKids(records), since |-> now]
  /\ replacedJwks' = Serving \ {JwksKids(records)}
  /\ UNCHANGED <<keyVars, now, fetchVars, historicalVars, issuedVars>>

DeployFetch ==
  /\ Saved
  /\ ~SignsWith(ActiveKid(records))
  /\ fetch' = [signer |-> ActiveKid(records), since |-> now]
  /\ replacedSigners' = Signing \ {ActiveKid(records)}
  /\ UNCHANGED <<keyVars, now, configurationVars, historicalVars, issuedVars>>

DeployHistorical ==
  /\ Saved
  /\ historical' = historical \cup {ActiveKid(records)}
  /\ UNCHANGED <<keyVars, now, configurationVars, fetchVars, answering, issuedVars>>

\* The last request at a replaced endpoint has its answer, fails or is dropped.
DrainConfiguration ==
  /\ \E J \in replacedJwks : replacedJwks' = replacedJwks \ {J}
  /\ configuration' = [configuration EXCEPT !.since = now]
  /\ UNCHANGED <<keyVars, now, fetchVars, historicalVars, issuedVars>>

DrainFetch ==
  /\ \E k \in replacedSigners : replacedSigners' = replacedSigners \ {k}
  /\ fetch' = [fetch EXCEPT !.since = now]
  /\ UNCHANGED <<keyVars, now, configurationVars, historicalVars, issuedVars>>

-----------------------------------------------------------------------------
(* What the endpoints issue.  The exp is fixed before the signer is        *)
(* awaited: that a configuration or statement is signed later, or never,   *)
(* is the case of one that is late or lost on its way.                     *)

\* signed_configuration has the lock and reads the clock.  A cached configuration
\* is one that was issued before.
IssueConfiguration ==
  /\ \E J \in Serving :
       configurations' = [configurations EXCEPT ![J] = now + ConfigurationLifetime]
  /\ UNCHANGED <<keyVars, now, endpointVars, statements>>

\* Mistake: the fetch endpoint signs with any signer of the key set.
IssueStatementWithAnySigner ==
  /\ fetch # NoEndpoint
  /\ \E k \in signers : statements' = [statements EXCEPT ![k] = now + StatementLifetime]
  /\ UNCHANGED <<keyVars, now, endpointVars, configurations>>

\* FetchEndpoint::try_handle has the store's answer and builds the statement.
IssueStatement ==
  /\ \E k \in Signing : statements' = [statements EXCEPT ![k] = now + StatementLifetime]
  /\ UNCHANGED <<keyVars, now, endpointVars, configurations>>

\* Mistake: the historical keys endpoint does not compare its signer with the
\* active key in the store.
SignerIsAnyKey(k) == stored # << >>

\* The historical keys endpoint finds its signer's key to be the active one.
SignerIsActive(k) == ActiveIn(stored, k)

\* HistoricalKeysEndpoint::try_handle loads the records, does not fail closed,
\* and awaits the signer of an answer with HistoricalKeys(stored).
StartAnswer ==
  /\ HistoryIsPublishable(stored)
  /\ \E k \in historical : SignerIsActive(k) /\ answering' = answering \cup {k}
  /\ UNCHANGED <<keyVars, now, configurationVars, fetchVars, historical, issuedVars>>

\* The last of the requests that await the signer has its answer, fails or is
\* dropped.  The store is not looked at again.
EndAnswers ==
  /\ \E k \in answering : answering' = answering \ {k}
  /\ UNCHANGED <<keyVars, now, configurationVars, fetchVars, historical, issuedVars>>

\* HistoricalKeys::from_verified_jwt of an answer signed with `k`, for a verifier
\* whose configuration of the issuer has the keys J.
VerifiesHistory(k, J) == k \in J

-----------------------------------------------------------------------------

RolloverNext ==
  \/ Tick
  \/ Operate
  \/ Stop
  \/ DeployConfiguration \/ DeployFetch \/ DeployHistorical
  \/ DrainConfiguration \/ DrainFetch
  \/ IssueConfiguration \/ IssueStatement
  \/ StartAnswer \/ EndAnswers

RolloverSpec == Start /\ [][RolloverNext]_vars

-----------------------------------------------------------------------------
(* Properties.                                                             *)

\* Every variable has its type; only a running process has endpoints, and they
\* replace others, and what they issued is valid for its lifetime at most.
RolloverTypeOK ==
  /\ TypeOK
  /\ now \in Nat
  /\ configuration \in [jwks : SUBSET Kids, since : Nat] \cup {NoEndpoint}
  /\ fetch \in [signer : Kids, since : Nat] \cup {NoEndpoint}
  /\ replacedJwks \subseteq SUBSET Kids
  /\ replacedSigners \subseteq Kids
  /\ historical \subseteq Kids /\ answering \subseteq Kids
  /\ ~up => /\ configuration = NoEndpoint /\ fetch = NoEndpoint
            /\ historical = {} /\ answering = {}
  /\ configuration = NoEndpoint => replacedJwks = {}
  /\ fetch = NoEndpoint => replacedSigners = {}
  /\ configurations \in [SUBSET Kids -> Nat]
  /\ statements \in [Kids -> Nat]
  /\ \A J \in SUBSET Kids : configurations[J] <= now + ConfigurationLifetime
  /\ \A k \in Kids : statements[k] <= now + StatementLifetime

\* The point of the four steps: every statement that has not expired verifies
\* under every Entity Configuration that has not expired, the ones fetched long
\* before it and long after it, over any crashes, unless its key was revoked.
StatementsVerify ==
  \A k \in Kids \ RevokedKids(stored), J \in SUBSET Kids :
    Valid(statements[k]) /\ Valid(configurations[J]) => k \in J

\* Whenever an answer of the historical keys endpoint goes out, the verifier of
\* any configuration that has not expired can check it, also when the signer
\* took long and other keys were activated, saved and served meanwhile; unless
\* the signing key was revoked since the endpoint looked.
HistoricalAnswersVerify ==
  \A k \in answering \ RevokedKids(stored), J \in SUBSET Kids :
    Valid(configurations[J]) => VerifiesHistory(k, J)

Finds(k, J) == k \in J \/ \E h \in HistoricalKeys(stored) : h.kid = k

\* The key of any statement ever issued can be found by every verifier: in the
\* configuration it holds, however old, or in the one that is served, or else
\* among the historical keys.
KeysStayFindable ==
  \A k \in Kids : statements[k] # 0 =>
    /\ configuration # NoEndpoint => Finds(k, configuration.jwks)
    /\ \A J \in SUBSET Kids : Valid(configurations[J]) => Finds(k, J)

\* "Statements they signed stay verifiable after a rollover": the historical
\* keys are all publishable, and none that was not revoked expires before a
\* statement that it signed.
HistoryCoversStatements ==
  /\ HistoryIsPublishable(stored)
  /\ \A h \in HistoricalKeys(stored) : h.revoked = NoTime => statements[h.kid] <= h.exp
=============================================================================
