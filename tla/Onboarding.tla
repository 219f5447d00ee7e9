----------------------------- MODULE Onboarding -----------------------------
(***************************************************************************)
(* How an entity becomes an Immediate Subordinate, and what its Superior   *)
(* then states about it: check_candidate_subordinate and into_subordinate  *)
(* (onboarding.rs), the SubordinateStore, and the fetch endpoint that      *)
(* builds and signs Subordinate Statements from it (endpoint/fetch.rs).    *)
(*                                                                         *)
(* One check and one fetch request are under way at a time: fetch requests *)
(* only read the store.  They overlap with each other, with the removal of *)
(* subordinates and with the clock.  What a host answers to the request    *)
(* for an Entity Configuration is any of Configurations.                   *)
(***************************************************************************)
EXTENDS EntityStatements

CONSTANTS
  Superior,        \* the entity whose application runs all this
  SigningKey,      \* the public key of the fetch endpoint's signer
  Insecure,        \* Entity Identifiers that are not https URLs
  Configurations,  \* what hosts may answer
  Policies,        \* what the Superior may require of candidates
  Lifetime,        \* of a Subordinate Statement
  None,
  MaxTime,         \* bound of the model: the clock stops here
  MaxChanges       \* bound of the model: how often the store is written

\* An Entity Configuration, and whom its authority_hints name.
Configuration == [jwt : Jwt, hints : SUBSET Entities]

\* SubordinatePolicy: whom the names of the naming constraints match (`permitted`
\* is Entities if it names nobody), and whether the metadata policy and the names
\* in metadata_policy_crit may be published.
Policy == [permitted : SUBSET Entities,
           excluded : SUBSET Entities,
           metadata_policy : {"none", "valid", "invalid"},
           metadata_policy_crit : {"none", "valid", "invalid"}]

ASSUME OnboardingAssumption ==
  /\ Superior \in Entities
  /\ SigningKey \in [kid : Kids, key : Keys]
  /\ Insecure \subseteq Entities
  /\ Configurations \subseteq Configuration
  /\ Policies \subseteq Policy
  /\ Lifetime \in Nat \ {0}
  /\ None \notin Configuration \cup Policy
  /\ MaxTime \in Nat

\* A Subordinate in the store.  `on` is a history field: the configuration the
\* report it comes from was about.
Subordinate == [jwks : Seq(PublicJwk),
                metadata_policy : {"none", "valid", "invalid"},
                metadata_policy_crit : {"none", "valid", "invalid"},
                on : Configuration]

ASSUME NoSubordinate == None \notin Subordinate \cup Jwt

VARIABLES
  now,         \* the clock
  registered,  \* the Subordinate registered for each entity, or None
  changes,     \* how often the store was written
  step,        \* where check_candidate_subordinate is
  candidate,   \* whom it checks
  policy,      \* what is required of it
  response,    \* what the candidate's host answered, None if nothing that verifies
  failures,    \* of the report
  handling,    \* where the fetch handler is
  sub,         \* whom the request is about
  found,       \* what the store returned
  statement,   \* the statement being signed, or that was the last answer
  answer,      \* the answer to the last request, "none" until it is answered
  seen         \* history: what was registered for sub at some moment of the request

checkVars == <<step, candidate, policy, response, failures>>
fetchVars == <<handling, sub, found, statement, answer>>
vars == <<now, registered, changes, checkVars, fetchVars, seen>>

-----------------------------------------------------------------------------
(* What the two sides check.                                               *)

\* JwkSet::validate, for public keys.
ArePublishable(jwks) ==
  /\ \A i \in DOMAIN jwks : jwks[i].kid # NoKid
  /\ \A i, j \in DOMAIN jwks : jwks[i].kid = jwks[j].kid => i = j

\* NamingConstraints::permits.
Permits(p, e) == e \in p.permitted /\ e \notin p.excluded

\* The checks that do not need the Entity Configuration.
PolicyFailures ==
  (IF Permits(policy, candidate) THEN {} ELSE {"OutsideNamingConstraints"})
  \cup (IF policy.metadata_policy = "invalid" THEN {"InvalidMetadataPolicy"} ELSE {})

\* Mistake: only the hints of a configuration are checked.
HintFailures(configuration) ==
  IF Superior \in configuration.hints THEN {} ELSE {"SuperiorNotInAuthorityHints"}

\* The checks of a configuration that verified.
ConfigurationFailures(configuration) ==
  (IF Superior \in configuration.hints THEN {} ELSE {"SuperiorNotInAuthorityHints"})
  \cup (IF ArePublishable(configuration.jwt.jwks) THEN {} ELSE {"InvalidJwks"})

\* Mistake: the candidate's configuration is taken unverified.
VerifiesAnyhow(configuration) == IsCurrent(configuration.jwt, now)

\* The answer is the candidate's own, self-signed configuration.
VerifiesNow(configuration) == IsConfigurationOf(configuration.jwt, candidate, now)

\* What build and sign refuse of what can be in the store: validate is about
\* the keys and times, validate_for_issuing about the policy.
CanBeIssued(subordinate) ==
  /\ subordinate.jwks # << >>
  /\ ArePublishable(subordinate.jwks)
  /\ subordinate.metadata_policy # "invalid"
  /\ subordinate.metadata_policy_crit # "invalid"

\* The statement that subordinate_statement and the endpoint's lifetime make.
StatementOn(subordinate) ==
  [iss |-> Superior, sub |-> sub, iat |-> now, nbf |-> now, exp |-> now + Lifetime,
   jwks |-> subordinate.jwks, kid |-> SigningKey.kid, key |-> SigningKey.key,
   crit |-> {}, formed |-> TRUE]

-----------------------------------------------------------------------------
(* check_candidate_subordinate.                                            *)

Init ==
  /\ now = 0
  /\ registered = [e \in Entities |-> None]
  /\ changes = 0
  /\ step = "idle"
  /\ candidate = Superior /\ policy = None /\ response = None /\ failures = {}
  /\ handling = "idle" /\ sub = Superior
  /\ found = None /\ statement = None /\ answer = "none"
  /\ seen = {}

\* The request for the candidate's Entity Configuration is sent.
BeginCheck(e, p) ==
  /\ step = "idle"
  /\ step' = "asked"
  /\ candidate' = e /\ policy' = p
  /\ UNCHANGED <<now, registered, changes, response, failures, fetchVars, seen>>

\* The host answers; the answer may take its time.
Respond ==
  /\ step = "asked"
  /\ step' = "answered"
  /\ response' \in Configurations
  /\ UNCHANGED <<now, registered, changes, candidate, policy, failures, fetchVars, seen>>

ReportUnreachable ==
  /\ step = "asked"
  /\ step' = "reported"
  /\ failures' = {"ConfigurationUnreachable"} \cup PolicyFailures
  /\ UNCHANGED <<now, registered, changes, candidate, policy, response, fetchVars, seen>>

ReportInvalid ==
  /\ step = "answered"
  /\ ~VerifiesNow(response)
  /\ step' = "reported"
  /\ response' = None
  /\ failures' = {"InvalidConfiguration"} \cup PolicyFailures
  /\ UNCHANGED <<now, registered, changes, candidate, policy, fetchVars, seen>>

ReportVerified ==
  /\ step = "answered"
  /\ VerifiesNow(response)
  /\ step' = "reported"
  /\ failures' = ConfigurationFailures(response) \cup PolicyFailures
  /\ UNCHANGED <<now, registered, changes, candidate, policy, response, fetchVars, seen>>

-----------------------------------------------------------------------------
(* The store.                                                              *)

\* The handler has not built its statement yet.
Undecided == handling \in {"reading", "read"}

\* The store holds `s` for `e` from now on.
Write(e, s) ==
  /\ changes < MaxChanges
  /\ changes' = changes + 1
  /\ registered' = [registered EXCEPT ![e] = s]
  /\ seen' = IF Undecided /\ sub = e THEN seen \cup {s} ELSE seen

\* The report is consumed.
EndCheck ==
  /\ step' = "idle"
  /\ candidate' = Superior /\ policy' = None /\ response' = None /\ failures' = {}

\* The operator registers a candidate whose report has no failures, then or
\* later: into_subordinate, and insert, which replaces what was registered.
Register ==
  /\ step = "reported" /\ failures = {} /\ response # None
  /\ Write(candidate, [jwks |-> response.jwt.jwks,
                       metadata_policy |-> policy.metadata_policy,
                       metadata_policy_crit |-> policy.metadata_policy_crit,
                       on |-> response])
  /\ EndCheck
  /\ UNCHANGED <<now, fetchVars>>

\* The operator drops the report; one with failures makes no Subordinate.
Dismiss ==
  /\ step = "reported"
  /\ EndCheck
  /\ UNCHANGED <<now, registered, changes, fetchVars, seen>>

Remove(e) ==
  /\ registered[e] # None
  /\ Write(e, None)
  /\ UNCHANGED <<now, checkVars, fetchVars>>

-----------------------------------------------------------------------------
(* FetchEndpoint::try_handle.                                              *)

\* The request is answered, with the statement `jwt` or an error.
Answer(a, jwt) ==
  /\ handling' = "idle"
  /\ answer' = a
  /\ statement' = jwt
  /\ found' = None

\* UrlValidator::validate_entity_id.
IsEntityId(e) == e \notin Insecure

\* A request the handler answers without the store.
RefuseRequest(e) ==
  /\ handling = "idle"
  /\ ~IsEntityId(e) \/ e = Superior
  /\ sub' = e
  /\ Answer("invalid_request", None)
  /\ seen' = {registered[e]}
  /\ UNCHANGED <<now, registered, changes, checkVars>>

\* Mistake: the statement that was issued last is handed out again.
AcceptRequestCached(e) ==
  /\ handling = "idle"
  /\ IsEntityId(e) /\ e # Superior
  /\ handling' = IF statement # None /\ sub = e THEN "signing" ELSE "reading"
  /\ sub' = e
  /\ answer' = "none"
  /\ seen' = {registered[e]}
  /\ UNCHANGED <<now, registered, changes, checkVars, found, statement>>

\* A request for a statement about `e`, which goes to the store.
AcceptRequest(e) ==
  /\ handling = "idle"
  /\ IsEntityId(e) /\ e # Superior
  /\ handling' = "reading"
  /\ sub' = e
  /\ answer' = "none"
  /\ seen' = {registered[e]}
  /\ UNCHANGED <<now, registered, changes, checkVars, found, statement>>

\* The store looks the subordinate up; what it returns may take its time.
ReadSubordinate ==
  /\ handling = "reading"
  /\ handling' = "read"
  /\ found' = registered[sub]
  /\ UNCHANGED <<now, registered, changes, checkVars, sub, statement, answer, seen>>

AnswerNotFound ==
  /\ handling = "read"
  /\ found = None
  /\ Answer("not_found", None)
  /\ UNCHANGED <<now, registered, changes, checkVars, sub, seen>>

\* build or the checks of sign refuse the statement: a server_error.
RefuseStatement ==
  /\ handling = "read"
  /\ found # None /\ ~CanBeIssued(found)
  /\ Answer("invalid_statement", None)
  /\ UNCHANGED <<now, registered, changes, checkVars, sub, seen>>

\* The statement is built, with the times of now, and goes to the signer.
BuildStatement ==
  /\ handling = "read"
  /\ found # None /\ CanBeIssued(found)
  /\ handling' = "signing"
  /\ statement' = StatementOn(found)
  /\ UNCHANGED <<now, registered, changes, checkVars, sub, found, answer, seen>>

\* sign does not verify its result, so nothing is left to go wrong.
FinishSigning ==
  /\ handling = "signing"
  /\ Answer("statement", statement)
  /\ UNCHANGED <<now, registered, changes, checkVars, sub, seen>>

\* The store, or the signer, fails.
Fail ==
  /\ handling \in {"reading", "signing"}
  /\ Answer("server_error", None)
  /\ UNCHANGED <<now, registered, changes, checkVars, sub, seen>>

Tick ==
  /\ now < MaxTime
  /\ now' = now + 1
  /\ UNCHANGED <<registered, changes, checkVars, fetchVars, seen>>

CheckNext ==
  \/ \E e \in Entities, p \in Policies : BeginCheck(e, p)
  \/ Respond
  \/ ReportUnreachable \/ ReportInvalid \/ ReportVerified
  \/ Register \/ Dismiss

FetchNext ==
  \/ \E e \in Entities : RefuseRequest(e) \/ AcceptRequest(e)
  \/ ReadSubordinate
  \/ AnswerNotFound \/ RefuseStatement \/ BuildStatement
  \/ FinishSigning \/ Fail

Next == CheckNext \/ FetchNext \/ Tick \/ (\E e \in Entities : Remove(e))

Spec == Init /\ [][Next]_vars

-----------------------------------------------------------------------------
(* Properties.                                                             *)

Registrations == Subordinate \cup {None}

\* Every variable has its type.
TypeOK ==
  /\ now \in Nat /\ changes \in Nat
  /\ registered \in [Entities -> Registrations]
  /\ step \in {"idle", "asked", "answered", "reported"}
  /\ candidate \in Entities /\ policy \in Policies \cup {None}
  /\ step # "idle" => policy # None
  /\ response \in Configuration \cup {None}
  /\ step = "answered" => response # None
  /\ handling \in {"idle", "reading", "read", "signing"}
  /\ sub \in Entities
  /\ found \in Registrations
  /\ statement \in Jwt \cup {None}
  /\ handling = "signing" => statement # None
  /\ answer = "statement" => statement # None
  /\ seen \subseteq Registrations

\* What the check is for: a statement the endpoint issues completes a Trust
\* Chain with the Entity Configuration that the subordinate was registered on,
\* at any time at which neither has expired, however long the operator, the
\* store and the signer took.
StatementsCompleteAChain ==
  answer = "statement" =>
    \E s \in seen \ {None} :
      /\ statement.jwks = s.jwks
      /\ Superior \in s.on.hints
      /\ \A t \in statement.iat .. MaxTime :
           /\ t <= statement.exp
           /\ t <= s.on.jwt.exp
           => /\ IsStatementAbout(statement, Superior, sub, <<SigningKey>>, t)
              /\ IsConfigurationOf(s.on.jwt, sub, t)
              /\ Verifies(s.on.jwt, statement.jwks, t)

\* What the endpoint answers was so at some moment of the request: a statement
\* repeats what was registered then, and who is not found was not registered.
AnswersWereRegistered ==
  /\ answer = "statement" =>
       \E s \in seen \ {None} : statement.jwks = s.jwks /\ statement.sub = sub
  /\ answer = "not_found" => None \in seen

\* Nothing that passed the check is refused when the statement is issued, but
\* for the names in metadata_policy_crit, which only the issuing looks at.  What it
\* asks of the endpoint itself, its issuer and source_endpoint, is left out.
RegisteredCanBeIssued ==
  answer = "invalid_statement" =>
    \E s \in seen \ {None} : s.metadata_policy_crit = "invalid"
=============================================================================
