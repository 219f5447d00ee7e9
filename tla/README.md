# Verification of openid-federation

TLA+ models of the `openid-federation` crate (OpenID Federation 1.0 in Rust),
the TLC runs that check them on small instances, and TLAPS proofs of the
properties that hold for every instance. Paths below are relative to the
repository.

## 1. Inventory

| Part | State | Operations | What is hard | What makes it correct |
|---|---|---|---|---|
| `FederationKeys`, `KeyStore` (`src/keys.rs`) | key records with a rollover state, dates and revocation; the signers of the active and next keys; the stored records | `new`, `add_next`, `activate`, `retire`, `revoke`, `from_records`, `jwks`, `historical_keys`, `load`, `save` | long sequences of calls, a stop between a change and its save, a database somebody else wrote | one active key, signers for exactly the keys that may sign, a publishable `jwks`, no revocation undone, what was saved can be restored |
| Entity Configuration endpoint (`src/endpoint/entity_configuration.rs`) | the configuration to sign, lifetime, margin, the cached JWT behind a tokio `Mutex` | `handle` / `try_handle` | concurrent requests, a signer that is late, fails or never answers, handlers dropped at an await | never serves an expired configuration, a burst signs once, nobody waits for ever |
| Historical keys endpoint (`src/endpoint/historical_keys.rs`) | issuer, store, signer fixed at construction | `try_handle` | the store moves on while the signer stays | answers only what verifiers can check |
| Fetch endpoint (`src/endpoint/fetch.rs`) | issuer, store, signer, lifetime | `try_handle` | the same; a store that returns the wrong subordinate | statements verify with the published keys |
| Entity statements and JWTs (`src/entity.rs`, `src/jwt.rs`, `src/jwk.rs`) | none | `validate`, `from_verified_jwt`, `verify_jwt_with_jwks`, builders, `sign` | time boundaries with and without leeway, duplicate kids | only what is signed, current and understood is accepted |
| Trust chain validation (`src/trust_chain.rs`) | none (a loop over a list) | `try_new`, `expiration_timestamp`, `is_expired_at`, accessors | order of authentication, time passing during it | accepts exactly authentic chains |
| Discovery (`src/utils.rs`) | visited set, chain under construction, chains and failures found | `discover_trust_chain`, `discover_all_trust_chains`, `..._with_failures`, `list_entities` | loops, branches that meet, failing requests, keys replaced between two requests | finds what can be found, reports every failure, ends |
| Registries (`src/store.rs`) | maps of subordinates and of Trust Marks behind `RwLock`s | `insert`, `remove`, `revoke`, lookups | re-insertion after a revocation, reads between writes | a status answer reflects a state the registry had |
| List and Trust Mark endpoints (`src/endpoint/*.rs`, `src/endpoint.rs`) | a registry and a signer | `EndpointRequest`, `try_handle` each, `ErrorResponse` | the registry changes between read and signature; parameters that are repeated, malformed or imply others | filters agree with the registry, no parameter is ignored, no error passes for an answer |
| Trust Marks (`src/trust_marks.rs`, `src/types.rs`) | a cache of issuer keys for one call | `TrustMark::sign`, `verify_trust_mark`, `verify_chain_trust_marks`, `check_*` | delegation, caching, order of checks | only Trust Marks of recognized issuers and owners pass, what may be issued verifies, errors name what is wrong |
| Metadata policy, constraints (`src/policy.rs`, `src/types.rs`) | the policy resolved so far | `resolve_metadata_policy`, `apply_metadata_policy`, `validate*` | combinations of operators over a chain | merging never loosens a policy |
| Onboarding (`src/onboarding.rs`) | none | `check_candidate_subordinate`, `into_subordinate` | checks before a registration | a registered subordinate proved its keys |
| Typed metadata (`src/metadata.rs`) | none | the fields of each Entity Type, their types and checks | a policy may produce what a field cannot hold | resolved metadata can be read, and read again |
| HTTP client (`src/utils.rs`) | none | `into_success_body`, reading with limits, the fetches | a body that is lost or too long | the status alone tells an error from an answer |
| Errors and crate root (`src/error.rs`, `src/lib.rs`) | none | error types and re-exports | – | – |

How they interact: the application owns everything and calls it. A key set is
created or restored from a `KeyStore`; its `jwks` and `active_signer` go into
an `EntityConfiguration` and into the endpoints **by value, when these are
built**, so the key set, the store and the endpoints can disagree. What the
endpoints issue is fetched by discovery, authenticated by
`TrustChain::try_new`, and used with the federation's clock moving underneath.

## 2. Modules

```
FederationKeys ── KeyRollover ── KeyRolloverProofs
EntityStatements ─┬─ TrustChain ── TrustChainProofs
                  └─ Onboarding ── OnboardingProofs
ConfigurationService ◁─ EntityConfigurationEndpoint
                           └─ EntityConfigurationEndpointProofs
Federation ── DiscoveryWalk ─┬─ AnchoredDiscovery ──┬─ DiscoveryProofs
                             └─ AllChainsDiscovery ─┘
MetadataPolicy ── MetadataPolicyProofs
Requests ── Registries ── FederationEndpoints ── RegistriesProofs
TrustMarks ── TrustMarksProofs
```

A line is `EXTENDS`; `◁` is `INSTANCE ... WITH`, the refinement of an abstract
specification.

Each `MC*` module gives a specification the constants of its runs. Operators
whose comment begins with *Mistake* are plausible bugs: replacing the operator
that follows by one of them must break a property. They are no part of any
specification.

### FederationKeys
One action per method of `FederationKeys`; a call that returns an error changes
nothing and is no step, so an action's guard is the conjunction of the method's
checks. `records` is the `Vec<KeyRecord>`, `signers` the domain of the signer
map, `stored` what the `KeyStore` holds. A public key is abstracted to its kid
and whether `JwkSet::validate` and `to_decoding_key` take it. `Crash` loses
what was not saved; `Restore` is `from_records` on what is stored. The store is
empty at first or holds any of `ForeignRecords`, as after a migration or an edit
by hand. Only key sets write it afterwards; since `Restore` is the only reader,
an edit between two processes is one of these beginnings.

### KeyRollover
The key set together with the three endpoints that are built from it and the
verifiers that keep what those endpoints issued. `configuration`, `fetch` and
`historical` are the endpoint values with the jwks or signer they were built
with; `configurations[J]` is the last `exp` of any configuration with the jwks
`J`, `statements[k]` that of any statement signed with `k`.

The handlers await. An endpoint that was replaced lives on in the requests that
are at it: `replacedJwks` are the jwks of the replaced Entity Configuration
endpoints at which requests wait for the lock (`entity_configuration.rs:162`),
`replacedSigners` the kids of the replaced fetch endpoints at which they wait for
the store (`fetch.rs:158`). Both read the clock only afterwards, so
`IssueConfiguration` and `IssueStatement` are possible at a replaced endpoint too,
with its old jwks or key and the present time, until `DrainConfiguration` or
`DrainFetch`: the last of its requests was answered, failed or was dropped. The
signer is awaited after `iat` and `exp` were fixed, so how late it is does not
change them. A historical keys request loads the records, compares its signer's kid
with the active one and awaits the signer (`StartAnswer`); it does not look at the
store again, and its answer may go out at any time (`EndAnswers`) while others are
activated, saved and served. `answering` are the kids of the signers that are awaited.

The operator keeps to the procedure in the documentation of `src/keys.rs`: a new key
was served for a configuration lifetime before it is activated, the old one unused
for a statement lifetime before it is retired, each time plus `Slack`; endpoints
are built only from a key set that is saved. Beyond what the documentation says, each
wait begins only when no request is at a replaced endpoint any more (`since` is the
later of the two), a previous key is retired only when the store, too, has
another active one and no historical answer awaits its signer. These rules are the
application's and are marked external; each is needed, section 4 says for what.
`HistoricalKeys` is what the historical keys endpoint
answers with, each key with its `exp` and its revocation, and
`HistoryIsPublishable` what building and signing that answer refuse; the reasons
of revocations are left out.

### ConfigurationService and EntityConfigurationEndpoint
The abstract service knows a clock, its settings, the `latest` configuration and
the answers: it answers with `latest` and signs a new one only if there is none
or `latest` is within its margin. The endpoint adds the lock (tokio's `Mutex` is
fair: `waiting` is its queue), the await on the signer between `StartSigning` and
`FinishSigning`, failures, and callers that go away at either await
(`LeaveQueue`, `DropSigning`). `FinishSigning` is possible only while the
configuration is valid, since `sign` verifies its own result. The refinement
mapping is `Service == INSTANCE ConfigurationService WITH latest <- cached`; the
lock, its queue and the configuration being signed have no counterpart.

### EntityStatements and TrustChain
`EntityStatements` has the checks of `from_verified_jwt`: the time checks twice
as in the code, once without leeway (`validate`) and once with leeway
(`TimeClaims`), the first key with the header's kid, and `crit`. A JWT is a
record of what the checks look at; `formed` stands for the checks that depend
on nothing else. All checks of one JWT happen at one reading of the clock; the
code reads it once per check. `TrustChain` is `try_new` with a step per JWT and
a clock that ticks between the steps. `Authentic` says of the whole list at once
what an authentic chain is, and is what `try_new` is compared with;
`IsExpiredAt` is `is_expired_at`.

### Federation, DiscoveryWalk, AnchoredDiscovery and AllChainsDiscovery
`Federation` is what clients are answered. Keys are numbers; an entity replaces
its key (`ReplaceKey`), its Superior endorses it later (`Endorse`), any request
may go unanswered. The two walks are the recursive async functions of
`src/utils.rs` with the recursion as a stack; a step ends at each request.
`DiscoveryWalk` has the variables both walks keep; the definitions of
`AnchoredDiscovery` whose counterpart in `AllChainsDiscovery` differs are named
`Anchored...`, so that one module can speak of both. JWTs
are reduced to issuer, subject, the signing key and the endorsed key, and
`Authenticates` to the signatures and links of `try_new`, whose full checks
`TrustChain` covers. Entity Identifiers compare as URLs in the code, so one
entity is one value here. Anchored discovery is given its `anchors`, or reads them
from the `trust_anchor_hints` of the configuration it resolves first, which it
resolves again as the first entity of the walk. A Superior without a fetch
endpoint ends the call that asks it. In `AllChainsDiscovery` each failure also records
which calls it was met in, which the code does not: `NoBranchIsDropped` is said
in terms of it.

### MetadataPolicy
`resolve_metadata_policy` with a step per statement, `apply_operators` as
operators of one stage each, and the typed metadata the result is read as. Entity
Types and parameters do not affect each other, so the model has one parameter. A
parameter is a `Field`: the JSON values its field in `src/metadata.rs` takes,
whether it is required, and whether an endpoint or a list of algorithms is checked
further; `EntityMetadata` lists those of all Entity Types, with `any` for what no
field takes and `scope` for the one that is a string of values. `Held` is what a
field makes of a value (an optional field takes null for an absent one), `Fits` whether it takes it, `Resolves` whether the whole application succeeds. A
policy is a record with a field per operator, `None` where it is absent; operator
values are JSON values of the kinds the operators tell apart, a string being its
words, and `Listed` the values that operators list. `OperandsFit` is the part of
`validate` that looks at operator values alone; that an additional operator does
not take a standard name is left out. `Retained` is `Vec::retain`. That metadata names no Entity Type which its
publisher does not have is a precondition. `Complies` says what each operator
demands of the final value, without reference to how operators merge or in which
order they run, and `NoSubordinateLoosens` compares the two. For `scope` it and
`ApplicationIsIdempotent` are said of words (`ScopeOfWords`); section 4 says why.

### Requests, Registries and FederationEndpoints
`Requests` is what the endpoints make of a request before they look at a store
(`Query`: parameters that are missing, repeated, malformed, not supported or that
imply others) and what a client makes of a response whose body may be lost
(`Outcome`). `Registries` is both in-memory stores and one such query. Handlers
only read, so they do not affect each other and one at a time is enough; the
registry is any at its arrival and is written while it is in flight. The
actions are the reads of a handler, in their order, the clock being read with
the arrival of the request. A JWT is a record of its claims, since the store
reads them from the JWT. `seen` and `inserted` are history variables: the
properties say that an answer was true at some moment of the request, or that
what was true all the time is in it. `FederationEndpoints` composes the two: a
request as `received`, its query, its handler's answer, the response, and what
the client reads. Its properties speak of the parameters that were sent, not of
the query that was read from them.

### TrustMarks
One call of `verify_trust_mark` or `verify_chain_trust_marks` (they differ in
what is known when it begins): the anchor's configuration is fetched or its
absence reported, then each Trust Mark is verified or gets its
`TrustMarkRejection`. `CanBeSigned` is what `TrustMark::sign` and the builder of a
delegation ask of a Trust Mark when it is issued. A Trust Mark is screened, the keys of its issuer
are taken from the anchor, the chain or the cache or asked for, and it is
verified with them, while the clock ticks and issuers replace keys between these
steps. The discovery of an issuer's chain is one answer, the keys endorsed when
it is given, or none; the walk itself is `AnchoredDiscovery`. `Acceptable` says
what a Trust Mark must be, independently of the order and the repetition of the
checks; `views` remembers which keys each issuer was endorsed with. An `nbf`,
which Trust Marks do not define, is left out.

### Onboarding
How an entity becomes a subordinate and what is then stated about it:
`check_candidate_subordinate`, `into_subordinate`, the `SubordinateStore` and the
whole of `FetchEndpoint::try_handle`, with the checks of `EntityStatements`. A
check has a step for its request, the host's answer and the report; the operator
registers or drops the report whenever he likes. The handler's steps are its
awaits, the store and the signer. A configuration is its JWT and whom its hints
name; a metadata policy and `metadata_policy_crit` are absent, valid or not.
One check and one request at a time are enough, since a check changes nothing
until it is registered and requests only read. A candidate that another report
replaced meanwhile is two checks one after the other. `on` and `seen` are
history: which configuration a registration comes from, and what the store held
for the subject during the request. A store that returns somebody else's
registration is one of the ways `Fail` happens.

## 3. Runs

| Run | Bounds | States | Checks |
|---|---|---|---|
| `keys` | 3 kids, 2 dates, all signer lists up to 3, 930 stores of up to 2 records at first | 171,259 | see below |
| `key_rollover` | 2 kids, lifetimes 2 and 1, `Slack` 1, clock to 6 | 881,148 | symmetric in the kids, with a view |
| `key_rollover_documented` | the same with `Slack` 0, clock to 4 | | violation |
| `entity_configuration_endpoint` | 3 callers, 5 settings, clock to 5 | 81,057 | with the refinement |
| `trust_chain` | chains of 0 to 6 JWTs, clock 0 to 2, leeway 1 | 12,738 | |
| `anchored_discovery` | 4 entities, 2 changes, anchors given, hinted or absent | 645,928 | |
| `anchored_first_authentic` | the same, no changes | | violation |
| `all_chains_discovery` | 4 entities, 2 changes | 1,286,969 | |
| `metadata_policy` | 2 policies of up to 2 operators, 3 of 1; 2 words; 4 fields, 10 published values | 446,347 | |
| `registries` | 4 Trust Marks, 2 entities, every request below, 2 changes, clock 0 to 1, leeway 1 | about 4.8 M | |
| `trust_marks` | 23 Trust Marks, presented alone and in pairs, 2 changes, clock 0 to 2, leeway 1 | 773,169 | |
| `onboarding` | 3 entities, 9 answers, 4 policies, 2 writes, clock 0 to 2, lifetime 1, leeway 1 | 987,756 | |

* **Keys.** `OnlyCurrentKeysSign`: one active key, and signers for exactly the
  active and next keys, so `active()` and `active_signer()` cannot panic and a
  replaced private key is out of reach. `KeySetsCanBeRestored`: no sequence of
  calls leads to a set that `from_records` refuses once it is saved. `SavedHistoryIsKept`,
  `SavedRolloverMovesForward`: over any crashes, saved retirements and
  revocations stay and keys only move forward. `JwksArePublishable`,
  `EveryKeyIsAccountedFor`: also on records somebody else wrote. Three kids are
  a previous, an active and a next key at once; foreign lists of two records
  contain each inconsistency `from_records` looks for, alone and beside a good
  record.
* **Rollover.** `StatementsVerify`: every unexpired statement of a key that is
  not revoked verifies under every unexpired configuration. `KeysStayFindable`:
  a key that ever signed is in the served jwks or among the historical keys.
  `HistoricalAnswersVerify`: an answer of the historical keys endpoint, however late
  its signer, can be checked with every configuration that is unexpired when it goes
  out, unless its key was revoked since the endpoint looked at the store.
  `HistoryCoversStatements`: the `exp` a key is given there is not before that of any
  statement the key signed, at whichever endpoint, and the list of retired keys can
  always be published. A clock up to 6 is enough for a new key that is
  published, late requests at the old endpoints, both waits, a retirement, a revocation
  and a restart; keys are retired and revoked from 4 on, when the new key can first be
  active. `View` identifies states that differ only in how long ago a wait was over or a
  configuration expired, which no guard and no property can tell: a wait is only
  compared with the present, and of an expired configuration only that it expired is
  used. Without it, and with dates from 1 on, the run has 8,116,116 states, takes
  longer, and finds no error either.
* **Entity Configuration endpoint.** Three callers are one that signs, one that
  waits and one that comes later or goes away; the settings include a margin as
  long as the lifetime and both that are refused. `NeverServesExpired` and
  `OneConfigurationAtATime` follow from `ImplementsService`, which the run
  checks; they are proved and have no check of their own.
* **Trust chain.** Every chain that differs from an authentic one of two, three
  or five JWTs in one claim, header, signature, or in a JWT that is missing,
  repeated or swapped. `AcceptedIsAuthentic` and `RejectedIsNotAuthentic` leave
  only chains that expire or become valid during the check undecided.
  `LeafSignedItself` is what the order of the checks is for. `AcceptedUntilExpiry`
  relates the two rules for the second of `exp`: an accepted chain stays
  authentic as long as `is_expired_at` does not call it expired.
* **Discovery.** Four entities are enough for loops of every kind, a branch
  that fails before one that succeeds, and branches that meet above and below
  the failure. At most one edge is broken or stale to begin with, and two more
  things go wrong during the walk. `ReachableIsFound` is not obvious: anchored
  discovery never forgets a visited entity, and it is said for Superiors with and
  without a fetch endpoint; one without hides those named after it, and one
  federation has a way past the entity that names it. `ChainsAreComplete` compares
  all chains found with all simple paths.
* **Metadata policy.** Two operators in each of two policies contain every pair
  of operators in one policy, and every pair split over two statements; three
  statements contain a conflict that the one between could hide. Two words, and a
  string of both, give every inclusion and overlap of operand sets, one of them a URL that can be an
  endpoint, one the algorithm `none`. The fields are one that takes anything,
  `scope`, an endpoint and a required array. `NoSubordinateLoosens` speaks of the
  metadata after its field read it, which drops a null. `ApplicationIsIdempotent` means that it does not matter whether a
  resolver or its client applied the policy: the result is metadata its subject
  could have published.
* **Registries.** No handler reads more than twice, so two changes and one tick
  between the reads give every order. The Trust Marks are one that expires, one
  issued later to the same subject, one that is not valid yet and one of another
  issuer; the requests are those that can be answered and one for each way in which
  a request cannot: a wrong method, a parameter that is missing, repeated, malformed
  or not supported. A Trust Mark recorded during the request is exempt in
  `StatusOfRecordWasTrue` and where an answer names one, since the clock was
  read before it was recorded. `ListingHonoursParameters` judges a listing by each
  parameter that was sent, so that it covers the reading of the parameters, what
  one implies for another, and both stores. `ClientsLearnTheAnswer` follows the
  answer to the client, over a response whose body may be lost, and includes the
  verification of a status response. `TrustMarkedAreMarked` and
  `ListingIsSoundAndComplete`, which speak of the query instead, are proved and have
  no check of their own.
* **Trust Marks.** One that verifies by each of the ways to be recognized (a
  listed issuer, any issuer, the anchor, the leaf itself, an owner's delegation),
  and each with one thing wrong; two in a call are what the cache, a retried
  discovery and a replaced key need. `RejectionsAreTrue`: the error of a Trust Mark
  was true of it at a moment of the call, and blames a signature or a delegation only
  where the anchor lets the issuer issue the type. `IssuedVerify` relates issuing to
  verifying, which check the same claims in different places: what could be signed
  verifies until it or its delegation expires. `OneViewPerIssuer` is what the cache
  promises, `OnlyRecognizedIssuersAreAsked` what the order of the checks does.
* **Onboarding.** `StatementsCompleteAChain` is what a candidate is checked for:
  the statement issued about it and the configuration it was registered on
  verify together at every time until one of them expires, however old the
  report was. `AnswersWereRegistered`: the store may change while a request is
  handled, but what is answered was so at some moment of it.
  `RegisteredCanBeIssued`: the check lets nothing pass that issuing refuses, but
  for `metadata_policy_crit`, which it does not look at. The answers of a host
  are a good configuration, one with another key, one that expires during the
  run, and ones that miss one check each. Two writes are a registration and its
  replacement or removal, before, during or after a request.

`TypeOK` is checked where it says more than types (a stack that fits the chain,
everything presented is reported). That of `FederationKeys`, the endpoint,
`TrustChain`, `Registries`, `TrustMarks` and `Onboarding` is proved as
`TypeCorrect` and has no check in a run.

Deadlock is checked except where a call simply returns (`try_new`, the two
walks, the resolution of a policy, a request to a registry endpoint and the
verification of Trust Marks) and in `keys`, where a process cannot start on
records that `from_records` refuses.

**Bounds of the model itself.** `MaxTime` stops the clock in `KeyRollover`,
`EntityConfigurationEndpoint`, `TrustChain`, `Registries`, `TrustMarks`
and `Onboarding`; `MaxChanges` bounds what happens to a federation during one walk, to the
registries during one request, to the keys of issuers during one call, or to the
subordinates of `Onboarding`.

**Fairness.** `NoStarvation` assumes that the runtime polls a task that was
granted the lock, and that the signer answers or fails in the end: the endpoint
has no timeout of its own, so without that assumption every later caller waits
for ever. `Terminates`, of `AllChainsDiscovery`, assumes that every request
ends, with an answer or a failure, as the HTTP client's timeout sees to.

## 4. Where the code and its documentation disagree

* `key_rollover_documented`: `src/keys.rs:12-14` says that after one
  configuration lifetime every cached configuration has expired, but
  `EntityConfiguration::validate` (`src/entity.rs:755`) still accepts one in
  the second of its `exp`. A key activated exactly then signs statements that
  such a configuration does not verify. One second more is enough
  (`key_rollover`), but only from when the requests at replaced endpoints have
  ended. The documentation does not say so: a request that awaits the lock of the
  replaced Entity Configuration endpoint dates a configuration without the new
  key when it goes on, however long after the new endpoint was built, and no fixed
  wait is enough. Without `replacedJwks = {}` in `PublishedLongEnough`, TLC finds
  `StatementsVerify` violated with a `Slack` of 1 and of 2; without
  `replacedSigners = {}` in `UnusedLongEnough`, a request at the replaced fetch endpoint
  signs with the old key after the wait for its retirement began, and
  `HistoryCoversStatements` is violated; without `k \notin answering`, the key of
  a historical answer is retired while its signer is awaited, and
  `HistoricalAnswersVerify` is. That the store must have another active key as well
  is what the proof needs with three keys: one that the fetch endpoint was never built
  with, replaced and retired in memory only, is still the active one to a historical
  keys request that loads the records before they are saved.
* `anchored_first_authentic`: `docs/DESIGN.md:63` says that
  `discover_trust_chain` returns the first chain that authenticates. It asks
  `try_new` only about the first path that reaches an anchor, and fails if that
  one does not authenticate, also when another would.

Eight more were noticed while modelling and have no run of their own:

* `docs/DESIGN.md:14` and the comment at `src/utils.rs:455` say that anchored
  discovery stops at the first failing branch. It goes on to the next hint,
  except when a Superior has no fetch endpoint, which ends the call of the entity
  that names it; `ReachableIsFound` says what that hides.
* `src/policy.rs:227` says that `null` removes a parameter, and lines 32-33 that
  a Subordinate cannot repeal what a Superior set. A Subordinate's `add` with no
  values makes the parameter `[]`. `NoSubordinateLoosens` therefore reads `null`
  as "no values".
* `src/policy.rs:32-33` again, for `scope`: operators process it as an array of
  values, which `scope_string` joins with spaces. A value that contains a space,
  in `subset_of`, `add`, or an array that is published, is joined with the others
  and read back as several: `subset_of: ["a b"]` lets the array `["a b"]` through
  as the string `a b`, whose values `a` and `b` it does not list, and applying the
  same policy again removes both. Without `ScopeOfWords`, TLC finds
  `NoSubordinateLoosens` violated by such a policy.
* The table in `src/endpoint/trust_mark_status.rs:26` gives status `invalid` to a
  Trust Mark the store does not hold while it holds another of that type and
  subject. The two are read one after the other, and a Trust Mark recorded in
  between is called invalid; `StatusOfRecordWasTrue` exempts it.
* `src/trust_marks.rs:324` says that each issuer's Trust Chain is discovered once
  per call. A discovery that fails is not remembered, so it is tried again for
  the issuer's next Trust Mark.
* `src/endpoint/list.rs:26` promises only subordinates that hold an active Trust
  Mark. Trust Marks are read before subordinates, so an entity that lost its
  Trust Mark before it was registered, both between the two reads, is listed.
* `src/endpoint/historical_keys.rs:21-24` says that the response is signed with a
  current Federation Entity Key, which verifiers find in the entity's `jwks`, and that
  after a rollover the endpoint answers `server_error` until it is built again. It
  looks at the store once, before it awaits its signer. When the key is revoked in
  between, the answer goes out with a key that is in no `jwks` any more, and when
  another is activated, with one that is not the active one. `HistoricalAnswersVerify`
  exempts the first; the second can be checked, as long as the operator does not
  retire the key before.
* `src/endpoint/fetch.rs:22` says that a statement is valid for the lifetime from
  the moment it is signed. `iat` and `exp` are fixed by `build`, before the
  signer is awaited, and unlike an Entity Configuration the signed statement is
  not verified: a signer slower than the lifetime hands out an expired one.

## 5. Proofs

TLAPS checks the theorems below for every value of the constants, under the
assumptions the modules name (`KeysAssumption`, `EndpointAssumption`,
`RolloverAssumption`, `StatementsAssumption`, `TrustChainAssumption`,
`RequestsAssumption`, `RegistriesAssumption`, `TrustMarksAssumption`,
`OnboardingAssumption`, `FederationAssumption`, `StartAssumption`,
`AnchoredAssumption`, `InputsAssumption`, `ParametersAssumption`: the types of the
constants; `EntitiesAreFinite`; `NoSubordinate`, `NoRejection` and `NoneAssumption`:
`None` is not a registration, a JWT, an error or a value, and `RolloverAssumption`
that `NoEndpoint` is not an endpoint).

**`EntityConfigurationEndpointProofs`.** The invariant says that while a
request signs, the cached configuration is the one that was not fresh when the
signing began (only the holder of the lock replaces it), and that every answer
is the cached configuration or was within its margin when that one was signed.
The theorems are `ServesNothingExpired`, `OneAtATime` and `Implements`, the
refinement: initial states map to initial states, and by `StepRefines` each step
is one of `Service` or leaves its variables unchanged. `FinishSigning` is an
`AnswerSigned` only because of that invariant.

**`KeyRolloverProofs`, the key set.** Two inductive invariants. The first is that every
key set in memory satisfies what `from_records` checks (distinct kids, one
active key, dates and revocations consistent, published keys usable) and has
the signers it needs: it holds after `Restore` because it is the guard there,
and every operation keeps it; `CurrentKeysSign`, `Publishable` and
`KeysAccountedFor` and `Restorable` follow. And that the records in memory
continue the stored ones (same places, same kids, states only later);
`HistoryKept` and `MovesForward` follow, since the only step that writes the
store is `Save`.

**`KeyRolloverProofs`, the rollover.** With any `Slack` other than 0, for any number of keys,
any lifetimes, an unbounded clock and any number of requests at endpoints that were
replaced. The waits and drains of the operator are the guards of `Activate` and
`Retire`, and nothing holds without them. None of the four properties is inductive
alone; the invariant has four parts. A key is `InUse` while an endpoint signs with
it, also a replaced one with requests (`Signing`), a historical answer awaits its
signer, it is the active one in the store, or one of its statements is valid.
`SignedInv`: a key in use is published or revoked, in the store and in memory.
`AgeInv`: what was issued with a jwks that no endpoint serves any more, not even a replaced
one, or by a key that none signs with, was issued before `since`, so it is gone once
a lifetime has passed after the drain. `CoverInv`: every configuration that is
`Current`, served at some endpoint or still valid, lists every key that is in use or
active in memory and not revoked. `FindableInv`: it lists every key with statements
that is not among the historical ones. Most actions put no key into use and
make no configuration current; `NothingNew` says once that those keep the invariant.
The waits are what lets `Activate` (`PublishedIsCovered`) and `Retire`
(`InUseIsNotRetired`) keep it. `StatementsAlwaysVerify`,
`HistoricalAnswersAlwaysVerify` and `KeysAlwaysFindable` follow;
`HistoryAlwaysCovers` has an invariant of its own, `HistoryInv`, of the dates of the
retired keys in memory and in the store.

**`TrustChainProofs`.** The invariant says that the part of the chain from `at`
on is authentic as far as it was checked: every JWT there passed at some time
between `began` and `now`. `OnlyAuthenticIsAccepted`, `NoAuthenticIsRejected`
and `LeafIsItself` hold for chains of any length. `ExpiryIsTold` follows from the
first: an accepted JWT only fails later by its `exp`.

**`RegistriesProofs`.** For any Trust Marks, any clock and any number of
changes. `HistoryInv` says what a moment of the request has in common with the
present: records are never removed, a revocation is undone by an insertion only,
and the handler's clock is that of one of the moments. So what a handler finds
active, early or revoked was so at that moment or is so now. `MarkedInv` says of
the first read of a listing what the property says of its answer, and that it
stays so while the registries change (`StaysCovered`). `QueryInv` ties the query to
the request that was received: `EndpointsImplementRegistries` says that every
request, however it was written, becomes a query the handlers are specified for,
`ListQueryMeans` relates each filter to the parameters that were sent, and
`SubordinateListing` and `ClientsAlwaysLearn` follow.

**`TrustMarksProofs`.** For any anchor, any Trust Marks and any number of
changes. `KeysInv` says that what is known of an issuer was authenticated for it
during the call and never changes once it is known; `VerifiedInv` that whatever
verified did so with that. `VerifiedIsAcceptable` relates the checks to
`Acceptable`, so each decision is right at its moment, and the properties only
get weaker as moments and key sets are added. `OneView` follows. For `IssuedAlwaysVerify`, a
Trust Mark that could be signed when the call began passes each check until it
expires, so only a missed chain or an expiry is left; for `OnlyTrueRejections`, each
check is related to the claim its error makes. `NoTrustedFail`, that nothing
acceptable fails, has no check of its own.

**`OnboardingProofs`.** For any entities, answers, policies and any number of
writes. The invariant follows what was verified from place to place. `Sound`
says of a registration that its keys are publishable, its metadata policy valid,
and the configuration it comes from verified with those keys at some time before
now (`VerifiedBy`), and names the Superior; `ReportInv` says it of the report,
`StoreInv` of the store and of `seen`. `RequestInv` says that what the handler
found is in `seen`, `StatementInv` that a statement was built from one of those,
at some time before now, and `AnswerInv` the same of refusals. `VerifiedStays`
is the step that carries a verification to any later time before the expiry.

**`DiscoveryProofs`, every branch.** For any federation of finitely many entities,
any hints and any number of changes. `CallsInv` says that the calls on the stack
follow the hints from the start entity, meet nobody twice, since `visited` is
exactly who is on the stack, and that each call but the first was reported as a
chain or as a failure when it began. `ChainInv` ties the chain under construction
to the calls. `OnlyAuthenticChains` needs both for the path of a chain that ends
here; `NothingDropped` needs them when a call returns, since the caller's hint
becomes one that was passed over. `EveryPathIsFound` is about all paths the walk
has still to try, and needs no induction over them: `SearchedInv` says, as long as
nothing changed or failed, that each path over a hint which some call has passed,
or that ends at a call, was found. A call that begins has passed none of its
hints, so only its own path is new; a call that returns has passed all, so the
paths over the caller's hint are found by then. At the end the first call has
passed all of its hints, and every path goes over one. `FollowedInv` says why the
calls themselves are paths: each Superior could be asked and endorses the key in use.

**`DiscoveryProofs`, towards an anchor.** `FoundInv` says that a chain with which
the walk ends leads from the start entity to an anchor, and was authenticated.
`AnchoredCallsInv` and `AnchoredChainInv` tie the chain to the calls, and
`ChainIsOfTheCalls` to their `base`. Unlike the other walk this one never forgets
whom it visited, so `NothingReachableIsMissed` must say that an entity which was
tried in vain need not be tried on another path. `VisitedInv` does: as long as
nothing went wrong and no anchor was met, the entities that were visited are closed
under the Superiors that can be fetched in order (those not hidden by one without a
fetch endpoint), except for the calls that are not over, whose Superiors are visited
up to the hint each is at. When the last call returns the visited entities contain
all that are reachable, and no anchor.

**`DiscoveryProofs`, termination.** Neither recursion has a limit of its own. For both,
`RecursionIsBounded` says that it is never deeper than there are entities, and that
its `Place` (the calls and the hint each is at) is one of finitely many;
`EveryStepGoesOn` says that each step leads to a later place, in the order `After`
of a depth-first walk, which `AfterIsAStrictOrder` shows to be transitive and
irreflexive. So a walk takes finitely many steps whatever fails or changes, and
ends if its requests do; that last conclusion, an induction, is left to the reader and,
for the walk over every branch, to the run that checks `Terminates`.

**`MetadataPolicyProofs`.** For chains of any length, operators of any values and
any published metadata. The invariant says that the policy resolved so far is valid
(`TypeOK`), that it is as strict as every policy above `at` (`IsAsStrict`: each
operator demands as much or more), and that none of these uses a critical
operator. `MergedIsAsStrict` says that merging keeps both sides' demands, and the
relation is transitive, so `MergeNext` keeps the invariant; it needs the second
`validate`, since two valid policies may merge into one that is not.
`PolicyIsDelivered` is the other half: what `apply_operators` leaves of a parameter
complies with the policy it applied, which is where the order of the stages matters
(`subset_of` after `add` and `default`, so only a valid policy keeps what it adds).
`StricterComplies` joins the halves to `NothingIsLoosened`. `MergingDemandsExactly`
is the converse too: a value complies with the resolved policy exactly if it complies
with every policy merged into it, so merging demands nothing that no statement set. For
`AppliedOnceIsEnough`, `Steps` splits an application into its stages and
`SecondApplicationChangesNothing` shows each to be the identity on what came out;
`WrittenIsProcessedBack` takes a scope of words through its string and back. The
first lemmas are about `SetToSeq` and `Retained`.

Every invariant, action property and refinement that a run checks is proved. Only
model-checked are the two liveness properties, `NoStarvation` and `Terminates`, which
are beyond the prover.

## 6. Plan

Done in this order: keys, Entity Configuration endpoint, trust chain
validation, rollover, discovery, metadata policies, registries, Trust Marks,
onboarding with the fetch endpoint, historical keys, requests and responses of the
registry endpoints, issuing of Trust Marks, typed metadata, the proofs of the
two walks and of metadata policies. What is left, in order of worth:

1. Trust Marks from issuance to the verification of a status response across the
   issuer's rollover.
2. Metadata and constraints in the statements of `Onboarding`, for registrations
   that do not come from a check.

Not modelled, and why:

* Two processes that save to one `KeyStore`. `save` replaces all records whatever is
  stored, so the later one wins; nothing in the crate coordinates them, and what a
  deployment does about it is not in this code.
* Error types other than `EndpointError` (`src/error.rs`): they carry the cause of a
  failure, which the models name themselves. `src/lib.rs` re-exports.
* Serialisation, URL parsing, JSON and cryptography, which have no state and are the
  business of libraries; the names of additional policy operators.
* `Constraints` (`src/types.rs`): the crate reads, validates and publishes them but
  enforces none of them on a chain; naming constraints at onboarding are in
  `Onboarding`.
* That metadata carries no Entity Type its publisher lacks, and the mapping from
  Entity Types to metadata: data with no effect on any state here.
