-------------------------- MODULE OnboardingProofs --------------------------
(***************************************************************************)
(* What registering candidates that passed the check is good for, for any  *)
(* entities, answers of hosts, policies, lifetime and bounds.              *)
(***************************************************************************)
EXTENDS Onboarding, TLAPS

LEMMA TypeInit == Init => TypeOK
  BY OnboardingAssumption DEF Init, TypeOK, Registrations

\* A report without failures makes a Subordinate.
LEMMA ReportMakesSubordinate ==
  ASSUME TypeOK, step = "reported", response # None
  PROVE  [jwks |-> response.jwt.jwks,
          metadata_policy |-> policy.metadata_policy,
          metadata_policy_crit |-> policy.metadata_policy_crit,
          on |-> response] \in Subordinate
<1>1. response \in Configuration /\ response.jwt \in Jwt
  BY DEF TypeOK, Configuration
<1>2. policy \in Policy
  BY OnboardingAssumption DEF TypeOK
<1> QED
  BY <1>1, <1>2 DEF Subordinate, Policy, Jwt

LEMMA WriteKeepsType ==
  ASSUME TypeOK, NEW e \in Entities, NEW s \in Registrations, Write(e, s)
  PROVE  /\ changes' \in Nat
         /\ registered' \in [Entities -> Registrations]
         /\ seen' \subseteq Registrations
  BY DEF TypeOK, Write

LEMMA StatementType ==
  ASSUME TypeOK, found # None
  PROVE  StatementOn(found) \in Jwt
<1>1. found.jwks \in Seq(PublicJwk)
  BY DEF TypeOK, Registrations, Subordinate
<1>2. Lifetime \in Nat /\ Superior \in Entities
  BY OnboardingAssumption
<1>3. SigningKey.kid \in Kids /\ SigningKey.key \in Keys
  BY OnboardingAssumption
<1> QED
  BY <1>1, <1>2, <1>3 DEF TypeOK, StatementOn, Jwt

LEMMA TypeNext == TypeOK /\ [Next]_vars => TypeOK'
<1> SUFFICES ASSUME TypeOK, [Next]_vars PROVE TypeOK'
  OBVIOUS
<1> USE DEF checkVars, fetchVars
<1>1. ASSUME NEW e \in Entities, NEW p \in Policies, BeginCheck(e, p) PROVE TypeOK'
  BY <1>1, OnboardingAssumption DEF BeginCheck, TypeOK
<1>2. CASE Respond
  BY <1>2, OnboardingAssumption DEF Respond, TypeOK
<1>3. CASE ReportUnreachable \/ ReportInvalid \/ ReportVerified
  BY <1>3 DEF ReportUnreachable, ReportInvalid, ReportVerified, TypeOK
<1>4. CASE Register
  <2> DEFINE s == [jwks |-> response.jwt.jwks,
                   metadata_policy |-> policy.metadata_policy,
                   metadata_policy_crit |-> policy.metadata_policy_crit,
                   on |-> response]
  <2>1. s \in Registrations /\ candidate \in Entities
    BY <1>4, ReportMakesSubordinate DEF Register, Registrations, TypeOK
  <2>2. Write(candidate, s)
    BY <1>4 DEF Register
  <2>3. changes' \in Nat /\ registered' \in [Entities -> Registrations] /\ seen' \subseteq Registrations
    BY <2>1, <2>2, WriteKeepsType
  <2> QED
    BY <1>4, <2>3, OnboardingAssumption DEF Register, EndCheck, TypeOK
<1>5. CASE Dismiss
  BY <1>5, OnboardingAssumption DEF Dismiss, EndCheck, TypeOK
<1>6. ASSUME NEW e \in Entities, Remove(e) PROVE TypeOK'
  <2>1. changes' \in Nat /\ registered' \in [Entities -> Registrations] /\ seen' \subseteq Registrations
    BY <1>6, WriteKeepsType DEF Remove, Registrations
  <2> QED
    BY <1>6, <2>1 DEF Remove, TypeOK
<1>7. ASSUME NEW e \in Entities, RefuseRequest(e) \/ AcceptRequest(e) PROVE TypeOK'
  BY <1>7 DEF RefuseRequest, AcceptRequest, Answer, TypeOK, Registrations
<1>8. CASE ReadSubordinate
  BY <1>8 DEF ReadSubordinate, TypeOK
<1>9. CASE AnswerNotFound \/ RefuseStatement \/ FinishSigning \/ Fail
  BY <1>9 DEF AnswerNotFound, RefuseStatement, FinishSigning, Fail, Answer, TypeOK, Registrations
<1>10. CASE BuildStatement
  <2>1. StatementOn(found) \in Jwt /\ StatementOn(found) # None
    BY <1>10, StatementType, NoSubordinate DEF BuildStatement
  <2> QED
    BY <1>10, <2>1 DEF BuildStatement, TypeOK
<1>11. CASE Tick
  BY <1>11 DEF Tick, TypeOK
<1>12. CASE UNCHANGED vars
  BY <1>12 DEF vars, TypeOK
<1> QED
  BY <1>1, <1>2, <1>3, <1>4, <1>5, <1>6, <1>7, <1>8, <1>9, <1>10, <1>11, <1>12
     DEF Next, CheckNext, FetchNext

\* Every variable has its type, whatever hosts answer.
THEOREM TypeCorrect == Spec => []TypeOK
  BY TypeInit, TypeNext, PTL DEF Spec

-----------------------------------------------------------------------------

\* `jwt` verified as the configuration of `e` at t or before.
VerifiedBy(jwt, e, t) ==
  /\ jwt.formed /\ jwt.jwks # << >>
  /\ jwt.nbf <= t /\ jwt.iat <= t + Leeway
  /\ jwt.iss = e /\ jwt.sub = e
  /\ NamedKeySigned(jwt, jwt.jwks)
  /\ IsUnderstood(jwt)

\* `s` was registered for `e`, at t or before, from a report without failures.
Sound(s, e, t) ==
  /\ s.jwks = s.on.jwt.jwks
  /\ Superior \in s.on.hints
  /\ ArePublishable(s.jwks)
  /\ s.metadata_policy # "invalid"
  /\ VerifiedBy(s.on.jwt, e, t)

\* A report without failures is about a configuration that passed.
ReportInv ==
  /\ step \in {"idle", "asked"} => response = None
  /\ step = "reported" /\ response # None =>
       /\ VerifiedBy(response.jwt, candidate, now)
       /\ failures = {} =>
            /\ Superior \in response.hints
            /\ ArePublishable(response.jwt.jwks)
            /\ policy.metadata_policy # "invalid"

\* What is and was registered is sound.
StoreInv ==
  /\ \A e \in Entities : registered[e] # None => Sound(registered[e], e, now)
  /\ \A s \in seen \ {None} : Sound(s, sub, now)

\* The handler works with what was registered during the request.
RequestInv ==
  /\ Undecided => sub # Superior /\ registered[sub] \in seen
  /\ handling = "read" => found \in seen

\* The statement that is built on `s`, registered for `e`, at t.
IssuedAt(s, e, t) ==
  [iss |-> Superior, sub |-> e, iat |-> t, nbf |-> t, exp |-> t + Lifetime,
   jwks |-> s.jwks, kid |-> SigningKey.kid, key |-> SigningKey.key,
   crit |-> {}, formed |-> TRUE]

\* The statement in the signer, or answered, is about what was registered.
StatementInv ==
  handling = "signing" \/ answer = "statement" =>
    /\ sub # Superior
    /\ statement.iat \in 0..now
    /\ \E s \in seen \ {None} :
         /\ Sound(s, sub, statement.iat)
         /\ statement = IssuedAt(s, sub, statement.iat)

AnswerInv ==
  /\ answer = "not_found" => None \in seen
  /\ RegisteredCanBeIssued

Inv == TypeOK /\ ReportInv /\ StoreInv /\ RequestInv /\ StatementInv /\ AnswerInv

LEMMA JwtTimes ==
  ASSUME NEW jwt \in Jwt
  PROVE  /\ jwt.nbf \in Int /\ jwt.iat \in Int /\ jwt.exp \in Int
         /\ jwt.jwks \in Seq(PublicJwk)
  BY DEF Jwt

\* What verifies now is verified from now on.
LEMMA VerifiedStays ==
  ASSUME NEW jwt \in Jwt, NEW e, NEW t \in Nat, NEW u \in Nat, t <= u, VerifiedBy(jwt, e, t)
  PROVE  VerifiedBy(jwt, e, u)
<1>1. jwt.nbf \in Int /\ jwt.iat \in Int
  BY JwtTimes
<1> QED
  BY <1>1, StatementsAssumption DEF VerifiedBy

LEMMA SoundStays ==
  ASSUME NEW s \in Subordinate, NEW e, NEW t \in Nat, NEW u \in Nat, t <= u, Sound(s, e, t)
  PROVE  Sound(s, e, u)
<1>1. s.on.jwt \in Jwt
  BY DEF Subordinate, Configuration
<1> QED
  BY <1>1, VerifiedStays DEF Sound

LEMMA ConfigurationIsVerified ==
  ASSUME NEW jwt \in Jwt, NEW e, NEW t \in Nat, IsConfigurationOf(jwt, e, t)
  PROVE  VerifiedBy(jwt, e, t)
  BY JwtTimes DEF IsConfigurationOf, IsCurrent, Verifies, TimesHold, VerifiedBy

\* It is a configuration of `e` until it expires.
LEMMA VerifiedIsConfiguration ==
  ASSUME NEW jwt \in Jwt, NEW e, NEW t \in Nat, t <= jwt.exp, VerifiedBy(jwt, e, t)
  PROVE  IsConfigurationOf(jwt, e, t)
<1>1. jwt.nbf \in Int /\ jwt.iat \in Int /\ jwt.exp \in Int /\ Leeway \in Nat
  BY JwtTimes, StatementsAssumption
<1> QED
  BY <1>1 DEF IsConfigurationOf, IsCurrent, Verifies, TimesHold, VerifiedBy

\* The writes to the store keep what is sound, if what they write is.
LEMMA WriteKeepsInv ==
  ASSUME Inv, NEW e \in Entities, NEW s \in Registrations,
         s # None => Sound(s, e, now),
         Write(e, s), UNCHANGED <<now, fetchVars>>
  PROVE  StoreInv' /\ RequestInv' /\ StatementInv' /\ AnswerInv'
<1> USE DEF fetchVars
<1>1. seen \subseteq seen' /\ (\A x \in seen' : x \in seen \/ (x = s /\ sub = e))
  BY DEF Write
<1>2. registered' = [registered EXCEPT ![e] = s] /\ registered \in [Entities -> Registrations]
  BY DEF Write, Inv, TypeOK
<1>3. \A x : Sound(x, sub, now)' <=> Sound(x, sub, now)
  BY DEF Sound, VerifiedBy, IsUnderstood, NamedKeySigned, ArePublishable
<1>4. StoreInv'
  BY <1>1, <1>2 DEF Inv, StoreInv
<1>5. RequestInv'
  <2>1. Undecided => registered'[sub] \in seen'
    BY <1>1, <1>2 DEF Inv, RequestInv, Undecided, Write, TypeOK
  <2> QED
    BY <1>1, <2>1 DEF Inv, RequestInv, Undecided
<1>6. StatementInv'
  BY <1>1 DEF Inv, StatementInv, IssuedAt
<1>7. AnswerInv'
  BY <1>1 DEF Inv, AnswerInv, RegisteredCanBeIssued
<1> QED
  BY <1>4, <1>5, <1>6, <1>7

LEMMA InvInit == Init => Inv
  BY TypeInit DEF Init, Inv, ReportInv, StoreInv, RequestInv, StatementInv, AnswerInv,
                  Undecided, RegisteredCanBeIssued

\* The check writes nothing the handler reads.
LEMMA CheckKeepsInv ==
  ASSUME Inv, TypeOK', ReportInv',
         UNCHANGED <<now, registered, changes, fetchVars, seen>>
  PROVE  Inv'
  BY DEF fetchVars, Inv, StoreInv, RequestInv, StatementInv, AnswerInv, Undecided,
         RegisteredCanBeIssued

\* Nor does the handler write anything the check reads, or the store.
LEMMA FetchKeepsInv ==
  ASSUME Inv, TypeOK', \A s \in seen' \ {None} : Sound(s, sub', now),
         RequestInv', StatementInv', AnswerInv',
         UNCHANGED <<now, registered, changes, checkVars>>
  PROVE  Inv'
  BY DEF checkVars, Inv, ReportInv, StoreInv

LEMMA RequestKeepsInv ==
  ASSUME Inv, TypeOK', NEW e \in Entities, RefuseRequest(e) \/ AcceptRequest(e)
  PROVE  Inv'
<1>1. sub' = e /\ seen' = {registered[e]} /\ UNCHANGED <<now, registered, changes, checkVars>>
  BY DEF RefuseRequest, AcceptRequest
<1>2. \A s \in seen' \ {None} : Sound(s, sub', now)
  BY <1>1 DEF Inv, StoreInv
<1>3. RequestInv'
  BY <1>1 DEF RefuseRequest, AcceptRequest, Answer, RequestInv, Undecided
<1>4. StatementInv' /\ AnswerInv'
  BY <1>1 DEF RefuseRequest, AcceptRequest, Answer, StatementInv, AnswerInv, RegisteredCanBeIssued
<1> QED
  BY <1>1, <1>2, <1>3, <1>4, FetchKeepsInv

\* The statement is built of a Subordinate that was registered at a moment of
\* the request.
LEMMA BuildKeepsInv ==
  ASSUME Inv, TypeOK', BuildStatement
  PROVE  Inv'
<1>1. found \in seen \ {None} /\ sub # Superior /\ now \in Nat
  BY DEF BuildStatement, Inv, TypeOK, RequestInv, Undecided
<1>2. Sound(found, sub, now)
  BY <1>1 DEF Inv, StoreInv
<1>3. statement' = StatementOn(found) /\ UNCHANGED <<now, sub, seen>>
  BY DEF BuildStatement
<1>4. statement'.iat = now
  BY <1>3 DEF StatementOn
<1>5. statement' = IssuedAt(found, sub, now)
  BY <1>3 DEF StatementOn, IssuedAt
<1>6. Sound(found, sub, statement'.iat)
  BY <1>2, <1>4
<1>7. StatementInv'
  <2>1. statement' = IssuedAt(found, sub', statement'.iat)
    BY <1>3, <1>4, <1>5
  <2>2. sub' # Superior /\ statement'.iat \in 0..now'
    BY <1>1, <1>3, <1>4
  <2>3. found \in seen' \ {None} /\ Sound(found, sub', statement'.iat)
    BY <1>1, <1>3, <1>6
  <2> QED
    BY <2>1, <2>2, <2>3 DEF StatementInv, IssuedAt, Sound, VerifiedBy, IsUnderstood,
                            NamedKeySigned, ArePublishable
<1>8. RequestInv' /\ AnswerInv'
  BY DEF BuildStatement, Inv, RequestInv, AnswerInv, Undecided, RegisteredCanBeIssued
<1> QED
  BY <1>2, <1>3, <1>7, <1>8, FetchKeepsInv DEF BuildStatement, Inv, StoreInv

LEMMA AnswerKeepsInv ==
  ASSUME Inv, TypeOK', AnswerNotFound \/ RefuseStatement \/ FinishSigning \/ Fail
  PROVE  Inv'
<1>1. UNCHANGED <<now, registered, changes, checkVars, sub, seen>> /\ handling' = "idle"
  BY DEF AnswerNotFound, RefuseStatement, FinishSigning, Fail, Answer
<1>2. RequestInv'
  BY <1>1 DEF RequestInv, Undecided
<1>3. StatementInv'
  BY <1>1 DEF AnswerNotFound, RefuseStatement, FinishSigning, Fail, Answer,
              Inv, StatementInv, IssuedAt
<1>4. AnswerInv'
  <2>1. CASE AnswerNotFound
    BY <2>1 DEF AnswerNotFound, Answer, Inv, AnswerInv, RequestInv, RegisteredCanBeIssued
  <2>2. CASE RefuseStatement
    <3>1. found \in seen \ {None} /\ ~CanBeIssued(found)
      BY <2>2 DEF RefuseStatement, Inv, RequestInv
    <3>2. Sound(found, sub, now)
      BY <3>1 DEF Inv, StoreInv
    <3>3. found.metadata_policy_crit = "invalid"
      BY <3>1, <3>2 DEF CanBeIssued, Sound, VerifiedBy
    <3> QED
      BY <1>1, <2>2, <3>1, <3>3 DEF RefuseStatement, Answer, AnswerInv, RegisteredCanBeIssued
  <2>3. CASE FinishSigning \/ Fail
    BY <2>3 DEF FinishSigning, Fail, Answer, AnswerInv, RegisteredCanBeIssued
  <2> QED
    BY <2>1, <2>2, <2>3
<1> QED
  BY <1>1, <1>2, <1>3, <1>4, FetchKeepsInv DEF Inv, StoreInv

LEMMA TickKeepsInv ==
  ASSUME Inv, TypeOK', Tick
  PROVE  Inv'
<1>1. now \in Nat /\ now' \in Nat /\ now <= now'
  BY DEF Inv, TypeOK, Tick
<1>2. \A s \in Subordinate, e \in Entities : Sound(s, e, now) => Sound(s, e, now')
  BY <1>1, SoundStays
<1>3. ReportInv'
  <2>1. ASSUME response # None, VerifiedBy(response.jwt, candidate, now)
        PROVE  VerifiedBy(response.jwt, candidate, now')
    BY <1>1, <2>1, VerifiedStays DEF Inv, TypeOK, Configuration
  <2> QED
    BY <2>1 DEF Tick, checkVars, Inv, ReportInv
<1>4. StoreInv'
  BY <1>2 DEF Tick, fetchVars, Inv, TypeOK, Registrations, StoreInv
<1>5. StatementInv'
  BY <1>1 DEF Tick, fetchVars, Inv, StatementInv, IssuedAt
<1>6. RequestInv' /\ AnswerInv'
  BY DEF Tick, fetchVars, Inv, RequestInv, AnswerInv, Undecided, RegisteredCanBeIssued
<1> QED
  BY <1>3, <1>4, <1>5, <1>6 DEF Inv

LEMMA InvNext == Inv /\ [Next]_vars => Inv'
<1> SUFFICES ASSUME Inv, [Next]_vars PROVE Inv'
  OBVIOUS
<1>0. TypeOK'
  BY TypeNext DEF Inv
<1>1. ASSUME NEW e \in Entities, NEW p \in Policies, BeginCheck(e, p) PROVE Inv'
  <2>1. ReportInv'
    BY <1>1 DEF BeginCheck, Inv, ReportInv
  <2> QED
    BY <1>0, <1>1, <2>1, CheckKeepsInv DEF BeginCheck
<1>2. CASE Respond \/ ReportUnreachable \/ ReportInvalid \/ Dismiss
  <2>1. ReportInv'
    BY <1>2 DEF Respond, ReportUnreachable, ReportInvalid, Dismiss, EndCheck, Inv, ReportInv
  <2> QED
    BY <1>0, <1>2, <2>1, CheckKeepsInv
       DEF Respond, ReportUnreachable, ReportInvalid, Dismiss, EndCheck
<1>3. CASE ReportVerified
  <2>1. response.jwt \in Jwt /\ now \in Nat /\ response # None
    BY <1>3 DEF ReportVerified, Inv, TypeOK, Configuration
  <2>2. VerifiedBy(response.jwt, candidate, now)
    BY <1>3, <2>1, ConfigurationIsVerified DEF ReportVerified, VerifiesNow
  <2>3. failures' = {} =>
          /\ Superior \in response.hints /\ ArePublishable(response.jwt.jwks)
          /\ policy.metadata_policy # "invalid"
    BY <1>3 DEF ReportVerified, ConfigurationFailures, PolicyFailures
  <2>4. ReportInv'
    BY <1>3, <2>2, <2>3 DEF ReportVerified, ReportInv
  <2> QED
    BY <1>0, <1>3, <2>4, CheckKeepsInv DEF ReportVerified
<1>4. CASE Register
  <2> DEFINE s == [jwks |-> response.jwt.jwks,
                   metadata_policy |-> policy.metadata_policy,
                   metadata_policy_crit |-> policy.metadata_policy_crit,
                   on |-> response]
  <2>1. s \in Registrations /\ candidate \in Entities
    BY <1>4, ReportMakesSubordinate DEF Register, Registrations, Inv, TypeOK
  <2>2. Sound(s, candidate, now)
    BY <1>4 DEF Register, Inv, ReportInv, Sound
  <2>3. Write(candidate, s) /\ UNCHANGED <<now, fetchVars>>
    BY <1>4 DEF Register
  <2>4. StoreInv' /\ RequestInv' /\ StatementInv' /\ AnswerInv'
    BY <2>1, <2>2, <2>3, WriteKeepsInv
  <2>5. ReportInv'
    BY <1>4 DEF Register, EndCheck, ReportInv
  <2> QED
    BY <1>0, <2>4, <2>5 DEF Inv
<1>5. ASSUME NEW e \in Entities, Remove(e) PROVE Inv'
  <2>1. StoreInv' /\ RequestInv' /\ StatementInv' /\ AnswerInv'
    BY <1>5, WriteKeepsInv DEF Remove, Registrations
  <2> QED
    BY <1>0, <1>5, <2>1 DEF Remove, checkVars, Inv, ReportInv
<1>6. ASSUME NEW e \in Entities, RefuseRequest(e) \/ AcceptRequest(e) PROVE Inv'
  BY <1>0, <1>6, RequestKeepsInv
<1>7. CASE ReadSubordinate
  <2>1. RequestInv' /\ StatementInv' /\ AnswerInv'
    BY <1>7 DEF ReadSubordinate, Inv, RequestInv, StatementInv, IssuedAt, AnswerInv,
                Undecided, RegisteredCanBeIssued
  <2> QED
    BY <1>0, <1>7, <2>1, FetchKeepsInv DEF ReadSubordinate, Inv, StoreInv
<1>8. CASE BuildStatement
  BY <1>0, <1>8, BuildKeepsInv
<1>9. CASE AnswerNotFound \/ RefuseStatement \/ FinishSigning \/ Fail
  BY <1>0, <1>9, AnswerKeepsInv
<1>10. CASE Tick
  BY <1>0, <1>10, TickKeepsInv
<1>11. CASE UNCHANGED vars
  BY <1>11 DEF vars, checkVars, fetchVars, Inv, TypeOK, ReportInv, StoreInv, RequestInv,
               StatementInv, IssuedAt, AnswerInv, Undecided, RegisteredCanBeIssued
<1> QED
  BY <1>1, <1>2, <1>3, <1>4, <1>5, <1>6, <1>7, <1>8, <1>9, <1>10, <1>11
     DEF Next, CheckNext, FetchNext

LEMMA Invariance == Spec => []Inv
  BY InvInit, InvNext, PTL DEF Spec

-----------------------------------------------------------------------------

LEMMA InvCompletesAChain == Inv => StatementsCompleteAChain
<1> SUFFICES ASSUME Inv, answer = "statement" PROVE StatementsCompleteAChain
  BY DEF StatementsCompleteAChain
<1>1. PICK s \in seen \ {None} :
        /\ Sound(s, sub, statement.iat)
        /\ statement = IssuedAt(s, sub, statement.iat)
  BY DEF Inv, StatementInv
<1>2. s \in Subordinate /\ s.on.jwt \in Jwt
  BY DEF Inv, TypeOK, Registrations, Subordinate, Configuration
<1>3. /\ statement.iss = Superior /\ statement.sub = sub
      /\ statement.jwks = s.jwks /\ statement.nbf = statement.iat
      /\ statement.exp = statement.iat + Lifetime
      /\ statement.kid = SigningKey.kid /\ statement.key = SigningKey.key
      /\ statement.crit = {} /\ statement.formed
  BY <1>1 DEF IssuedAt
<1>4. statement.iat \in Nat /\ Lifetime \in Nat /\ Leeway \in Nat /\ MaxTime \in Nat
  BY OnboardingAssumption, StatementsAssumption DEF Inv, StatementInv, TypeOK
<1>5. sub # Superior /\ s.jwks = s.on.jwt.jwks /\ s.jwks # << >> /\ Superior \in s.on.hints
  BY <1>1 DEF Inv, StatementInv, Sound, VerifiedBy
<1>6. SigningKey.kid # NoKid
  BY OnboardingAssumption, StatementsAssumption
<1>7. NamedKeySigned(statement, <<SigningKey>>)
  <2>1. DOMAIN <<SigningKey>> = {1} /\ <<SigningKey>>[1] = SigningKey
    OBVIOUS
  <2> QED
    BY <1>3, <1>6, <2>1 DEF NamedKeySigned
<1>8. ASSUME NEW t \in statement.iat .. MaxTime, t <= statement.exp, t <= s.on.jwt.exp
      PROVE  /\ IsStatementAbout(statement, Superior, sub, <<SigningKey>>, t)
             /\ IsConfigurationOf(s.on.jwt, sub, t)
             /\ Verifies(s.on.jwt, statement.jwks, t)
  <2>1. t \in Nat /\ statement.iat <= t
    BY <1>4, <1>8
  <2>2. Sound(s, sub, t)
    BY <1>1, <1>2, <1>4, <2>1, SoundStays
  <2>3. IsConfigurationOf(s.on.jwt, sub, t)
    BY <1>2, <1>8, <2>1, <2>2, VerifiedIsConfiguration DEF Sound
  <2>4. IsStatementAbout(statement, Superior, sub, <<SigningKey>>, t)
    BY <1>3, <1>4, <1>5, <1>7, <1>8, <2>1
       DEF IsStatementAbout, IsCurrent, Verifies, TimesHold, IsUnderstood
  <2> QED
    BY <1>3, <1>5, <2>3, <2>4 DEF IsConfigurationOf
<1> QED
  BY <1>3, <1>5, <1>8 DEF StatementsCompleteAChain

\* A statement the fetch endpoint answers completes a Trust Chain with the
\* Entity Configuration its subject was registered on, while both last.
THEOREM StatementsCompleteAChainCorrect == Spec => []StatementsCompleteAChain
  BY Invariance, InvCompletesAChain, PTL

\* What it answers was so at some moment of the request.
THEOREM AnswersWereRegisteredCorrect == Spec => []AnswersWereRegistered
<1>1. Inv => AnswersWereRegistered
  BY DEF Inv, StatementInv, AnswerInv, IssuedAt, AnswersWereRegistered
<1> QED
  BY <1>1, Invariance, PTL

\* Only metadata_policy_crit can make the statement on a subordinate that
\* passed the check one that is refused.
THEOREM RegisteredCanBeIssuedCorrect == Spec => []RegisteredCanBeIssued
<1>1. Inv => RegisteredCanBeIssued
  BY DEF Inv, AnswerInv
<1> QED
  BY <1>1, Invariance, PTL
=============================================================================
