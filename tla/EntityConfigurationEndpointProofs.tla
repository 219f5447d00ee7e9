----------------- MODULE EntityConfigurationEndpointProofs ------------------
(***************************************************************************)
(* The safety of the Entity Configuration endpoint for any number of       *)
(* callers, any lifetime and refresh margin, and any bound on the clock.   *)
(***************************************************************************)
EXTENDS EntityConfigurationEndpoint, SequenceTheorems, TLAPS

LEMMA TypeInit == Init => TypeOK
  BY EmptySeq DEF Init, TypeOK

LEMMA TypeNext == TypeOK /\ [Next]_vars => TypeOK'
<1> SUFFICES ASSUME TypeOK, [Next]_vars PROVE TypeOK'
  OBVIOUS
<1> USE DEF TypeOK
<1>1. CASE Tick
  BY <1>1 DEF Tick
<1>2. ASSUME NEW r \in Requests, Arrive(r) PROVE TypeOK'
  <2>1. Append(waiting, r) \in Seq(Requests)
    OBVIOUS
  <2> QED
    BY <1>2, <2>1 DEF Arrive
<1>3. ASSUME NEW r \in Requests, Refuse(r) PROVE TypeOK'
  BY <1>3 DEF Refuse
<1>4. ASSUME NEW r \in Requests, ServeCached(r) PROVE TypeOK'
  <2>1. Answered(cached, now) \in Served
    BY <1>4 DEF ServeCached, Fresh, Answered, Served
  <2> QED
    BY <1>4, <2>1, HeadTailProperties DEF ServeCached, IsNext
<1>5. ASSUME NEW r \in Requests, StartSigning(r) PROVE TypeOK'
  BY <1>5, HeadTailProperties DEF StartSigning, IsNext
<1>6. ASSUME NEW r \in Requests, FinishSigning(r) PROVE TypeOK'
  <2>1. settings.lifetime \in Int
    BY EndpointAssumption
  <2>2. cached' \in Config /\ Answered(cached', now) \in Served
    BY <1>6, <2>1 DEF FinishSigning, SelfVerifies, Config, Answered, Served
  <2> QED
    BY <1>6, <2>2 DEF FinishSigning, SelfVerifies
<1>7. ASSUME NEW r \in Requests, FailSigning(r) PROVE TypeOK'
  BY <1>7 DEF FailSigning
<1>8. ASSUME NEW r \in Requests, LeaveQueue(r) PROVE TypeOK'
  <2>1. PICK i \in DOMAIN waiting :
          waiting' = SubSeq(waiting, 1, i - 1) \o SubSeq(waiting, i + 1, Len(waiting))
    BY <1>8 DEF LeaveQueue
  <2>2. /\ SubSeq(waiting, 1, i - 1) \in Seq(Requests)
        /\ SubSeq(waiting, i + 1, Len(waiting)) \in Seq(Requests)
    BY SubSeqProperties
  <2>3. waiting' \in Seq(Requests)
    BY <2>1, <2>2
  <2> QED
    BY <1>8, <2>3 DEF LeaveQueue
<1>9. ASSUME NEW r \in Requests, DropSigning(r) PROVE TypeOK'
  BY <1>9 DEF DropSigning
<1>10. CASE UNCHANGED vars
  BY <1>10 DEF vars
<1> QED
  BY <1>1, <1>2, <1>3, <1>4, <1>5, <1>6, <1>7, <1>8, <1>9, <1>10 DEF Next

\* Every variable has its type in every reachable state.
THEOREM TypeCorrect == Spec => []TypeOK
  BY TypeInit, TypeNext, PTL DEF Spec

-----------------------------------------------------------------------------

\* While a request signs, nobody else replaces the cached configuration: it is
\* the one that was not fresh when the signing began.
SigningInv ==
  /\ waiting # << >> => SettingsOk
  /\ holder # NoRequest =>
       /\ SettingsOk
       /\ 0 <= iat /\ iat <= now
       /\ cached # NoConfig => cached.iat <= iat /\ cached.exp <= iat + settings.margin

IsServed(a) == a \notin {NoAnswer, Error}

\* The cached configuration is the last one any caller was answered with; the
\* others were close to their expiry when it was signed.
AnswersInv ==
  /\ cached # NoConfig => cached.iat <= now
  /\ \A r \in Requests : IsServed(answer[r]) =>
       /\ cached # NoConfig
       /\ answer[r].at <= answer[r].config.exp
       /\ answer[r].config.iat <= cached.iat
       /\ \/ answer[r].config = cached
          \/ answer[r].config.exp <= cached.iat + settings.margin
  /\ OneConfigurationAtATime

Inv == TypeOK /\ SigningInv /\ AnswersInv

LEMMA SettingsType ==
  ASSUME TypeOK
  PROVE  settings.lifetime \in Int /\ settings.margin \in Int
  BY EndpointAssumption DEF TypeOK

\* An answer from the cache, or no configuration at all, keeps AnswersInv.
LEMMA AnswerKeepsInv ==
  ASSUME Inv, NEW r \in Requests, NEW a,
         answer' = [answer EXCEPT ![r] = a],
         UNCHANGED <<now, settings, cached>>,
         \/ a \in {NoAnswer, Error}
         \/ Fresh /\ SettingsOk /\ a = Answered(cached, now)
  PROVE  AnswersInv'
<1> USE DEF Inv, TypeOK
<1>1. settings.lifetime \in Int /\ settings.margin \in Int
  BY SettingsType
<1>2. answer'[r] = a
  OBVIOUS
<1>3. \A q \in Requests : q # r => answer'[q] = answer[q]
  OBVIOUS
<1>4. CASE a \in {NoAnswer, Error}
  <2>1. ~IsServed(answer'[r])
    BY <1>2, <1>4 DEF IsServed
  <2> QED
    BY <1>3, <2>1 DEF AnswersInv, OneConfigurationAtATime, IsServed
<1>5. CASE Fresh /\ SettingsOk /\ a = Answered(cached, now)
  <2>1. /\ answer'[r].config = cached /\ answer'[r].at = now
        /\ cached \in Config /\ cached # NoConfig /\ now <= cached.exp
    BY <1>1, <1>2, <1>5 DEF Fresh, SettingsOk, Answered, Config
  <2>2. \A q \in Requests : IsServed(answer[q]) => answer[q].config \in Config
    BY DEF IsServed, Served
  <2>3. OneConfigurationAtATime'
    <3> SUFFICES ASSUME NEW p \in Requests, NEW q \in Requests,
                        IsServed(answer'[p]), IsServed(answer'[q]),
                        answer'[p].config.iat < answer'[q].config.iat
                 PROVE  answer'[p].config.exp <= answer'[q].config.iat + settings.margin
      BY DEF OneConfigurationAtATime, IsServed
    <3>1. CASE p = r
      BY <1>3, <2>1, <2>2, <3>1 DEF AnswersInv, Config
    <3>2. CASE p # r /\ q = r
      BY <1>1, <1>3, <2>1, <2>2, <3>2 DEF AnswersInv, Config
    <3>3. CASE p # r /\ q # r
      BY <1>3, <3>3 DEF AnswersInv, OneConfigurationAtATime, IsServed
    <3> QED
      BY <3>1, <3>2, <3>3
  <2> QED
    BY <1>3, <2>1, <2>3 DEF AnswersInv, Config
<1> QED
  BY <1>4, <1>5

\* A configuration that was just signed supersedes the cached one.
LEMMA FinishKeepsInv ==
  ASSUME Inv, NEW r \in Requests, FinishSigning(r)
  PROVE  AnswersInv'
<1> USE DEF Inv, TypeOK
<1>1. settings.lifetime \in Int /\ settings.margin \in Int
  BY SettingsType
<1>2. /\ cached' \in Config /\ cached' # NoConfig
      /\ cached'.iat = iat /\ cached'.exp = iat + settings.lifetime
      /\ now' = now /\ settings' = settings
      /\ answer'[r].config = cached' /\ answer'[r].at = now /\ now <= cached'.exp
      /\ \A q \in Requests : q # r => answer'[q] = answer[q]
  BY <1>1, EndpointAssumption DEF FinishSigning, SelfVerifies, Config, Answered
<1>3. /\ holder # NoRequest /\ iat <= now
      /\ cached # NoConfig =>
           cached \in Config /\ cached.iat <= iat /\ cached.exp <= iat + settings.margin
  BY EndpointAssumption DEF FinishSigning, SelfVerifies, SigningInv
<1>4. ASSUME NEW q \in Requests, q # r, IsServed(answer[q])
      PROVE  /\ answer[q].config \in Config
             /\ answer[q].config.iat <= iat
             /\ answer[q].config.exp <= iat + settings.margin
  BY <1>1, <1>3, <1>4 DEF AnswersInv, IsServed, Served, Config
<1>5. OneConfigurationAtATime'
  <2> SUFFICES ASSUME NEW p \in Requests, NEW q \in Requests,
                      IsServed(answer'[p]), IsServed(answer'[q]),
                      answer'[p].config.iat < answer'[q].config.iat
               PROVE  answer'[p].config.exp <= answer'[q].config.iat + settings.margin
    BY <1>2 DEF OneConfigurationAtATime, IsServed
  <2>1. CASE p = r
    BY <1>2, <1>4, <2>1 DEF Config
  <2>2. CASE p # r /\ q = r
    BY <1>1, <1>2, <1>4, <2>2 DEF Config
  <2>3. CASE p # r /\ q # r
    BY <1>2, <2>3 DEF AnswersInv, OneConfigurationAtATime, IsServed
  <2> QED
    BY <2>1, <2>2, <2>3
<1>6. ASSUME NEW q \in Requests, IsServed(answer'[q])
      PROVE  /\ answer'[q].at <= answer'[q].config.exp
             /\ answer'[q].config.iat <= cached'.iat
             /\ \/ answer'[q].config = cached'
                \/ answer'[q].config.exp <= cached'.iat + settings.margin
  BY <1>2, <1>3, <1>4, <1>6 DEF AnswersInv, Config
<1> QED
  BY <1>2, <1>3, <1>5, <1>6 DEF AnswersInv

\* Whoever holds the lock found the cache not fresh, and still does.
LEMMA SigningKept == Inv /\ [Next]_vars => SigningInv'
<1> SUFFICES ASSUME Inv, [Next]_vars PROVE SigningInv'
  OBVIOUS
<1> USE DEF Inv, SigningInv
<1>0. settings.lifetime \in Int /\ settings.margin \in Int
  BY SettingsType
<1>1. CASE Tick
  BY <1>1 DEF Tick, TypeOK, SettingsOk
<1>2. ASSUME NEW r \in Requests, Arrive(r) PROVE SigningInv'
  BY <1>2 DEF Arrive, SettingsOk
<1>3. ASSUME NEW r \in Requests, Refuse(r) PROVE SigningInv'
  BY <1>3 DEF Refuse, SettingsOk
<1>4. ASSUME NEW r \in Requests, ServeCached(r) PROVE SigningInv'
  BY <1>4 DEF ServeCached, IsNext, SettingsOk
<1>5. ASSUME NEW r \in Requests, StartSigning(r) PROVE SigningInv'
  <2>1. cached # NoConfig => cached.iat <= now /\ cached.exp <= now + settings.margin
    <3>1. cached # NoConfig => cached.iat \in Int /\ cached.exp \in Int
      BY DEF TypeOK, Config
    <3> QED
      BY <1>0, <1>5, <3>1 DEF StartSigning, Fresh, AnswersInv, TypeOK
  <2> QED
    BY <1>5, <2>1 DEF StartSigning, IsNext, SettingsOk, TypeOK
<1>6. ASSUME NEW r \in Requests, FinishSigning(r) PROVE SigningInv'
  BY <1>6 DEF FinishSigning, SelfVerifies, SettingsOk
<1>7. ASSUME NEW r \in Requests, FailSigning(r) PROVE SigningInv'
  BY <1>7 DEF FailSigning, SettingsOk
<1>8. ASSUME NEW r \in Requests, LeaveQueue(r) PROVE SigningInv'
  <2>1. waiting # << >>
    BY <1>8 DEF LeaveQueue
  <2> QED
    BY <1>8, <2>1 DEF LeaveQueue, SettingsOk
<1>9. ASSUME NEW r \in Requests, DropSigning(r) PROVE SigningInv'
  BY <1>9 DEF DropSigning, SettingsOk
<1>10. CASE UNCHANGED vars
  BY <1>10 DEF vars, SettingsOk
<1> QED
  BY <1>1, <1>2, <1>3, <1>4, <1>5, <1>6, <1>7, <1>8, <1>9, <1>10 DEF Next

LEMMA AnswersKept == Inv /\ [Next]_vars => AnswersInv'
<1> SUFFICES ASSUME Inv, [Next]_vars PROVE AnswersInv'
  OBVIOUS
<1>1. CASE Tick
  <2>1. now <= now' /\ UNCHANGED <<settings, cached, answer>>
    BY <1>1 DEF Tick, Inv, TypeOK
  <2>2. cached # NoConfig => cached.iat <= now'
    <3>1. cached # NoConfig => cached.iat \in Int
      BY DEF Inv, TypeOK, Config
    <3> QED
      BY <1>1, <3>1 DEF Tick, Inv, TypeOK, AnswersInv
  <2> QED
    BY <2>1, <2>2 DEF Inv, AnswersInv, OneConfigurationAtATime
<1>2. ASSUME NEW r \in Requests, Arrive(r) PROVE AnswersInv'
  BY <1>2, AnswerKeepsInv DEF Arrive
<1>3. ASSUME NEW r \in Requests, Refuse(r) PROVE AnswersInv'
  BY <1>3, AnswerKeepsInv DEF Refuse
<1>4. ASSUME NEW r \in Requests, ServeCached(r) PROVE AnswersInv'
  <2>1. SettingsOk /\ Fresh
    BY <1>4 DEF ServeCached, IsNext, Inv, SigningInv
  <2> QED
    BY <1>4, <2>1, AnswerKeepsInv DEF ServeCached
<1>5. ASSUME NEW r \in Requests, FinishSigning(r) PROVE AnswersInv'
  BY <1>5, FinishKeepsInv
<1>6. ASSUME NEW r \in Requests, FailSigning(r) PROVE AnswersInv'
  BY <1>6, AnswerKeepsInv DEF FailSigning
<1>7. ASSUME NEW r \in Requests, StartSigning(r) \/ LeaveQueue(r) \/ DropSigning(r)
      PROVE  UNCHANGED <<now, settings, cached, answer>>
  BY <1>7 DEF StartSigning, LeaveQueue, DropSigning
<1>8. CASE UNCHANGED <<now, settings, cached, answer>>
  BY <1>8 DEF Inv, AnswersInv, OneConfigurationAtATime
<1>9. CASE UNCHANGED vars
  BY <1>8, <1>9 DEF vars
<1> QED
  BY <1>1, <1>2, <1>3, <1>4, <1>5, <1>6, <1>7, <1>8, <1>9 DEF Next

LEMMA InvInit == Init => Inv
<1> SUFFICES ASSUME Init PROVE Inv
  OBVIOUS
<1>1. \A r \in Requests : ~IsServed(answer[r])
  BY DEF Init, IsServed
<1> QED
  BY <1>1, TypeInit DEF Init, Inv, SigningInv, AnswersInv,
                        OneConfigurationAtATime, IsServed

LEMMA InvNext == Inv /\ [Next]_vars => Inv'
  BY TypeNext, SigningKept, AnswersKept DEF Inv

LEMMA InvCorrect == Spec => []Inv
  BY InvInit, InvNext, PTL DEF Spec

\* No caller is answered with an expired configuration, however late the
\* signer answers and however long the caller waits.
THEOREM ServesNothingExpired == Spec => []NeverServesExpired
<1>1. Inv => NeverServesExpired
  BY DEF Inv, AnswersInv, NeverServesExpired, IsServed
<1> QED
  BY <1>1, InvCorrect, PTL

\* Two callers hold different configurations only when the older one was close
\* to its expiry: a burst of requests signs once.
THEOREM OneAtATime == Spec => []OneConfigurationAtATime
<1>1. Inv => OneConfigurationAtATime
  BY DEF Inv, AnswersInv
<1> QED
  BY <1>1, InvCorrect, PTL

-----------------------------------------------------------------------------

LEMMA StepRefines == Inv /\ [Next]_vars => [Service!Next]_Service!vars
<1> SUFFICES ASSUME Inv, [Next]_vars PROVE [Service!Next]_Service!vars
  OBVIOUS
<1> USE DEF Service!vars, Service!Next
<1>1. CASE Tick
  BY <1>1 DEF Tick, Service!Passes
<1>2. ASSUME NEW r \in Requests, Arrive(r) PROVE Service!Asks(r)
  BY <1>2 DEF Arrive, Service!Asks
<1>3. ASSUME NEW r \in Requests, Refuse(r) \/ FailSigning(r) PROVE Service!AnswerError(r)
  BY <1>3 DEF Refuse, FailSigning, Service!AnswerError
<1>4. ASSUME NEW r \in Requests, ServeCached(r) PROVE Service!AnswerLatest(r)
  BY <1>4 DEF ServeCached, IsNext, Inv, SigningInv, SettingsOk, Fresh, Answered,
                Service!AnswerLatest, Service!SettingsOk, Service!Fresh, Service!Answered
<1>5. ASSUME NEW r \in Requests, FinishSigning(r)
      PROVE  \E i \in 0..now : Service!AnswerSigned(r, i)
  <2>1. /\ SettingsOk /\ iat \in 0..now
        /\ cached # NoConfig => cached.exp <= iat + settings.margin
    BY <1>5, EndpointAssumption DEF FinishSigning, SelfVerifies, Inv, SigningInv, TypeOK
  <2>2. cached # NoConfig => iat + settings.margin >= cached.exp
    BY <2>1, SettingsType DEF Inv, TypeOK, Config
  <2>3. Service!AnswerSigned(r, iat)
    BY <1>5, <2>1, <2>2 DEF FinishSigning, SelfVerifies, SettingsOk, Answered,
                          Service!AnswerSigned, Service!SettingsOk, Service!Answered
  <2> QED
    BY <2>1, <2>3
<1>6. ASSUME NEW r \in Requests, StartSigning(r) \/ LeaveQueue(r) \/ DropSigning(r)
      PROVE  UNCHANGED Service!vars
  BY <1>6 DEF StartSigning, LeaveQueue, DropSigning
<1>7. CASE UNCHANGED vars
  BY <1>7 DEF vars
<1> QED
  BY <1>1, <1>2, <1>3, <1>4, <1>5, <1>6, <1>7 DEF Next

\* The endpoint implements ConfigurationService for any number of callers.
THEOREM Implements == Spec => ImplementsService
<1>1. Init => Service!Init
  BY DEF Init, Service!Init
<1> QED
  BY <1>1, StepRefines, InvCorrect, PTL DEF Spec, ImplementsService, Service!Spec
=============================================================================
