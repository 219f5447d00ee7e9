-------------------------- MODULE RegistriesProofs --------------------------
(***************************************************************************)
(* What the endpoints answer was true during the request, for any Trust    *)
(* Marks and however often the registries change while one is answered.    *)
(***************************************************************************)
EXTENDS FederationEndpoints, TLAPS

\* What every moment of the request has in common with the present: records
\* are never removed, and a revocation is undone by an insertion only.  The
\* handler's clock is that of one of the moments.
HistoryInv ==
  phase # "failed" =>
    /\ \A m \in seen :
         /\ m.recorded \subseteq recorded
         /\ recorded \ inserted \subseteq m.recorded
         /\ m.revoked \ inserted \subseteq revoked
    /\ \E m \in seen : m.now = at

\* Which handler the later phases of a status request belong to, and why it
\* looked for siblings.
PhaseInv ==
  /\ phase \in {"signing", "siblings"} => request.endpoint = "status"
  /\ phase = "siblings" =>
       request.jwt.iss = Issuer /\ (request.jwt \in recorded => request.jwt \in inserted)

StatusWasTrueOf(j) == j \notin inserted => \E m \in seen : IsStatus(answer, j, m)

\* What is to be signed is the status of the Trust Mark already.
StatusInv == phase = "signing" => StatusWasTrueOf(request.jwt)

\* The marks of `type` and `sub` that are active at every moment have their
\* subjects in `es`, and each of `es` held one at some moment.
Covered(es, type, sub) ==
  \A e \in Entities :
    /\ e \in es =>
         /\ sub \in {e, None}
         /\ InsertedFor(e) \/ \E m \in seen : Holds(e, type, m)
    /\ sub \in {e, None}
         /\ (\E j \in Jwts : /\ j.sub = e /\ (type # None => j.type = type)
                             /\ \A m \in seen : IsActive(j, m)) =>
         e \in es

\* So it is for the Trust Marked entities that a listing has read.
MarkedInv ==
  Handles("list", "subordinates") /\ request.trust_marked =>
    Covered(marked, request.type, None)

AnswerInv ==
  /\ StatusOfRecordWasTrue
  /\ TrustMarkIsLatest
  /\ TrustMarkedAreMarked
  /\ ListingIsSoundAndComplete

RegistriesInv == TypeOK /\ HistoryInv /\ PhaseInv /\ StatusInv /\ MarkedInv /\ AnswerInv

\* The application or the clock.
Environment ==
  \/ \E j \in OwnJwts : InsertTrustMark(j) \/ RevokeTrustMark(j)
  \/ \E e \in Entities : RemoveSubordinate(e) \/ \E i \in BOOLEAN : InsertSubordinate(e, i)
  \/ Tick

-----------------------------------------------------------------------------
(* The present moment and the one at which the handler read the clock.     *)

LEMMA PresentMoment ==
  /\ Moment.now = now /\ Moment.recorded = recorded /\ Moment.revoked = revoked
  /\ Moment.registered = registered /\ Moment.intermediate = intermediate
BY DEF Moment

LEMMA StatusAtIsOne ==
  ASSUME NEW j, NEW t
  PROVE  /\ StatusAt(j, t) \in Statuses
         /\ StatusAt(j, t) = "revoked" <=> j \in revoked
         /\ StatusAt(j, t) = "expired" <=> j \notin revoked /\ HasExpired(j, t)
         /\ StatusAt(j, t) = "invalid" <=>
              j \notin revoked /\ ~HasExpired(j, t) /\ IsEarly(j, t)
         /\ StatusAt(j, t) = "active" <=>
              j \notin revoked /\ ~HasExpired(j, t) /\ ~IsEarly(j, t)
BY DEF StatusAt, Statuses

\* What had expired for the handler has expired since.
LEMMA StaysExpired ==
  ASSUME TypeOK, NEW j \in Jwts, HasExpired(j, at)
  PROVE  HasExpired(j, now)
<1>1. now \in Int /\ at \in Int /\ at <= now
  <2>1. now \in 0..MaxTime /\ at \in 0..now
    BY DEF TypeOK
  <2> QED
    BY <2>1, RegistriesAssumption
<1>2. j.exp \in Int /\ j.exp <= at /\ j.exp # None
  BY RegistriesAssumption DEF HasExpired
<1> QED
  BY <1>1, <1>2 DEF HasExpired

\* A record that was not inserted meanwhile was there when the clock was read,
\* and was not revoked then if it is not now.
LEMMA ThenAsNow ==
  ASSUME TypeOK, HistoryInv, phase # "failed"
  PROVE  \E m \in seen :
           /\ m.now = at
           /\ \A j \in recorded \ inserted :
                j \in m.recorded /\ (j \notin revoked => j \notin m.revoked)
BY DEF HistoryInv

\* The Trust Marks that a handler takes for active.
LEMMA ActiveAreCovered ==
  ASSUME TypeOK, HistoryInv, phase # "failed", NEW type, NEW sub
  PROVE  /\ \A j \in ActiveMarks(type, sub) :
              /\ j \in OwnJwts /\ j \in recorded
              /\ type # None => j.type = type
              /\ sub # None => j.sub = sub
              /\ j \in inserted \/ \E m \in seen : IsActive(j, m)
         /\ \A j \in Jwts :
              /\ type # None => j.type = type
              /\ sub # None => j.sub = sub
              /\ \A m \in seen : IsActive(j, m)
              => j \in ActiveMarks(type, sub)
<1>1. ASSUME NEW j \in ActiveMarks(type, sub)
      PROVE  /\ j \in OwnJwts /\ j \in recorded
             /\ type # None => j.type = type
             /\ sub # None => j.sub = sub
             /\ j \in inserted \/ \E m \in seen : IsActive(j, m)
  <2>1. j \in recorded /\ StatusAt(j, at) = "active"
    BY DEF ActiveMarks
  <2>2. j \notin revoked /\ ~HasExpired(j, at) /\ ~IsEarly(j, at)
    BY <2>1, StatusAtIsOne
  <2>3. ASSUME j \notin inserted PROVE \E m \in seen : IsActive(j, m)
    BY <2>1, <2>2, <2>3, ThenAsNow DEF IsActive
  <2> QED
    BY <2>1, <2>3 DEF ActiveMarks, TypeOK
<1>2. ASSUME NEW j \in Jwts, \A m \in seen : IsActive(j, m)
      PROVE  j \in recorded /\ StatusAt(j, at) = "active"
  <2>1. IsActive(j, Moment)
    BY <1>2 DEF TypeOK
  <2>2. j \in recorded /\ j \notin revoked /\ ~HasExpired(j, at)
    BY <2>1, PresentMoment, StaysExpired DEF IsActive
  <2>3. ~IsEarly(j, at)
    BY <1>2, ThenAsNow DEF IsActive
  <2> QED
    BY <2>2, <2>3, StatusAtIsOne
<1> QED
  BY <1>1, <1>2 DEF ActiveMarks

LEMMA SubjectsAreCovered ==
  ASSUME TypeOK, HistoryInv, phase # "failed", NEW type, NEW sub
  PROVE  /\ Subjects(ActiveMarks(type, sub)) \subseteq Entities
         /\ sub \in Entities \cup {None} =>
              Covered(Subjects(ActiveMarks(type, sub)), type, sub)
<1> DEFINE held == ActiveMarks(type, sub)
<1>1. \A j \in held :
        /\ j \in Jwts /\ j.sub \in Entities
        /\ type # None => j.type = type
        /\ sub # None => j.sub = sub
        /\ j \in inserted \/ \E m \in seen : IsActive(j, m)
  BY ActiveAreCovered, RegistriesAssumption DEF OwnJwts
<1>2. \A j \in Jwts :
        /\ type # None => j.type = type
        /\ sub # None => j.sub = sub
        /\ \A m \in seen : IsActive(j, m)
        => j \in held
  BY ActiveAreCovered
<1> HIDE DEF held
<1>3. Subjects(held) \subseteq Entities
  BY <1>1 DEF Subjects
<1>4. ASSUME NEW e \in Entities, e \in Subjects(held), sub \in Entities \cup {None}
      PROVE  /\ sub \in {e, None}
             /\ InsertedFor(e) \/ \E m \in seen : Holds(e, type, m)
  <2>1. PICK j \in held : j.sub = e
    BY <1>4 DEF Subjects
  <2> QED
    BY <1>1, <2>1 DEF InsertedFor, Holds
<1>5. ASSUME NEW e \in Entities, sub \in {e, None}, NEW j \in Jwts, j.sub = e,
             type # None => j.type = type, \A m \in seen : IsActive(j, m)
      PROVE  e \in Subjects(held)
  BY <1>2, <1>5 DEF Subjects
<1> QED
  BY <1>3, <1>4, <1>5 DEF Covered, held

-----------------------------------------------------------------------------
(* Every step keeps the invariant.                                         *)

LEMMA InitInv == Init => RegistriesInv
<1> SUFFICES ASSUME Init PROVE RegistriesInv
  OBVIOUS
<1>1. phase \in {"trust marks", "subordinates", "refused"}
  BY DEF Init, FirstPhase
<1>2. TypeOK
  <2>1. now \in 0..MaxTime /\ at \in 0..now
    BY RegistriesAssumption DEF Init
  <2> QED
    BY <1>1, <2>1 DEF Init, TypeOK
<1>3. HistoryInv
  BY PresentMoment DEF Init, HistoryInv
<1>4. MarkedInv
  BY DEF Init, MarkedInv, Handles, FirstPhase
<1> QED
  BY <1>1, <1>2, <1>3, <1>4
  DEF RegistriesInv, PhaseInv, StatusInv, AnswerInv, StatusOfRecordWasTrue, TrustMarkIsLatest,
      TrustMarkedAreMarked, ListingIsSoundAndComplete, Handles

\* The application and the clock add a moment and leave the handler alone.
LEMMA EnvironmentStep ==
  ASSUME TypeOK, Environment
  PROVE  /\ InFlight
         /\ request' = request /\ phase' = phase /\ at' = at /\ marked' = marked
         /\ answer' = answer
         /\ seen' = seen \cup {Moment'}
         /\ recorded \subseteq recorded' /\ inserted \subseteq inserted'
         /\ recorded' \ inserted' \subseteq recorded
         /\ revoked \ inserted' \subseteq revoked'
<1> DEFINE Goal ==
      /\ InFlight
      /\ request' = request /\ phase' = phase /\ at' = at /\ marked' = marked
      /\ answer' = answer
      /\ seen' = seen \cup {Moment'}
      /\ recorded \subseteq recorded' /\ inserted \subseteq inserted'
      /\ recorded' \ inserted' \subseteq recorded
      /\ revoked \ inserted' \subseteq revoked'
<1>1. ASSUME NEW j \in OwnJwts, InsertTrustMark(j) PROVE Goal
  BY <1>1 DEF InsertTrustMark, Change, Remember, handler
<1>2. ASSUME NEW j \in OwnJwts, RevokeTrustMark(j) PROVE Goal
  BY <1>2 DEF RevokeTrustMark, Change, Remember, handler
<1>3. ASSUME NEW e \in Entities, NEW i \in BOOLEAN, InsertSubordinate(e, i) PROVE Goal
  BY <1>3 DEF InsertSubordinate, Change, Remember, handler
<1>4. ASSUME NEW e \in Entities, RemoveSubordinate(e) PROVE Goal
  BY <1>4 DEF RemoveSubordinate, Change, Remember, handler
<1>5. CASE Tick
  BY <1>5 DEF Tick, Remember, handler, registries
<1> QED
  BY <1>1, <1>2, <1>3, <1>4, <1>5 DEF Environment

LEMMA EnvironmentType ==
  ASSUME TypeOK, Environment
  PROVE  TypeOK'
<1>1. ASSUME NEW j \in OwnJwts, InsertTrustMark(j) PROVE TypeOK'
  BY <1>1 DEF TypeOK, InsertTrustMark, Change, Remember, handler, Answers
<1>2. ASSUME NEW j \in OwnJwts, RevokeTrustMark(j) PROVE TypeOK'
  BY <1>2 DEF TypeOK, RevokeTrustMark, Change, Remember, handler, Answers
<1>3. ASSUME NEW e \in Entities, NEW i \in BOOLEAN, InsertSubordinate(e, i) PROVE TypeOK'
  BY <1>3 DEF TypeOK, InsertSubordinate, Change, Remember, handler, Answers
<1>4. ASSUME NEW e \in Entities, RemoveSubordinate(e) PROVE TypeOK'
  BY <1>4 DEF TypeOK, RemoveSubordinate, Change, Remember, handler, Answers
<1>5. CASE Tick
  <2>1. now \in 0..MaxTime /\ at \in 0..now
    BY DEF TypeOK
  <2>2. now < MaxTime /\ now' = now + 1 /\ at' = at
    BY <1>5 DEF Tick, handler
  <2>3. now' \in 0..MaxTime /\ at' \in 0..now'
    BY <2>1, <2>2, RegistriesAssumption
  <2> QED
    BY <1>5, <2>3 DEF TypeOK, Tick, Remember, handler, registries, Answers
<1> QED
  BY <1>1, <1>2, <1>3, <1>4, <1>5 DEF Environment

\* What was covered stays so while moments are added.
LEMMA StaysCovered ==
  ASSUME TypeOK, Environment, NEW es, NEW type, NEW sub, Covered(es, type, sub)
  PROVE  /\ \A e \in Entities :
              e \in es => /\ sub \in {e, None}
                          /\ InsertedFor(e)' \/ \E m \in seen' : Holds(e, type, m)
         /\ \A e \in Entities :
              /\ sub \in {e, None}
              /\ \E j \in Jwts : /\ j.sub = e /\ (type # None => j.type = type)
                                 /\ \A m \in seen' : IsActive(j, m)
              => e \in es
<1>1. seen \subseteq seen' /\ inserted \subseteq inserted'
  BY EnvironmentStep
<1> QED
  BY <1>1 DEF Covered, InsertedFor

LEMMA EnvironmentInv ==
  ASSUME RegistriesInv, Environment
  PROVE  RegistriesInv'
<1> USE DEF RegistriesInv
<1>1. TypeOK'
  BY EnvironmentType
<1>2. HistoryInv'
  <2> SUFFICES ASSUME phase # "failed" PROVE HistoryInv'
    BY EnvironmentStep DEF HistoryInv
  <2>1. ASSUME NEW m \in seen
        PROVE  /\ m.recorded \subseteq recorded'
               /\ recorded' \ inserted' \subseteq m.recorded
               /\ m.revoked \ inserted' \subseteq revoked'
    BY EnvironmentStep DEF HistoryInv
  <2>2. Moment'.recorded = recorded' /\ Moment'.revoked = revoked'
    BY DEF Moment
  <2> QED
    BY <2>1, <2>2, EnvironmentStep DEF HistoryInv
<1>3. PhaseInv'
  BY EnvironmentStep DEF PhaseInv
<1>4. StatusInv'
  BY EnvironmentStep DEF StatusInv, StatusWasTrueOf
<1>5. MarkedInv'
  <2> SUFFICES ASSUME Handles("list", "subordinates"), request.trust_marked
               PROVE  Covered(marked, request.type, None)'
    BY EnvironmentStep DEF MarkedInv, Handles
  <2>1. Covered(marked, request.type, None)
    BY DEF MarkedInv
  <2>2. marked' = marked /\ request' = request
    BY EnvironmentStep
  <2>3. /\ \A e \in Entities :
             e \in marked => /\ None \in {e, None}
                             /\ \/ InsertedFor(e)'
                                \/ \E m \in seen' : Holds(e, request.type, m)
        /\ \A e \in Entities :
             /\ None \in {e, None}
             /\ \E j \in Jwts : /\ j.sub = e /\ (request.type # None => j.type = request.type)
                                /\ \A m \in seen' : IsActive(j, m)
             => e \in marked
    BY <2>1, StaysCovered
  <2> QED
    BY <2>2, <2>3 DEF Covered
<1>6. AnswerInv'
  BY EnvironmentStep
  DEF InFlight, AnswerInv, StatusOfRecordWasTrue, TrustMarkIsLatest, TrustMarkedAreMarked,
      ListingIsSoundAndComplete, Handles
<1> QED
  BY <1>1, <1>2, <1>3, <1>4, <1>5, <1>6

-----------------------------------------------------------------------------
(* The steps of the handler.                                               *)

Reading == <<now, registries, request, at, history>>

\* A step of the handler that reads the registries and says the right things.
LEMMA ReadingStep ==
  ASSUME RegistriesInv, UNCHANGED Reading,
         phase \in {"trust marks", "siblings", "subordinates", "signing"},
         phase' \in {"siblings", "subordinates", "signing", "answered"},
         phase' = "signing" => answer' \in Statuses,
         phase' = "answered" => answer' \in Answers
  PROVE  TypeOK' /\ HistoryInv'
<1> USE DEF RegistriesInv, Reading, registries, history
<1>1. Moment' = Moment /\ Answers' = Answers
  BY DEF Moment, Answers
<1>2. TypeOK'
  BY <1>1 DEF TypeOK
<1>3. HistoryInv'
  BY DEF HistoryInv
<1> QED
  BY <1>2, <1>3

\* The status endpoint: what it is about to sign, or answers, was true.
LEMMA StatusStep ==
  ASSUME RegistriesInv, UNCHANGED Reading, request.endpoint = "status",
         phase \in {"trust marks", "siblings", "signing"},
         phase' \in {"siblings", "signing", "answered"},
         phase' = "siblings" => request.jwt.iss = Issuer /\ request.jwt \notin recorded,
         phase' = "signing" => answer' \in Statuses,
         phase' = "answered" => answer' \in Statuses \cup {"not_found"},
         phase' # "siblings" /\ request.jwt \notin inserted =>
           \E m \in seen : IsStatus(answer', request.jwt, m)
  PROVE  RegistriesInv'
<1>1. TypeOK' /\ HistoryInv'
  BY ReadingStep DEF Answers
<1>2. PhaseInv' /\ StatusInv'
  BY DEF Reading, registries, history, PhaseInv, StatusInv, StatusWasTrueOf
<1>3. MarkedInv' /\ AnswerInv'
  BY DEF Reading, registries, history, MarkedInv, AnswerInv, StatusOfRecordWasTrue,
         TrustMarkIsLatest, TrustMarkedAreMarked, ListingIsSoundAndComplete, Handles
<1> QED
  BY <1>1, <1>2, <1>3 DEF RegistriesInv

LEMMA LookUpTrustMarkInv ==
  ASSUME RegistriesInv, LookUpTrustMark
  PROVE  RegistriesInv'
<1> DEFINE jwt == request.jwt
<1> USE DEF RegistriesInv
<1>1. /\ phase = "trust marks" /\ request.endpoint = "status" /\ jwt \in Jwts
      /\ UNCHANGED Reading
  BY DEF LookUpTrustMark, Handles, Reading, TypeOK, Queries
<1>2. CASE jwt \in recorded
  <2>1. answer' = StatusAt(jwt, at) /\ phase' = "signing" /\ answer' \in Statuses
    BY <1>2, StatusAtIsOne DEF LookUpTrustMark
  <2>2. ASSUME jwt \notin inserted PROVE \E m \in seen : IsStatus(answer', jwt, m)
    <3>1. PICK m \in seen :
            /\ m.now = at
            /\ jwt \in m.recorded /\ (jwt \notin revoked => jwt \notin m.revoked)
      BY <1>1, <1>2, <2>2, ThenAsNow
    <3>2. CASE answer' \in {"active", "invalid"}
      BY <2>1, <3>1, <3>2, StatusAtIsOne DEF IsStatus, IsActive
    <3>3. CASE answer' = "revoked"
      BY <1>2, <2>1, <3>3, StatusAtIsOne, PresentMoment DEF IsStatus, TypeOK
    <3>4. CASE answer' = "expired"
      <4>1. jwt \notin revoked /\ HasExpired(jwt, now)
        BY <1>1, <2>1, <3>4, StatusAtIsOne, StaysExpired
      <4> QED
        BY <1>2, <3>4, <4>1, PresentMoment DEF IsStatus, TypeOK
    <3> QED
      BY <2>1, <3>2, <3>3, <3>4 DEF Statuses
  <2> QED
    BY <1>1, <2>1, <2>2, StatusStep
<1>3. CASE jwt \notin recorded /\ jwt.iss = Issuer
  BY <1>1, <1>3, StatusStep DEF LookUpTrustMark
<1>4. CASE jwt \notin recorded /\ jwt.iss # Issuer
  <2>1. answer' = "not_found" /\ phase' = "answered"
    BY <1>4 DEF LookUpTrustMark
  <2>2. IsStatus(answer', jwt, Moment)
    BY <1>4, <2>1, PresentMoment DEF IsStatus
  <2> QED
    BY <1>1, <2>1, <2>2, StatusStep DEF TypeOK
<1> QED
  BY <1>2, <1>3, <1>4

LEMMA LookUpSiblingsInv ==
  ASSUME RegistriesInv, LookUpSiblings
  PROVE  RegistriesInv'
<1> DEFINE jwt == request.jwt
<1> USE DEF RegistriesInv
<1>1. /\ phase = "siblings" /\ request.endpoint = "status" /\ UNCHANGED Reading
      /\ jwt.iss = Issuer /\ (jwt \notin inserted => jwt \notin recorded)
  BY DEF LookUpSiblings, Handles, Reading, PhaseInv
<1>2. CASE Siblings(jwt) # {}
  <2>1. answer' = "invalid" /\ phase' = "signing"
    BY <1>2 DEF LookUpSiblings
  <2>2. ASSUME jwt \notin inserted PROVE IsStatus(answer', jwt, Moment)
    BY <1>1, <1>2, <2>1, <2>2, PresentMoment DEF IsStatus, Siblings
  <2> QED
    BY <1>1, <2>1, <2>2, StatusStep DEF TypeOK, Statuses
<1>3. CASE Siblings(jwt) = {}
  <2>1. answer' = "not_found" /\ phase' = "answered"
    BY <1>3 DEF LookUpSiblings
  <2>2. ASSUME jwt \notin inserted PROVE IsStatus(answer', jwt, Moment)
    BY <1>1, <1>3, <2>1, <2>2, PresentMoment DEF IsStatus, Siblings
  <2> QED
    BY <1>1, <2>1, <2>2, StatusStep DEF TypeOK
<1> QED
  BY <1>2, <1>3

LEMMA SignStatusInv ==
  ASSUME RegistriesInv, SignStatus
  PROVE  RegistriesInv'
<1>1. phase = "signing" /\ phase' = "answered" /\ UNCHANGED <<Reading, answer>>
  BY DEF SignStatus, Reading
<1> QED
  BY <1>1, StatusStep DEF RegistriesInv, TypeOK, PhaseInv, StatusInv, StatusWasTrueOf

\* The other endpoints: an answer that is right, or a listing half done.
LEMMA OtherStep ==
  ASSUME RegistriesInv, UNCHANGED Reading, request.endpoint # "status",
         phase \in {"trust marks", "subordinates"},
         phase' \in {"subordinates", "answered"},
         phase' = "answered" => answer' \in Answers,
         MarkedInv',
         TrustMarkIsLatest', TrustMarkedAreMarked', ListingIsSoundAndComplete'
  PROVE  RegistriesInv'
<1>1. TypeOK' /\ HistoryInv'
  BY ReadingStep
<1> QED
  BY <1>1 DEF Reading, RegistriesInv, PhaseInv, StatusInv, AnswerInv, StatusOfRecordWasTrue,
              Handles

LEMMA ServeTrustMarkInv ==
  ASSUME RegistriesInv, ServeTrustMark
  PROVE  RegistriesInv'
<1> DEFINE held == ActiveMarks(request.type, request.sub)
<1> USE DEF RegistriesInv
<1>1. /\ phase = "trust marks" /\ request.endpoint = "trust_mark" /\ phase' = "answered"
      /\ UNCHANGED Reading
      /\ held = {} => answer' = None
      /\ held # {} => answer' \in Latest(held)
  BY DEF ServeTrustMark, Handles, Reading
<1>2. request.type # None /\ request.sub # None
  BY <1>1, RequestsAssumption DEF TypeOK, Queries
<1>3. \A j \in held :
        /\ j \in OwnJwts /\ j.type = request.type /\ j.sub = request.sub
        /\ j \in inserted \/ \E m \in seen : IsActive(j, m)
  BY <1>1, <1>2, ActiveAreCovered
<1>4. \A j \in Jwts :
        j.type = request.type /\ j.sub = request.sub /\ (\A m \in seen : IsActive(j, m)) =>
          j \in held
  BY <1>1, <1>2, ActiveAreCovered
<1> HIDE DEF held
<1>5. answer' # None => answer' \in held
  BY <1>1 DEF Latest
<1>6. answer' \in Answers
  BY <1>1, <1>3, <1>5 DEF Answers
<1>7. TrustMarkIsLatest'
  <2>1. ASSUME NEW j \in held PROVE answer' # None /\ answer'.iat >= j.iat
    <3>1. answer' \in Latest(held)
      BY <1>1
    <3>2. answer' \in Jwts /\ j \in Jwts /\ j.iat <= answer'.iat
      BY <1>3, <3>1 DEF Latest, OwnJwts
    <3>3. answer'.iat \in Int /\ j.iat \in Int
      BY <3>2, RegistriesAssumption
    <3>4. answer' # None
      BY <3>2, RequestsAssumption
    <3> QED
      BY <3>2, <3>3, <3>4
  <2>2. seen' = seen /\ inserted' = inserted /\ request' = request
    BY <1>1 DEF Reading, history
  <2> QED
    BY <1>3, <1>4, <1>5, <2>1, <2>2 DEF TrustMarkIsLatest
<1> QED
  BY <1>1, <1>6, <1>7, OtherStep
  DEF Reading, MarkedInv, TrustMarkedAreMarked, ListingIsSoundAndComplete, Handles

LEMMA ServeTrustMarkedEntitiesInv ==
  ASSUME RegistriesInv, ServeTrustMarkedEntities
  PROVE  RegistriesInv'
<1> DEFINE subjects == Subjects(ActiveMarks(request.type, request.sub))
<1> USE DEF RegistriesInv
<1>1. /\ phase = "trust marks" /\ request.endpoint = "trust_marked_entities"
      /\ phase' = "answered" /\ answer' = subjects
      /\ UNCHANGED Reading
  BY DEF ServeTrustMarkedEntities, Handles, Reading
<1>2. request.type # None /\ request.sub \in Entities \cup {None}
  BY <1>1, RequestsAssumption DEF TypeOK, Queries
<1>3. subjects \subseteq Entities /\ Covered(subjects, request.type, request.sub)
  BY <1>1, <1>2, SubjectsAreCovered
<1> HIDE DEF subjects
<1>4. TrustMarkedAreMarked'
  <2>1. seen' = seen /\ inserted' = inserted /\ request' = request
    BY <1>1 DEF Reading, history
  <2> QED
    BY <1>1, <1>2, <1>3, <2>1 DEF TrustMarkedAreMarked, Covered, InsertedFor
<1> QED
  BY <1>1, <1>3, <1>4, OtherStep
  DEF Reading, Answers, MarkedInv, TrustMarkIsLatest, ListingIsSoundAndComplete, Handles

LEMMA ReadTrustMarkedInv ==
  ASSUME RegistriesInv, ReadTrustMarked
  PROVE  RegistriesInv'
<1> DEFINE subjects == Subjects(ActiveMarks(request.type, None))
<1> USE DEF RegistriesInv
<1>1. /\ phase = "trust marks" /\ request.endpoint = "list" /\ phase' = "subordinates"
      /\ marked' = subjects /\ UNCHANGED Reading
  BY DEF ReadTrustMarked, Handles, Reading
<1>2. Covered(subjects, request.type, None)
  BY <1>1, SubjectsAreCovered
<1> HIDE DEF subjects
<1>3. MarkedInv'
  <2>1. seen' = seen /\ inserted' = inserted /\ request' = request
    BY <1>1 DEF Reading, history
  <2> QED
    BY <1>1, <1>2, <2>1 DEF MarkedInv, Covered, InsertedFor
<1> QED
  BY <1>1, <1>3, OtherStep
  DEF Reading, TrustMarkIsLatest, TrustMarkedAreMarked, ListingIsSoundAndComplete, Handles

LEMMA ServeSubordinatesInv ==
  ASSUME RegistriesInv, ServeSubordinates
  PROVE  RegistriesInv'
<1> USE DEF RegistriesInv
<1>1. /\ phase = "subordinates" /\ request.endpoint = "list" /\ phase' = "answered"
      /\ answer' = Listed /\ UNCHANGED Reading
  BY DEF ServeSubordinates, Handles, Reading
<1>2. Listed \subseteq Entities
  BY DEF Listed, TypeOK
<1>3. \A e \in Entities :
        e \in Listed <=>
          Passes(e, Moment) /\ (request.trust_marked => e \in marked)
  BY PresentMoment DEF Listed, Passes
<1>4. request.trust_marked => Covered(marked, request.type, None)
  BY <1>1 DEF MarkedInv, Handles
<1>5. ListingIsSoundAndComplete'
  <2>1. seen' = seen /\ inserted' = inserted /\ request' = request /\ Moment \in seen
    BY <1>1 DEF Reading, history, TypeOK
  <2>2. ASSUME NEW e \in Entities, e \in Listed
        PROVE  /\ \E m \in seen : Passes(e, m)
               /\ request.trust_marked =>
                    InsertedFor(e) \/ \E m \in seen : Holds(e, request.type, m)
    BY <1>3, <1>4, <2>1, <2>2 DEF Covered
  <2>3. ASSUME NEW e \in Entities, \A m \in seen : Passes(e, m),
               request.trust_marked =>
                 \E j \in Jwts :
                   /\ j.sub = e /\ (request.type # None => j.type = request.type)
                   /\ \A m \in seen : IsActive(j, m)
        PROVE  e \in Listed
    BY <1>3, <1>4, <2>1, <2>3 DEF Covered
  <2> QED
    BY <1>1, <2>1, <2>2, <2>3
    DEF ListingIsSoundAndComplete, InsertedFor, Passes
<1> QED
  BY <1>1, <1>2, <1>5, OtherStep
  DEF Reading, Answers, MarkedInv, TrustMarkIsLatest, TrustMarkedAreMarked, Handles

LEMMA FailInv ==
  ASSUME RegistriesInv, Fail
  PROVE  RegistriesInv'
<1> USE DEF RegistriesInv, Fail
<1>1. TypeOK'
  BY DEF TypeOK, Moment, registries
<1> QED
  BY <1>1
  DEF HistoryInv, PhaseInv, StatusInv, MarkedInv, AnswerInv, StatusOfRecordWasTrue,
      TrustMarkIsLatest, TrustMarkedAreMarked, ListingIsSoundAndComplete, Handles

LEMMA NextInv ==
  ASSUME RegistriesInv, [Next]_vars
  PROVE  RegistriesInv'
<1>1. CASE LookUpTrustMark
  BY <1>1, LookUpTrustMarkInv
<1>2. CASE LookUpSiblings
  BY <1>2, LookUpSiblingsInv
<1>3. CASE SignStatus
  BY <1>3, SignStatusInv
<1>4. CASE ServeTrustMark
  BY <1>4, ServeTrustMarkInv
<1>5. CASE ServeTrustMarkedEntities
  BY <1>5, ServeTrustMarkedEntitiesInv
<1>6. CASE ReadTrustMarked
  BY <1>6, ReadTrustMarkedInv
<1>7. CASE ServeSubordinates
  BY <1>7, ServeSubordinatesInv
<1>8. CASE Fail
  BY <1>8, FailInv
<1>9. CASE Environment
  BY <1>9, EnvironmentInv
<1>10. CASE UNCHANGED vars
  <2> USE <1>10 DEF vars, registries, handler, history, RegistriesInv
  <2>1. TypeOK' /\ HistoryInv' /\ PhaseInv'
    BY DEF TypeOK, Moment, Answers, HistoryInv, PhaseInv
  <2>2. StatusInv' /\ MarkedInv'
    BY DEF StatusInv, StatusWasTrueOf, MarkedInv, Handles, Covered, InsertedFor
  <2>3. StatusOfRecordWasTrue' /\ TrustMarkIsLatest'
    BY DEF AnswerInv, StatusOfRecordWasTrue, TrustMarkIsLatest, Handles
  <2>4. TrustMarkedAreMarked' /\ ListingIsSoundAndComplete'
    BY DEF AnswerInv, TrustMarkedAreMarked, ListingIsSoundAndComplete, Handles, InsertedFor,
           Passes
  <2> QED
    BY <2>1, <2>2, <2>3, <2>4 DEF AnswerInv
<1> QED
  BY <1>1, <1>2, <1>3, <1>4, <1>5, <1>6, <1>7, <1>8, <1>9, <1>10 DEF Next, Handle, Environment

-----------------------------------------------------------------------------
(* The theorems.                                                           *)

LEMMA RegistriesInvHolds == Spec => []RegistriesInv
BY InitInv, NextInv, PTL DEF Spec

\* Every variable always has its type, and what is signed or sent is an answer
\* of the endpoint that was asked.
THEOREM TypeCorrect == Spec => []TypeOK
BY RegistriesInvHolds, PTL DEF RegistriesInv

\* The status answered of a Trust Mark that is not recorded during the request
\* (TrustMarkStatusEndpoint::status) is one it had while the request was handled.
THEOREM StatusOfRecord == Spec => []StatusOfRecordWasTrue
BY RegistriesInvHolds, PTL DEF RegistriesInv, AnswerInv

\* The Trust Mark endpoint serves the latest Trust Mark of the subject, and
\* one whenever there was one all the time.
THEOREM TrustMarkServed == Spec => []TrustMarkIsLatest
BY RegistriesInvHolds, PTL DEF RegistriesInv, AnswerInv

\* The Trust Marked Entities endpoint answers those that held a Trust Mark.
THEOREM TrustMarkedEntities == Spec => []TrustMarkedAreMarked
BY RegistriesInvHolds, PTL DEF RegistriesInv, AnswerInv

-----------------------------------------------------------------------------
(* From the arrival of a request to what the client learns.                *)

\* The handler serves what its request says, or refuses it for good, and the
\* Trust Marks it knows a status of are the issuer's own.
QueryInv ==
  /\ received \in Received
  /\ request = Query(received)
  /\ request.endpoint = "refused" <=> phase = "refused"
  /\ /\ request.endpoint = "status" /\ phase \in {"signing", "answered"}
     /\ answer # "not_found"
     => request.jwt.iss = Issuer

LEMMA EndpointsCorrect == EndpointsSpec => [](RegistriesInv /\ QueryInv)
<1>1. ReceiveInit => Init /\ QueryInv
  BY DEF ReceiveInit, QueryInv, Init, FirstPhase
<1>2. /\ RegistriesInv /\ QueryInv
      /\ [Next /\ UNCHANGED received]_<<vars, received>>
      => QueryInv'
  <2> SUFFICES ASSUME RegistriesInv, QueryInv,
                      [Next /\ UNCHANGED received]_<<vars, received>>
               PROVE  QueryInv'
    OBVIOUS
  <2>1. CASE Handle
    <3>1. request' = request /\ phase # "refused" /\ phase' # "refused"
      BY <2>1 DEF Handle, LookUpTrustMark, LookUpSiblings, SignStatus, ServeTrustMark,
         ServeTrustMarkedEntities, ReadTrustMarked, ServeSubordinates, Fail, Handles
    <3>2. ASSUME request.endpoint = "status", phase' \in {"signing", "answered"},
                 answer' # "not_found"
          PROVE  request.jwt.iss = Issuer
      <4>1. CASE LookUpTrustMark
        BY <3>2, <4>1 DEF LookUpTrustMark, RegistriesInv, TypeOK, OwnJwts
      <4>2. CASE LookUpSiblings
        BY <4>2 DEF LookUpSiblings, Handles, RegistriesInv, PhaseInv
      <4>3. CASE SignStatus
        BY <3>2, <4>3 DEF SignStatus, QueryInv
      <4>4. CASE Fail
        BY <3>2, <4>4 DEF Fail
      <4> QED
        BY <2>1, <3>2, <4>1, <4>2, <4>3, <4>4
           DEF Handle, ServeTrustMark, ServeTrustMarkedEntities, ReadTrustMarked,
               ServeSubordinates, Handles
    <3> QED
      BY <2>1, <3>1, <3>2 DEF QueryInv, vars, handler
  <2>2. CASE Next /\ ~Handle
    <3>1. UNCHANGED handler /\ phase # "refused"
      BY <2>2 DEF Next, InsertTrustMark, RevokeTrustMark, InsertSubordinate,
         RemoveSubordinate, Tick, Change, InFlight
    <3> QED
      BY <2>2, <3>1 DEF QueryInv, vars, handler
  <2>3. CASE UNCHANGED <<vars, received>>
    BY <2>3 DEF QueryInv, vars, handler
  <2> QED
    BY <2>1, <2>2, <2>3
<1>3. RegistriesInv /\ [Next /\ UNCHANGED received]_<<vars, received>> => RegistriesInv'
  BY NextInv
<1> QED
  BY <1>1, <1>2, <1>3, InitInv, PTL DEF EndpointsSpec

\* An endpoint with its parameters and its client handles the registries as
\* Registries says of a request that was read.
THEOREM EndpointsImplementRegistries == EndpointsSpec => Spec
<1>1. ReceiveInit => Init
  BY DEF ReceiveInit
<1>2. [Next /\ UNCHANGED received]_<<vars, received>> => [Next]_vars
  OBVIOUS
<1> QED
  BY <1>1, <1>2, PTL DEF EndpointsSpec, Spec

\* A parameter that is not repeated has one value.
LEMMA ParameterIsSent ==
  ASSUME NEW r, NEW name, ~Repeats(r, name)
  PROVE  /\ Values(r, name) = {} => Parameter(r, name) = None
         /\ \A v \in Values(r, name) :
              Named(r, name) # {} /\ v = Parameter(r, name) /\ Values(r, name) = {v}
<1>1. ASSUME NEW v \in Values(r, name)
      PROVE  Named(r, name) # {} /\ Values(r, name) = {v}
  BY DEF Values, Repeats
<1>2. Named(r, name) # {} => Values(r, name) # {}
  BY DEF Values
<1> QED
  BY <1>1, <1>2 DEF Parameter

\* What a listing request that was read asks for is what was sent.
LEMMA ListQueryMeans ==
  ASSUME NEW r \in Received, NEW q, q = ListQuery(r), q.endpoint = "list"
  PROVE  /\ ~Repeats(r, "trust_mark_type")
         /\ IsBoolean(r, "trust_marked") /\ IsBoolean(r, "intermediate")
         /\ q.type = Parameter(r, "trust_mark_type")
         /\ q.trust_marked <=> FiltersByMark(r)
         /\ q.intermediate <=> Flag(r, "intermediate")
         /\ q.entity_types = Values(r, "entity_type")
BY DEF ListQuery, Refused

LEMMA SentAreValues ==
  ASSUME NEW name, NEW v
  PROVE  v \in Values(received, name) <=> \E p \in Sent : p.name = name /\ p.value = v
BY DEF Values, Named, Sent

LEMMA SentHaveTypes ==
  ASSUME QueryInv, NEW p \in Sent
  PROVE  p.name = "trust_mark_type" => p.value \in Types /\ p.value # None
BY RequestsAssumption DEF QueryInv, Sent

\* The filters of a listing that is not refused, as they were sent.
LEMMA FiltersAreSent ==
  ASSUME QueryInv, received.endpoint = "list", phase # "refused"
  PROVE  /\ request.endpoint = "list"
         /\ request.intermediate <=> \E p \in Sent : p.name = "intermediate" /\ p.value = "true"
         /\ \A p \in Sent :
              /\ p.name \in {"intermediate", "trust_marked"} => p.value \in {"true", "false"}
              /\ p.name = "entity_type" => p.value \in request.entity_types
              /\ p.name = "trust_mark_type" =>
                   p.value = request.type /\ request.trust_marked /\ p.value \in Types
              /\ p.name = "trust_marked" /\ p.value = "true" => request.trust_marked
         /\ \A v \in request.entity_types :
              \E p \in Sent : p.name = "entity_type" /\ p.value = v
         /\ request.trust_marked =>
              \/ \E p \in Sent : p.name = "trust_mark_type" /\ p.value = request.type
              \/ /\ request.type = None
                 /\ \E p \in Sent : p.name = "trust_marked" /\ p.value = "true"
<1>1. request = ListQuery(received) /\ request.endpoint = "list"
  BY DEF QueryInv, Query, ListQuery, Refused
<1>2. /\ ~Repeats(received, "trust_mark_type")
      /\ IsBoolean(received, "trust_marked") /\ IsBoolean(received, "intermediate")
      /\ request.type = Parameter(received, "trust_mark_type")
      /\ request.trust_marked <=> FiltersByMark(received)
      /\ request.intermediate <=> Flag(received, "intermediate")
      /\ request.entity_types = Values(received, "entity_type")
  BY <1>1, ListQueryMeans DEF QueryInv
<1>3. ASSUME NEW p \in Sent
      PROVE  /\ p.name \in {"intermediate", "trust_marked"} => p.value \in {"true", "false"}
             /\ p.name = "entity_type" => p.value \in request.entity_types
             /\ p.name = "trust_mark_type" =>
                  p.value = request.type /\ request.trust_marked /\ p.value \in Types
             /\ p.name = "trust_marked" /\ p.value = "true" => request.trust_marked
  <2>1. p.value \in Values(received, p.name)
    BY SentAreValues
  <2>2. CASE p.name = "trust_mark_type"
    BY <1>2, <2>1, <2>2, ParameterIsSent, SentHaveTypes DEF FiltersByMark
  <2> QED
    BY <1>2, <2>1, <2>2 DEF IsBoolean, FiltersByMark, Flag
<1>4. request.trust_marked =>
        \/ \E p \in Sent : p.name = "trust_mark_type" /\ p.value = request.type
        \/ /\ request.type = None
           /\ \E p \in Sent : p.name = "trust_marked" /\ p.value = "true"
  <2>1. CASE Values(received, "trust_mark_type") = {}
    <3>1. request.type = None /\ Named(received, "trust_mark_type") = {}
      <4>1. Named(received, "trust_mark_type") = {}
        BY <2>1 DEF Values
      <4> QED
        BY <1>2, <2>1, <4>1, ParameterIsSent
    <3> QED
      BY <1>2, <3>1, SentAreValues DEF FiltersByMark, Flag
  <2>2. CASE Values(received, "trust_mark_type") # {}
    BY <1>2, <2>2, ParameterIsSent, SentAreValues
  <2> QED
    BY <2>1, <2>2
<1> QED
  BY <1>1, <1>2, <1>3, <1>4, SentAreValues DEF Flag

LEMMA ListingHonours ==
  ASSUME RegistriesInv, QueryInv
  PROVE  ListingHonoursParameters
<1> SUFFICES ASSUME received.endpoint = "list", phase = "answered", NEW e \in Entities
             PROVE
      /\ e \in answer =>
           \E m \in seen :
             e \in m.registered /\ \A p \in Sent : Meets(e, p, m, HeldOnce(e))
      /\ /\ \A m \in seen : e \in m.registered
         /\ \A p \in Sent, m \in seen : Meets(e, p, m, HeldThroughout(e))
         => e \in answer
  BY DEF ListingHonoursParameters
<1>1. ListingIsSoundAndComplete /\ Handles("list", "answered")
  BY FiltersAreSent DEF RegistriesInv, AnswerInv, Handles
<1>2. ASSUME e \in answer
      PROVE  \E m \in seen :
               e \in m.registered /\ \A p \in Sent : Meets(e, p, m, HeldOnce(e))
  <2>1. PICK m \in seen : Passes(e, m)
    BY <1>1, <1>2 DEF ListingIsSoundAndComplete
  <2>2. request.trust_marked => InsertedFor(e) \/ \E n \in seen : Holds(e, request.type, n)
    BY <1>1, <1>2 DEF ListingIsSoundAndComplete
  <2>3. request.trust_marked =>
          None \in HeldOnce(e) /\ (request.type \in Types => request.type \in HeldOnce(e))
    BY <2>2 DEF HeldOnce, Holds
  <2>4. ASSUME NEW p \in Sent PROVE Meets(e, p, m, HeldOnce(e))
    <3>1. p.name = "intermediate" => p.value = "false" \/ (p.value = "true" /\ e \in m.intermediate)
      BY <2>1, FiltersAreSent DEF Passes
    <3>2. p.name = "entity_type" => p.value \in TypesOf[e]
      BY <2>1, FiltersAreSent DEF Passes
    <3>3. p.name = "trust_mark_type" => p.value \in HeldOnce(e)
      BY <2>3, FiltersAreSent
    <3>4. p.name = "trust_marked" => p.value = "false" \/ (p.value = "true" /\ None \in HeldOnce(e))
      BY <2>3, FiltersAreSent
    <3> QED
      BY <3>1, <3>2, <3>3, <3>4 DEF Meets
  <2> QED
    BY <2>1, <2>4 DEF Passes
<1>3. ASSUME \A m \in seen : e \in m.registered,
             \A p \in Sent, m \in seen : Meets(e, p, m, HeldThroughout(e))
      PROVE  e \in answer
  <2>1. ASSUME NEW p \in Sent, NEW m \in seen
        PROVE  /\ p.name = "intermediate" /\ p.value = "true" => e \in m.intermediate
               /\ p.name = "entity_type" => p.value \in TypesOf[e]
               /\ p.name = "trust_mark_type" => p.value \in HeldThroughout(e)
               /\ p.name = "trust_marked" /\ p.value = "true" => None \in HeldThroughout(e)
    BY <1>3 DEF Meets
  <2>2. Moment \in seen
    BY DEF RegistriesInv, TypeOK
  <2>3. ASSUME NEW m \in seen PROVE Passes(e, m)
    BY <1>3, <2>1, FiltersAreSent DEF Passes
  <2>4. ASSUME request.trust_marked
        PROVE  \E j \in Jwts : /\ j.sub = e /\ (request.type # None => j.type = request.type)
                               /\ \A m \in seen : IsActive(j, m)
    <3>1. request.type \in HeldThroughout(e)
      BY <2>1, <2>2, <2>4, FiltersAreSent
    <3> QED
      BY <3>1 DEF HeldThroughout
  <2> QED
    BY <1>1, <2>3, <2>4 DEF ListingIsSoundAndComplete
<1> QED
  BY <1>2, <1>3

\* The subordinate listing, which reads two stores one after the other, omits
\* nobody that passed all filters throughout, and lists nobody that never did.
THEOREM SubordinateListing == EndpointsSpec => []ListingHonoursParameters
BY ListingHonours, EndpointsCorrect, PTL

LEMMA StatusIsAnError ==
  ASSUME NEW code PROVE ~IsSuccess(ErrorResponse(code)) /\ ErrorResponse(code).body = code
<1>1. StatusOf(code) \in {400, 401, 404, 500, 503}
  BY DEF StatusOf
<1> QED
  BY <1>1 DEF IsSuccess, ErrorResponse

LEMMA ClientsLearn ==
  ASSUME RegistriesInv, QueryInv
  PROVE  ClientsLearnTheAnswer
<1> SUFFICES ASSUME IsFinal, NEW body \in BodiesRead(Response)
             PROVE
      LET outcome == Outcome(Response, body)
      IN IF outcome.is = "error"
         THEN Error # None /\ outcome.error \in {Error, None}
         ELSE /\ Error = None
              /\ IF received.endpoint = "status"
                 THEN /\ IsVerifiedStatus(outcome.body, Parameter(received, "trust_mark"))
                      /\ outcome.body.status = answer
                 ELSE outcome.body = answer
  BY DEF ClientsLearnTheAnswer
<1>1. CASE Error # None
  <2>1. Response = ErrorResponse(Error)
    BY <1>1 DEF Response
  <2>2. ~IsSuccess(Response) /\ body \in {Error, None}
    BY <2>1, StatusIsAnError DEF BodiesRead
  <2> QED
    BY <1>1, <2>2 DEF Outcome
<1>2. CASE Error = None
  <2>1. phase = "answered" /\ request.endpoint # "refused"
    BY <1>2, RequestsAssumption
       DEF Error, IsFinal, QueryInv, RegistriesInv, TypeOK, Queries, ErrorCodes, NotFoundCodes
  <2>2. \A b : IsSuccess(Success(b)) /\ Success(b).body = b
    BY DEF IsSuccess, Success
  <2>3. CASE request.endpoint = "status"
    <3>1. Response = Success(StatusResponse(answer)) /\ answer # "not_found"
      BY <1>2, <2>1, <2>3, RequestsAssumption DEF Response, Error, ErrorCodes, NotFoundCodes
    <3>2. body = StatusResponse(answer) /\ IsSuccess(Response)
      BY <2>2, <3>1 DEF BodiesRead
    <3>3. received.endpoint = "status" /\ request.jwt = Parameter(received, "trust_mark")
      BY <2>3 DEF QueryInv, Query, StatusQuery, ListQuery, MarksQuery, Refused
    <3>4. at <= now + Leeway
      <4>1. at \in 0..now /\ now \in 0..MaxTime
        BY DEF RegistriesInv, TypeOK
      <4> QED
        BY <4>1, RegistriesAssumption
    <3>5. request.jwt.iss = Issuer
      BY <2>1, <2>3, <3>1 DEF QueryInv
    <3>6. IsVerifiedStatus(body, Parameter(received, "trust_mark")) /\ body.status = answer
      BY <3>2, <3>3, <3>4, <3>5 DEF IsVerifiedStatus, StatusResponse
    <3> QED
      BY <1>2, <3>2, <3>3, <3>6 DEF Outcome
  <2>4. CASE request.endpoint # "status"
    <3>1. Response = Success(answer) /\ body = answer /\ IsSuccess(Response)
      BY <1>2, <2>2, <2>4 DEF Response, BodiesRead
    <3>2. received.endpoint # "status"
      BY <2>1, <2>4 DEF QueryInv, Query, StatusQuery, Refused
    <3> QED
      BY <1>2, <3>1, <3>2 DEF Outcome
  <2> QED
    BY <2>3, <2>4
<1> QED
  BY <1>1, <1>2

\* Whatever is lost of an error on its way, a client of these endpoints takes
\* no error for an answer, and verifies the status it asked for.
THEOREM ClientsAlwaysLearn == EndpointsSpec => []ClientsLearnTheAnswer
BY ClientsLearn, EndpointsCorrect, PTL
=============================================================================
