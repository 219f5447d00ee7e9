----------------------------- MODULE Registries -----------------------------
(***************************************************************************)
(* The registries of an issuing entity (store.rs), which its application   *)
(* writes at any time, and one request to an endpoint that reads them:     *)
(* Trust Mark Status, Trust Mark, Trust Marked Entities or subordinate     *)
(* listing (endpoint/).  A handler reads the clock first, then a store once *)
(* or twice, then may sign, and awaits in between.  The request is as the  *)
(* handler read it (Requests).                                             *)
(***************************************************************************)
EXTENDS Requests

CONSTANTS
  Issuer,     \* the entity whose registries these are
  TypesOf,    \* the Entity Types that are registered of each entity
  Leeway,     \* CLOCK_SKEW_LEEWAY
  MaxTime,    \* bound: the clock stops
  MaxChanges  \* bound: how often the registries change during the request

ASSUME RegistriesAssumption ==
  /\ Leeway \in Nat /\ MaxTime \in Nat /\ MaxChanges \in Nat
  /\ \A j \in Jwts : /\ j.sub \in Entities /\ j.type \in Types
                      /\ j.iat \in Int /\ j.exp \in Int \cup {None}

VARIABLES
  now,           \* the clock, in seconds
  recorded,      \* the JWTs in the Trust Mark store
  revoked,       \* those of them with a revoked_at
  registered,    \* the entities in the subordinate store
  intermediate,  \* those of them that are Intermediate Entities
  request,       \* the request that is handled
  phase,         \* what the handler does next
  at,            \* the clock as the handler read it
  marked,        \* the Trust Marked entities a listing has read
  answer,        \* what the handler answers
  seen,          \* history: the moments since the request arrived
  inserted,      \* history: the JWTs inserted since then
  changes        \* how often the registries changed since then

registries == <<recorded, revoked, registered, intermediate>>
handler == <<request, phase, at, marked, answer>>
history == <<seen, inserted, changes>>
vars == <<now, registries, handler, history>>

OwnJwts == {j \in Jwts : j.iss = Issuer}

Queries ==
  [endpoint : {"status"}, jwt : Jwts]
    \cup [endpoint : {"trust_mark"}, type : Types, sub : Entities]
    \cup [endpoint : {"trust_marked_entities"}, type : Types, sub : Entities \cup {None}]
    \cup [endpoint : {"list"}, trust_marked : BOOLEAN, type : Types \cup {None},
          intermediate : BOOLEAN, entity_types : SUBSET EntityTypes]
    \cup [endpoint : {"refused"}, code : ErrorCodes]

Moment ==
  [now |-> now, recorded |-> recorded, revoked |-> revoked, registered |-> registered,
   intermediate |-> intermediate]

-----------------------------------------------------------------------------
(* IssuedTrustMark::status_at.                                             *)

HasExpired(j, t) == j.exp # None /\ j.exp <= t

IsEarly(j, t) == j.iat > t + Leeway

\* Mistake: a Trust Mark that has expired is no longer called revoked.
StatusAtExpiredFirst(j, t) ==
  IF HasExpired(j, t) THEN "expired"
  ELSE IF j \in revoked THEN "revoked"
  ELSE IF IsEarly(j, t) THEN "invalid"
  ELSE "active"

StatusAt(j, t) ==
  IF j \in revoked THEN "revoked"
  ELSE IF HasExpired(j, t) THEN "expired"
  ELSE IF IsEarly(j, t) THEN "invalid"
  ELSE "active"

-----------------------------------------------------------------------------
(* The handler.                                                            *)

Handles(endpoint, p) == phase = p /\ request.endpoint = endpoint

\* The clock is read when the request arrives, before any store is.
FirstPhase(r) ==
  IF r.endpoint = "refused" THEN "refused"
  ELSE IF r.endpoint = "list" /\ ~r.trust_marked THEN "subordinates"
  ELSE "trust marks"

Init ==
  /\ now \in 0..MaxTime
  /\ recorded \in SUBSET OwnJwts
  /\ revoked \in SUBSET recorded
  /\ registered \in SUBSET Entities
  /\ intermediate \in SUBSET registered
  /\ request \in Queries
  /\ phase = FirstPhase(request)
  /\ at = now
  /\ marked = {}
  /\ answer = None
  /\ seen = {Moment}
  /\ inserted = {}
  /\ changes = 0

\* The status endpoint asks for the JWT, and signs what its record says.
LookUpTrustMark ==
  /\ Handles("status", "trust marks")
  /\ \/ /\ request.jwt \in recorded
        /\ answer' = StatusAt(request.jwt, at)
        /\ phase' = "signing"
     \/ /\ request.jwt \notin recorded /\ request.jwt.iss = Issuer
        /\ phase' = "siblings"
        /\ UNCHANGED answer
     \/ /\ request.jwt \notin recorded /\ request.jwt.iss # Issuer
        /\ answer' = "not_found"
        /\ phase' = "answered"
  /\ UNCHANGED <<now, registries, request, at, marked, history>>

Siblings(j) == {k \in recorded : k.type = j.type /\ k.sub = j.sub}

\* A JWT that is not recorded is invalid if its subject was issued that type.
LookUpSiblings ==
  /\ Handles("status", "siblings")
  /\ \/ Siblings(request.jwt) # {} /\ answer' = "invalid" /\ phase' = "signing"
     \/ Siblings(request.jwt) = {} /\ answer' = "not_found" /\ phase' = "answered"
  /\ UNCHANGED <<now, registries, request, at, marked, history>>

SignStatus ==
  /\ phase = "signing"
  /\ phase' = "answered"
  /\ UNCHANGED <<now, registries, request, at, marked, answer, history>>

ActiveMarks(type, sub) ==
  {j \in recorded :
     /\ type # None => j.type = type
     /\ sub # None => j.sub = sub
     /\ StatusAt(j, at) = "active"}

\* Mistake: the Trust Mark issued first is served.
LatestServedFirst(js) == {j \in js : \A k \in js : k.iat >= j.iat}

\* The JWT breaks ties, which is left open.
Latest(js) == {j \in js : \A k \in js : k.iat <= j.iat}

ServeTrustMark ==
  /\ Handles("trust_mark", "trust marks")
  /\ LET held == ActiveMarks(request.type, request.sub)
     IN IF held = {} THEN answer' = None ELSE answer' \in Latest(held)
  /\ phase' = "answered"
  /\ UNCHANGED <<now, registries, request, at, marked, history>>

Subjects(js) == {j.sub : j \in js}

ServeTrustMarkedEntities ==
  /\ Handles("trust_marked_entities", "trust marks")
  /\ answer' = Subjects(ActiveMarks(request.type, request.sub))
  /\ phase' = "answered"
  /\ UNCHANGED <<now, registries, request, at, marked, history>>

ReadTrustMarked ==
  /\ Handles("list", "trust marks")
  /\ marked' = Subjects(ActiveMarks(request.type, None))
  /\ phase' = "subordinates"
  /\ UNCHANGED <<now, registries, request, at, answer, history>>

\* Filter::admits, and the marks that were read.
Listed ==
  {e \in registered :
     /\ request.intermediate => e \in intermediate
     /\ request.entity_types \subseteq TypesOf[e]
     /\ request.trust_marked => e \in marked}

ServeSubordinates ==
  /\ Handles("list", "subordinates")
  /\ answer' = Listed
  /\ phase' = "answered"
  /\ UNCHANGED <<now, registries, request, at, marked, history>>

\* A store or the signer fails: server_error, and nothing is remembered.
Fail ==
  /\ phase \in {"trust marks", "siblings", "subordinates", "signing"}
  /\ phase' = "failed"
  /\ marked' = {} /\ answer' = None
  /\ seen' = {Moment} /\ inserted' = {} /\ changes' = 0
  /\ UNCHANGED <<now, registries, request, at>>

Handle ==
  \/ LookUpTrustMark \/ LookUpSiblings \/ SignStatus
  \/ ServeTrustMark
  \/ ServeTrustMarkedEntities
  \/ ReadTrustMarked \/ ServeSubordinates
  \/ Fail

-----------------------------------------------------------------------------
(* The application and the clock.  The registry at the arrival of the      *)
(* request is any, so what happens before it or after it is of no interest. *)

InFlight == phase \notin {"answered", "failed", "refused"}

Change ==
  /\ InFlight
  /\ changes < MaxChanges
  /\ changes' = changes + 1

Remember == seen' = seen \cup {Moment'}

\* A record of the same JWT is replaced, its revocation included.
InsertTrustMark(j) ==
  /\ Change
  /\ recorded' = recorded \cup {j}
  /\ revoked' = revoked \ {j}
  /\ inserted' = inserted \cup {j}
  /\ UNCHANGED <<now, registered, intermediate, handler>>
  /\ Remember

RevokeTrustMark(j) ==
  /\ Change
  /\ j \in recorded
  /\ revoked' = revoked \cup {j}
  /\ UNCHANGED <<now, recorded, registered, intermediate, handler, inserted>>
  /\ Remember

InsertSubordinate(e, isIntermediate) ==
  /\ Change
  /\ registered' = registered \cup {e}
  /\ intermediate' = IF isIntermediate THEN intermediate \cup {e} ELSE intermediate \ {e}
  /\ UNCHANGED <<now, recorded, revoked, handler, inserted>>
  /\ Remember

RemoveSubordinate(e) ==
  /\ Change
  /\ registered' = registered \ {e}
  /\ intermediate' = intermediate \ {e}
  /\ UNCHANGED <<now, recorded, revoked, handler, inserted>>
  /\ Remember

Tick ==
  /\ InFlight
  /\ now < MaxTime
  /\ now' = now + 1
  /\ UNCHANGED <<registries, handler, inserted, changes>>
  /\ Remember

Next ==
  \/ Handle
  \/ \E j \in OwnJwts : InsertTrustMark(j) \/ RevokeTrustMark(j)
  \/ \E e \in Entities : RemoveSubordinate(e) \/ \E i \in BOOLEAN : InsertSubordinate(e, i)
  \/ Tick

Spec == Init /\ [][Next]_vars

-----------------------------------------------------------------------------
(* Properties.                                                             *)

Statuses == {"active", "expired", "revoked", "invalid"}

Answers ==
  IF request.endpoint = "status" THEN Statuses \cup {"not_found"}
  ELSE IF request.endpoint = "trust_mark" THEN OwnJwts \cup {None}
  ELSE SUBSET Entities

\* Every variable has its type, and what is signed or sent is an answer of the
\* endpoint that was asked.
TypeOK ==
  /\ now \in 0..MaxTime /\ at \in 0..now
  /\ recorded \subseteq OwnJwts /\ revoked \subseteq recorded
  /\ registered \subseteq Entities /\ intermediate \subseteq registered
  /\ request \in Queries
  /\ phase \in {"trust marks", "siblings", "subordinates", "signing", "answered",
                "failed", "refused"}
  /\ phase = "signing" => answer \in Statuses
  /\ phase = "answered" => answer \in Answers
  /\ Moment \in seen
  /\ inserted \subseteq OwnJwts

IsActive(j, m) ==
  j \in m.recorded /\ j \notin m.revoked /\ ~HasExpired(j, m.now) /\ ~IsEarly(j, m.now)

\* The table in the documentation of TrustMarkStatusEndpoint, at the moment `m`.
IsStatus(status, j, m) ==
  LET issuedToSubject ==
        j.iss = Issuer /\ \E k \in m.recorded : k.type = j.type /\ k.sub = j.sub
  IN \/ status = "revoked" /\ j \in m.recorded /\ j \in m.revoked
     \/ status = "expired" /\ j \in m.recorded /\ j \notin m.revoked /\ HasExpired(j, m.now)
     \/ status = "active" /\ IsActive(j, m)
     \/ /\ status = "invalid"
        /\ IF j \in m.recorded THEN j \notin m.revoked /\ IsEarly(j, m.now) ELSE issuedToSubject
     \/ status = "not_found" /\ j \notin m.recorded /\ ~issuedToSubject

\* The status that is answered of a Trust Mark that is not recorded during the
\* request is one it had at some moment of it, whatever is revoked, expires or is
\* recorded of others meanwhile.
StatusOfRecordWasTrue ==
  Handles("status", "answered") /\ request.jwt \notin inserted =>
    \E m \in seen : IsStatus(answer, request.jwt, m)

\* The Trust Mark served was active at some moment of the request, or recorded
\* during it, after the clock was read; none that was active all the time was
\* issued later, and none is not the answer while there was one.
TrustMarkIsLatest ==
  Handles("trust_mark", "answered") =>
    /\ answer # None =>
         /\ answer.type = request.type /\ answer.sub = request.sub
         /\ answer \in inserted \/ \E m \in seen : IsActive(answer, m)
    /\ \A j \in Jwts :
         j.type = request.type /\ j.sub = request.sub /\ (\A m \in seen : IsActive(j, m)) =>
           answer # None /\ answer.iat >= j.iat

Holds(e, type, m) == \E j \in Jwts : j.sub = e /\ (type # None => j.type = type) /\ IsActive(j, m)

InsertedFor(e) == \E j \in inserted : j.sub = e

\* The entities answered as Trust Marked are those that held an active Trust
\* Mark of the type at some moment, and all that held one all the time.
TrustMarkedAreMarked ==
  Handles("trust_marked_entities", "answered") =>
    \A e \in Entities :
      /\ e \in answer =>
           /\ request.sub \in {e, None}
           /\ InsertedFor(e) \/ \E m \in seen : Holds(e, request.type, m)
      /\ request.sub \in {e, None}
           /\ (\E j \in Jwts : /\ j.sub = e /\ j.type = request.type
                               /\ \A m \in seen : IsActive(j, m)) =>
           e \in answer

Passes(e, m) ==
  /\ e \in m.registered
  /\ request.intermediate => e \in m.intermediate
  /\ request.entity_types \subseteq TypesOf[e]

\* Every subordinate that passed all filters throughout the request is listed,
\* and each that is listed passed each of them at some moment.
ListingIsSoundAndComplete ==
  Handles("list", "answered") =>
    \A e \in Entities :
      /\ e \in answer =>
           /\ \E m \in seen : Passes(e, m)
           /\ request.trust_marked =>
                InsertedFor(e) \/ \E m \in seen : Holds(e, request.type, m)
      /\ /\ \A m \in seen : Passes(e, m)
         /\ request.trust_marked =>
              \E j \in Jwts : /\ j.sub = e /\ (request.type # None => j.type = request.type)
                              /\ \A m \in seen : IsActive(j, m)
         => e \in answer

=============================================================================
