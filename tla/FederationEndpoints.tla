------------------------ MODULE FederationEndpoints -------------------------
(***************************************************************************)
(* A request from its arrival to what the client learns: the endpoint reads*)
(* its parameters (Requests), answers from the registries (Registries) or  *)
(* with an error, and the client reads the response, which may lose its    *)
(* body on the way.                                                        *)
(***************************************************************************)
EXTENDS Registries

VARIABLE received  \* the request as it arrived

ReceiveInit ==
  /\ received \in Received
  /\ request = Query(received)
  /\ Init

EndpointsSpec == ReceiveInit /\ [][Next /\ UNCHANGED received]_<<vars, received>>

-----------------------------------------------------------------------------
(* The response, and what the client makes of it.                          *)

IsFinal == phase \in {"answered", "refused", "failed"}

\* The code of the error that is answered, if it is one.
Error ==
  IF phase = "refused" THEN request.code
  ELSE IF phase = "failed" THEN "server_error"
  ELSE IF \/ request.endpoint = "status" /\ answer = "not_found"
          \/ request.endpoint = "trust_mark" /\ answer = None
  THEN "not_found"
  ELSE None

\* A Trust Mark Status Response names its issuer, the JWT it is about, and the
\* time the handler read.
StatusResponse(status) ==
  [iss |-> Issuer, iat |-> at, trust_mark |-> request.jwt, status |-> status]

Response ==
  IF Error # None THEN ErrorResponse(Error)
  ELSE IF request.endpoint = "status" THEN Success(StatusResponse(answer))
  ELSE Success(answer)

\* TrustMarkStatusResponse::from_verified_jwt, and the caller's comparison with
\* the Trust Mark it asked about.
IsVerifiedStatus(response, jwt) ==
  response.iss = jwt.iss /\ response.iat <= now + Leeway /\ response.trust_mark = jwt

-----------------------------------------------------------------------------
(* Properties.                                                             *)

Sent == {received.parameters[i] : i \in DOMAIN received.parameters}

\* The types of Trust Mark that an entity held at some moment, or throughout,
\* with None for any type.
HeldOnce(e) == {type \in Types \cup {None} : InsertedFor(e) \/ \E m \in seen : Holds(e, type, m)}

HeldThroughout(e) ==
  {type \in Types \cup {None} :
     \E j \in Jwts : j.sub = e /\ type \in {j.type, None} /\ \A m \in seen : IsActive(j, m)}

\* What each parameter of a listing request asks of an entity that holds Trust
\* Marks of the types `held`; nobody meets a flag that is neither true nor false.
Meets(e, p, m, held) ==
  CASE p.name = "trust_marked" -> p.value = "false" \/ (p.value = "true" /\ None \in held)
    [] p.name = "trust_mark_type" -> p.value \in held
    [] p.name = "intermediate" ->
         p.value = "false" \/ (p.value = "true" /\ e \in m.intermediate)
    [] p.name = "entity_type" -> p.value \in TypesOf[e]
    [] OTHER -> TRUE

\* A listing that is answered ignores no parameter that was sent, not one that
\* was sent twice, is misspelled, or is not supported: each entity listed met
\* all of them at some moment, and none that met them throughout is left out.
ListingHonoursParameters ==
  received.endpoint = "list" /\ phase = "answered" =>
    \A e \in Entities :
      /\ e \in answer =>
           \E m \in seen :
             /\ e \in m.registered
             /\ \A p \in Sent : Meets(e, p, m, HeldOnce(e))
      /\ /\ \A m \in seen : e \in m.registered
         /\ \A p \in Sent, m \in seen : Meets(e, p, m, HeldThroughout(e))
         => e \in answer

\* A client never takes an error for an answer or an answer for an error: what
\* it reads as an answer is what the endpoint found, a status verifies as one of
\* the Trust Mark it asked about, and an error it can read is the one meant.
ClientsLearnTheAnswer ==
  IsFinal =>
    \A body \in BodiesRead(Response) :
      LET outcome == Outcome(Response, body)
      IN IF outcome.is = "error"
         THEN Error # None /\ outcome.error \in {Error, None}
         ELSE /\ Error = None
              /\ IF received.endpoint = "status"
                 THEN /\ IsVerifiedStatus(outcome.body, Parameter(received, "trust_mark"))
                      /\ outcome.body.status = answer
                 ELSE outcome.body = answer
=============================================================================
