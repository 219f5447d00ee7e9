------------------------------ MODULE Requests ------------------------------
(***************************************************************************)
(* What the endpoints over the registries make of a request before they    *)
(* look at a store, and what a client makes of the response:               *)
(* EndpointRequest and ErrorResponse (endpoint.rs), the parameters of the  *)
(* four handlers (endpoint/), HttpResponse and its reading (utils.rs).     *)
(*                                                                         *)
(* A parameter is a name and a decoded value.  The value of trust_mark is  *)
(* one of Jwts or not a Trust Mark JWT, that of sub one of Entities or not *)
(* an Entity Identifier.                                                   *)
(***************************************************************************)
EXTENDS Integers

CONSTANTS
  Received,     \* the requests that arrive
  Entities,     \* the Entity Identifiers
  Jwts,         \* the Trust Mark JWTs
  Types,        \* the values of trust_mark_type
  EntityTypes,  \* the values of entity_type
  None          \* no value, no filter, no body, or no answer

NotFoundCodes == {"invalid_issuer", "invalid_subject", "invalid_trust_anchor", "not_found"}

ErrorCodes ==
  NotFoundCodes \cup
    {"invalid_request", "server_error", "temporarily_unavailable", "invalid_client",
     "invalid_trust_chain", "invalid_metadata", "unsupported_parameter"}

\* A request to an endpoint; `supported` tells that the listing it goes to was
\* built with a Trust Mark store.
ASSUME RequestsAssumption ==
  /\ None \notin Jwts /\ None \notin Entities /\ None \notin Types
  /\ None \notin ErrorCodes
  /\ \A r \in Received :
       /\ r.endpoint \in {"status", "trust_mark", "trust_marked_entities", "list"}
       /\ r.method \in {"get", "post"} /\ r.supported \in BOOLEAN
       /\ \A i \in DOMAIN r.parameters :
            LET p == r.parameters[i]
            IN /\ p.value # None
               /\ p.name = "trust_mark_type" => p.value \in Types
               /\ p.name = "entity_type" => p.value \in EntityTypes

-----------------------------------------------------------------------------
(* EndpointRequest.                                                        *)

Named(r, name) == {i \in DOMAIN r.parameters : r.parameters[i].name = name}

Values(r, name) == {r.parameters[i].value : i \in Named(r, name)}

\* Mistake: the first of several values is taken.
RepeatsUnnoticed(r, name) == FALSE

Repeats(r, name) == \E i, j \in Named(r, name) : i # j

\* The value of a parameter that is not repeated.
Parameter(r, name) ==
  IF Named(r, name) = {} THEN None ELSE CHOOSE v \in Values(r, name) : TRUE

IsRequired(r, name) == Named(r, name) # {} /\ ~Repeats(r, name)

\* entity_id_parameter, for a parameter that may be left out.
IsEntityId(r, name) == ~Repeats(r, name) /\ Values(r, name) \subseteq Entities

\* boolean of list.rs, false when the parameter is left out.
IsBoolean(r, name) == ~Repeats(r, name) /\ Values(r, name) \subseteq {"true", "false"}

Flag(r, name) == "true" \in Values(r, name)

-----------------------------------------------------------------------------
(* ErrorCode and ErrorResponse.                                            *)

\* The status of a code; a code of another origin has that of a bad request.
StatusOf(code) ==
  IF code \in NotFoundCodes THEN 404
  ELSE IF code = "invalid_client" THEN 401
  ELSE IF code = "server_error" THEN 500
  ELSE IF code = "temporarily_unavailable" THEN 503
  ELSE 400

Success(body) == [status |-> 200, body |-> body]

\* Mistake: an error is told by the body alone.
ErrorResponseWithSuccess(code) == [status |-> 200, body |-> code]

ErrorResponse(code) == [status |-> StatusOf(code), body |-> code]

-----------------------------------------------------------------------------
(* What each handler reads.                                                *)

Refused(code) == [endpoint |-> "refused", code |-> code]

StatusQuery(r) ==
  IF r.method = "post" /\ IsRequired(r, "trust_mark") /\ Parameter(r, "trust_mark") \in Jwts
  THEN [endpoint |-> "status", jwt |-> Parameter(r, "trust_mark")]
  ELSE Refused("invalid_request")

\* `sub` is required by the Trust Mark endpoint, and may be left out of a
\* request for Trust Marked Entities.
MarksQuery(r) ==
  IF /\ IsRequired(r, "trust_mark_type") /\ IsEntityId(r, "sub")
     /\ r.endpoint = "trust_mark" => IsRequired(r, "sub")
  THEN [endpoint |-> r.endpoint, type |-> Parameter(r, "trust_mark_type"),
        sub |-> Parameter(r, "sub")]
  ELSE Refused("invalid_request")

FiltersByMark(r) == Flag(r, "trust_marked") \/ Named(r, "trust_mark_type") # {}

\* Filter::from_request.  A trust_mark_type implies trust_marked; an entity_type
\* may be repeated.
ListQuery(r) ==
  IF ~IsBoolean(r, "trust_marked") \/ Repeats(r, "trust_mark_type")
  THEN Refused("invalid_request")
  ELSE IF FiltersByMark(r) /\ ~r.supported THEN Refused("unsupported_parameter")
  ELSE IF ~IsBoolean(r, "intermediate") THEN Refused("invalid_request")
  ELSE [endpoint |-> "list", trust_marked |-> FiltersByMark(r),
        type |-> Parameter(r, "trust_mark_type"),
        intermediate |-> Flag(r, "intermediate"), entity_types |-> Values(r, "entity_type")]

Query(r) ==
  IF r.endpoint = "status" THEN StatusQuery(r)
  ELSE IF r.endpoint = "list" THEN ListQuery(r)
  ELSE MarksQuery(r)

-----------------------------------------------------------------------------
(* The client.                                                             *)

IsSuccess(response) == response.status \in 200..299

\* The bodies an HttpClient may return: that of an error is lost if it cannot
\* be read or is too long, and the status is reported all the same.
BodiesRead(response) ==
  IF IsSuccess(response) THEN {response.body} ELSE {response.body, None}

\* HttpResponse::into_success_body.
Outcome(response, body) ==
  IF IsSuccess(response) THEN [is |-> "answer", body |-> body]
  ELSE [is |-> "error", status |-> response.status, error |-> body]
=============================================================================
