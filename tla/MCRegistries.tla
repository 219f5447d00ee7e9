---------------------------- MODULE MCRegistries ----------------------------
(***************************************************************************)
(* Two Trust Marks of one type and subject, one that expires and one       *)
(* issued later, one of another subject that is not valid yet, and one of  *)
(* another issuer.  Requests that can be answered, and one for each way in *)
(* which a request cannot.                                                 *)
(***************************************************************************)
EXTENDS FederationEndpoints

CONSTANT Malformed  \* a value that is not what its parameter takes

Jwt(iss, type, sub, iat, exp) == [iss |-> iss, type |-> type, sub |-> sub, iat |-> iat, exp |-> exp]

MCEntities == {"e1", "e2"}

MCJwts ==
  {Jwt("issuer", "member", "e1", 0, 1), Jwt("issuer", "member", "e1", 1, None),
   Jwt("issuer", "audited", "e2", 2, None), Jwt("other", "member", "e2", 0, None)}

MCTypesOf == [e \in MCEntities |-> IF e = "e1" THEN {"op", "rp"} ELSE {"rp"}]

P(name, value) == [name |-> name, value |-> value]

Request(endpoint, parameters) ==
  [endpoint |-> endpoint, method |-> IF endpoint = "status" THEN "post" ELSE "get",
   supported |-> TRUE, parameters |-> parameters]

StatusRequests ==
  {Request("status", <<P("trust_mark", j)>>) : j \in MCJwts}
    \cup {Request("status", << >>), Request("status", <<P("trust_mark", Malformed)>>)}
    \cup {[Request("status", <<P("trust_mark", j)>>) EXCEPT !.method = "get"] : j \in MCJwts}
    \cup {Request("status", <<P("trust_mark", j), P("trust_mark", k)>>) : j, k \in MCJwts}

MarkParameters ==
  {<<P("trust_mark_type", type), P("sub", e)>> : type \in {"member", "audited"}, e \in MCEntities}
    \cup {<<P("trust_mark_type", "member")>>, <<P("sub", "e1")>>}
    \cup {<<P("trust_mark_type", "member"), P("sub", Malformed)>>,
          <<P("trust_mark_type", "member"), P("sub", "e1"), P("sub", "e2")>>,
          <<P("trust_mark_type", "member"), P("sub", "e1"), P("trust_mark_type", "audited")>>}

ListParameters ==
  {<< >>, <<P("intermediate", "true")>>, <<P("entity_type", "op"), P("entity_type", "rp")>>,
   <<P("trust_marked", "true")>>, <<P("trust_marked", "true"), P("trust_mark_type", "audited")>>,
   <<P("trust_mark_type", "member")>>,
   <<P("intermediate", "true"), P("trust_marked", "false"), P("trust_mark_type", "member")>>,
   <<P("intermediate", "false"), P("trust_marked", "false"), P("unknown", "true")>>,
   <<P("intermediate", "true"), P("intermediate", "false")>>,
   <<P("trust_mark_type", "member"), P("trust_mark_type", "audited")>>,
   <<P("trust_marked", "false"), P("trust_marked", "true")>>,
   <<P("intermediate", Malformed), P("trust_marked", "true")>>,
   <<P("trust_marked", Malformed)>>}

MCReceived ==
  StatusRequests
    \cup {Request(endpoint, ps) : endpoint \in {"trust_mark", "trust_marked_entities"},
                                   ps \in MarkParameters}
    \cup {[Request("list", ps) EXCEPT !.supported = s] : ps \in ListParameters, s \in BOOLEAN}
=============================================================================
