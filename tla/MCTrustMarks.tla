---------------------------- MODULE MCTrustMarks ----------------------------
(***************************************************************************)
(* A Trust Mark of each kind that verifies, each with every single way in  *)
(* which it may not, in every presentation of up to two.                   *)
(***************************************************************************)
EXTENDS TrustMarks

MCEntities == {"leaf", "issuer", "anchor", "owner"}
MCKeys == {"leaf key", "old key", "new key", "anchor key", "owner key"}
MCTypes == {"listed", "open", "owned", "unknown"}

MCTrustMarkIssuers ==
  [type \in {"listed", "open", "owned"} |-> IF type = "open" THEN {} ELSE {"issuer", "anchor"}]

MCTrustMarkOwners == [type \in {"owned"} |-> [sub |-> "owner", keys |-> {"owner key"}]]

MCKeySets ==
  [leaf |-> {{"leaf key"}}, anchor |-> {{"anchor key"}}, owner |-> {{"owner key"}},
   issuer |-> {{"old key"}, {"old key", "new key"}, {"new key"}}]

Consent ==
  [formed |-> TRUE, iss |-> "owner", sub |-> "issuer", type |-> "owned", iat |-> 0, exp |-> None,
   key |-> "owner key"]

Consents ==
  {Consent, [Consent EXCEPT !.formed = FALSE], [Consent EXCEPT !.iss = "issuer"],
   [Consent EXCEPT !.sub = "leaf"], [Consent EXCEPT !.type = "listed"], [Consent EXCEPT !.iat = 2],
   [Consent EXCEPT !.iat = -1, !.exp = 0], [Consent EXCEPT !.exp = 0],
   [Consent EXCEPT !.key = "old key"]}

Mark(iss, type, key, delegation) ==
  [formed |-> TRUE, iss |-> iss, sub |-> "leaf", type |-> type, iat |-> 0, exp |-> None,
   key |-> key, delegation |-> delegation]

Listed == Mark("issuer", "listed", "old key", None)

Listeds ==
  {Listed, [Listed EXCEPT !.formed = FALSE], [Listed EXCEPT !.sub = "issuer"],
   [Listed EXCEPT !.iss = "leaf"], [Listed EXCEPT !.type = "unknown"],
   [Listed EXCEPT !.key = "new key"], [Listed EXCEPT !.iat = 2],
   [Listed EXCEPT !.iat = -1, !.exp = 0], [Listed EXCEPT !.exp = 0],
   [Listed EXCEPT !.delegation = Consent]}

Marks ==
  Listeds
    \cup {Mark("leaf", "open", "leaf key", None), Mark("anchor", "listed", "anchor key", None),
          Mark("anchor", "listed", "old key", None), Mark("issuer", "owned", "old key", None)}
    \cup {Mark("issuer", "owned", "old key", c) : c \in Consents}

MCPresentations == {<< >>} \cup {<<m>> : m \in Marks} \cup {<<m, n>> : m \in Marks, n \in Marks}
=============================================================================
