----------------------------- MODULE Federation -----------------------------
(***************************************************************************)
(* What a client that walks a federation is answered: every entity serves  *)
(* an Entity Configuration with the Superiors it names, and a Superior     *)
(* serves statements that list its subordinates' keys.                     *)
(*                                                                         *)
(* Each entity has one key at a time.  A federation moves while a client   *)
(* walks it: an entity replaces its key, its Superior learns of it later,  *)
(* and any request may go unanswered.                                      *)
(***************************************************************************)
EXTENDS Naturals, Sequences, FiniteSets, SequencesExt

CONSTANTS
  Entities,   \* Entity Identifiers
  Federations,\* the federations a walk may start in
  NoKey,      \* a Superior does not know the entity
  MaxChanges  \* bound of the model: what may go wrong or change in one walk

\* The JWTs that are served, and what Superiors know of their subordinates.
Jwts == [iss : Entities, sub : Entities, key : Nat, lists : Nat]

Endorsements == [Entities -> [Entities -> Nat \cup {NoKey}]]

ASSUME FederationAssumption ==
  /\ Federations \subseteq [hints     : [Entities -> Seq(Entities)],
                            endpoints : SUBSET Entities,
                            endorsed  : Endorsements]
  /\ NoKey \notin Nat
  /\ MaxChanges \in Nat

ASSUME EntitiesAreFinite == IsFiniteSet(Entities)

VARIABLES
  hints,      \* the authority_hints each entity publishes, << >> for none
  endpoints,  \* the entities with a federation_fetch_endpoint
  key,        \* the number of each entity's key
  endorsed,   \* the key a Superior's statement lists for an entity, or NoKey
  changes     \* how much went wrong or changed so far

worldVars == <<hints, endpoints, key, endorsed, changes>>

FederationInit ==
  /\ \E f \in Federations :
       /\ hints = f.hints
       /\ endpoints = f.endpoints
       /\ endorsed = f.endorsed
  /\ key = [e \in Entities |-> 1]
  /\ changes = 0

\* The JWTs that are served now.  A statement's signature is by the key its
\* issuer has now.
Configuration(e) == [iss |-> e, sub |-> e, key |-> key[e], lists |-> key[e]]

Statement(s, e) == [iss |-> s, sub |-> e, key |-> key[s], lists |-> endorsed[s][e]]

\* resolve_subordinate_statement: the statement is served, and verifies with the
\* keys of the Superior's configuration.
StatementVerifies(superior, e) ==
  /\ endorsed[superior.sub][e] # NoKey
  /\ Statement(superior.sub, e).key = superior.lists

\* TrustChain::try_new, for JWTs that verified by themselves.
Authenticates(c) ==
  /\ Len(c) >= 2
  /\ c[1].iss = c[1].sub /\ c[Len(c)].iss = c[Len(c)].sub
  /\ c[1].sub = c[2].sub
  /\ \A i \in 1..(Len(c) - 1) :
       /\ c[i].key = c[i + 1].lists
       /\ 1 < i => c[i].iss = c[i + 1].sub

\* A request goes unanswered.
Unanswered ==
  /\ changes < MaxChanges
  /\ changes' = changes + 1
  /\ UNCHANGED <<hints, endpoints, key, endorsed>>

ReplaceKey(e) ==
  /\ changes < MaxChanges
  /\ key' = [key EXCEPT ![e] = @ + 1]
  /\ changes' = changes + 1
  /\ UNCHANGED <<hints, endpoints, endorsed>>

\* A Superior learns of a key and endorses it.
Endorse(s, e) ==
  /\ changes < MaxChanges
  /\ endorsed[s][e] \notin {NoKey, key[e]}
  /\ endorsed' = [endorsed EXCEPT ![s][e] = key[e]]
  /\ changes' = changes + 1
  /\ UNCHANGED <<hints, endpoints, key>>

WorldNext ==
  \/ \E e \in Entities : ReplaceKey(e)
  \/ \E s, e \in Entities : Endorse(s, e)

\* Nothing went wrong or changed since the walk began.
Undisturbed == changes = 0

\* The Superiors whose statement about an entity can be fetched, and those
\* whose statement lists the key that the entity has.
Fetchable == [e \in Entities |-> {s \in ToSet(hints[e]) : endorsed[s][e] # NoKey}]

\* The ones of them that an entity names before any without a fetch endpoint.
FetchableInOrder ==
  [e \in Entities |->
     {hints[e][i] : i \in {j \in DOMAIN hints[e] :
        /\ endorsed[hints[e][j]][e] # NoKey
        /\ \A k \in 1..j : hints[e][k] \in endpoints}}]

Endorsing == [e \in Entities |-> {s \in ToSet(hints[e]) : endorsed[s][e] = key[e]}]

\* The entities that can be reached from `e` over such Superiors.
ReachableOver(superiors, e) ==
  {g \in Entities :
     \A S \in SUBSET Entities :
       e \in S /\ (\A f \in S : superiors[f] \subseteq S) => g \in S}

-----------------------------------------------------------------------------

FederationTypeOK ==
  /\ hints \in [Entities -> Seq(Entities)]
  /\ endpoints \subseteq Entities
  /\ key \in [Entities -> Nat]
  /\ endorsed \in Endorsements
  /\ changes \in 0..MaxChanges
=============================================================================
