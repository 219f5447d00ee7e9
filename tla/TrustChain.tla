----------------------------- MODULE TrustChain -----------------------------
(***************************************************************************)
(* TrustChain::try_new (trust_chain.rs): a list of JWTs, the leaf's Entity *)
(* Configuration first and the Trust Anchor's last, is authenticated from  *)
(* the anchor down.  Every JWT is checked against the clock at the moment  *)
(* it is reached, so time passes between the checks.                       *)
(***************************************************************************)
EXTENDS EntityStatements

CONSTANTS
  Chains,   \* the lists of JWTs a caller may hand over
  MaxTime,  \* bound of the model: the clock stops here
  Owner,    \* the entity that holds each private key
  Honest    \* the entities that sign only as this library lets them

ASSUME TrustChainAssumption ==
  /\ Chains \subseteq Seq(Jwt)
  /\ MaxTime \in Int
  /\ Owner \in [Keys -> Entities]
  /\ Honest \subseteq Entities

VARIABLES
  chain,    \* the JWTs
  began,    \* when try_new was called
  now,      \* the clock
  at,       \* the place of the JWT that is checked next
  entity,   \* endorsed_entity
  keys,     \* endorsed_keys
  verdict   \* "checking", "valid" or "invalid"

vars == <<chain, began, now, at, entity, keys, verdict>>

Init ==
  /\ chain \in Chains
  /\ began = 0
  /\ now = 0
  /\ at = Len(chain)
  /\ entity \in Entities
  /\ keys = << >>
  /\ verdict = "checking"

Tick ==
  /\ now < MaxTime
  /\ now' = now + 1
  /\ UNCHANGED <<chain, began, at, entity, keys, verdict>>

Reject ==
  /\ verdict' = "invalid"
  /\ UNCHANGED <<chain, began, now, at, entity, keys>>

\* The keys of the JWT at this place become the authenticated ones, and the
\* walk goes down.
Descend ==
  /\ entity' = chain[at].sub
  /\ keys' = chain[at].jwks
  /\ at' = at - 1
  /\ UNCHANGED <<chain, began, now, verdict>>

RejectShort ==
  /\ verdict = "checking"
  /\ Len(chain) < 2
  /\ Reject

CheckAnchor ==
  /\ verdict = "checking"
  /\ Len(chain) >= 2
  /\ at = Len(chain)
  /\ \/ IsConfigurationOf(chain[at], chain[at].sub, now) /\ Descend
     \/ ~IsConfigurationOf(chain[at], chain[at].sub, now) /\ Reject

\* Mistake: whoever issued the statement, its signature is all that matters.
IsLinkedBySignature(jwt) == IsStatementAbout(jwt, jwt.iss, jwt.sub, keys, now)

\* The statement is issued by the entity that was endorsed last.
IsLinked(jwt) ==
  /\ jwt.iss = entity
  /\ IsStatementAbout(jwt, entity, jwt.sub, keys, now)

CheckSubordinate ==
  /\ verdict = "checking"
  /\ 1 < at /\ at < Len(chain)
  /\ \/ IsLinked(chain[at]) /\ Descend
     \/ ~IsLinked(chain[at]) /\ Reject

\* Mistake: the leaf's own keys are trusted.
IsEndorsedLeafByItself(jwt) == IsConfigurationOf(jwt, entity, now)

\* The leaf is the entity that was endorsed last, and signed with a key of its
\* own that its superior endorses.
IsEndorsedLeaf(jwt) ==
  /\ jwt.sub = entity
  /\ IsConfigurationOf(jwt, entity, now)
  /\ Verifies(jwt, keys, now)

CheckLeaf ==
  /\ verdict = "checking"
  /\ at = 1 /\ at < Len(chain)
  /\ \/ /\ IsEndorsedLeaf(chain[at])
        /\ verdict' = "valid"
        /\ UNCHANGED <<chain, began, now, at, entity, keys>>
     \/ ~IsEndorsedLeaf(chain[at]) /\ Reject

Next == Tick \/ RejectShort \/ CheckAnchor \/ CheckSubordinate \/ CheckLeaf

Spec == Init /\ [][Next]_vars

-----------------------------------------------------------------------------
(* What the caller is told of a chain that was accepted.                   *)

\* Mistake: the chain expires with the last of its JWTs.
IsExpiredWithTheLast(c, t) == \A i \in DOMAIN c : c[i].exp <= t

\* The smallest exp of the chain, expiration_timestamp, is not after t.
IsExpiredAt(c, t) == \E i \in DOMAIN c : c[i].exp <= t

-----------------------------------------------------------------------------
(* What an authentic chain is, said of the whole list at once.             *)

\* An exp and an nbf that hold at every time from `first` to `last`.
HoldsThroughout(jwt, first, last) ==
  /\ jwt.exp >= last
  /\ jwt.nbf <= first
  /\ jwt.iat <= first + Leeway

Links(c, i) ==
  /\ c[i].iss # c[i].sub
  /\ c[i].iss = c[i + 1].sub

Authentic(c, first, last) ==
  /\ Len(c) >= 2
  /\ \A i \in DOMAIN c :
       /\ c[i].formed /\ c[i].jwks # << >> /\ IsUnderstood(c[i])
       /\ HoldsThroughout(c[i], first, last)
       /\ i < Len(c) => NamedKeySigned(c[i], c[i + 1].jwks)
       /\ 1 < i /\ i < Len(c) => Links(c, i)
       /\ i \in {1, Len(c)} =>
            c[i].iss = c[i].sub /\ NamedKeySigned(c[i], c[i].jwks)
  /\ c[1].sub = c[2].sub

-----------------------------------------------------------------------------
(* Properties.                                                             *)

\* Every variable has its type, and below the anchor there are keys to check
\* the next JWT with.
TypeOK ==
  /\ chain \in Seq(Jwt)
  /\ began \in Int /\ now \in Int /\ began <= now
  /\ at \in 0..Len(chain)
  /\ entity \in Entities
  /\ keys \in Seq(PublicJwk)
  /\ at < Len(chain) => keys # << >>
  /\ verdict \in {"checking", "valid", "invalid"}

\* A chain is accepted only if it is linked and endorsed from the anchor down,
\* and no JWT of it had expired when the call began.
AcceptedIsAuthentic == verdict = "valid" => Authentic(chain, now, began)

\* A chain is rejected only if it is not authentic, or does not stay so while
\* it is checked.
RejectedIsNotAuthentic == verdict = "invalid" => ~Authentic(chain, began, now)

\* A caller that keeps an accepted chain until is_expired_at says so holds an
\* authentic one all the time, and gives it up at most a second early.
AcceptedUntilExpiry ==
  verdict = "valid" =>
    \A t \in now..(MaxTime + 1) :
      /\ ~IsExpiredAt(chain, t) => Authentic(chain, now, t)
      /\ IsExpiredAt(chain, t) => ~Authentic(chain, now, t + 1)

\* What the entities that play by the rules sign: statements of their own, that
\* list only keys of the entity they are about.
SignedHonestly(jwt) ==
  Owner[jwt.key] \in Honest =>
    /\ jwt.iss = Owner[jwt.key]
    /\ \A j \in DOMAIN jwt.jwks : Owner[jwt.jwks[j].key] = jwt.sub

AnchorKeysAreItsOwn(c) ==
  \A j \in DOMAIN c[Len(c)].jwks : Owner[c[Len(c)].jwks[j].key] = c[Len(c)].sub

\* The reason to authenticate from the anchor down: if the anchor's keys are
\* its own, and the anchor and every superior on the chain play by the rules,
\* the leaf's configuration was signed by the leaf, whatever the leaf or
\* anybody else put in front of the verifier.
LeafSignedItself ==
  /\ verdict = "valid"
  /\ \A i \in DOMAIN chain : SignedHonestly(chain[i])
  /\ \A i \in 2..Len(chain) : chain[i].iss \in Honest
  /\ AnchorKeysAreItsOwn(chain)
  => Owner[chain[1].key] = chain[1].sub
=============================================================================
