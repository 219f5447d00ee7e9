-------------------------- MODULE TrustChainProofs --------------------------
(***************************************************************************)
(* What TrustChain::try_new accepts and rejects, for chains of any length  *)
(* and any JWTs, keys, clock and leeway.                                   *)
(***************************************************************************)
EXTENDS TrustChain, SequenceTheorems, TLAPS

LEMMA JwtAt ==
  ASSUME TypeOK, NEW i \in DOMAIN chain
  PROVE  /\ chain[i] \in Jwt
         /\ chain[i].sub \in Entities
         /\ chain[i].jwks \in Seq(PublicJwk)
<1>1. chain[i] \in Jwt
  BY ElementOfSeq DEF TypeOK
<1> QED
  BY <1>1 DEF Jwt

LEMMA TypeInit == Init => TypeOK
<1> SUFFICES ASSUME Init PROVE TypeOK
  OBVIOUS
<1>1. chain \in Seq(Jwt)
  BY TrustChainAssumption DEF Init
<1>2. Len(chain) \in Nat
  BY <1>1
<1> QED
  BY <1>1, <1>2, EmptySeq DEF Init, TypeOK

LEMMA DescendKeepsType ==
  ASSUME TypeOK, at \in 1..Len(chain), chain[at].jwks # << >>, Descend
  PROVE  TypeOK'
<1>1. chain[at].sub \in Entities /\ chain[at].jwks \in Seq(PublicJwk)
  BY JwtAt DEF TypeOK
<1> QED
  BY <1>1 DEF TypeOK, Descend

LEMMA TypeNext == TypeOK /\ [Next]_vars => TypeOK'
<1> SUFFICES ASSUME TypeOK, [Next]_vars PROVE TypeOK'
  OBVIOUS
<1>1. CASE Tick
  BY <1>1 DEF Tick, TypeOK
<1>2. CASE Reject
  BY <1>2 DEF Reject, TypeOK
<1>3. CASE CheckAnchor
  <2>1. CASE IsConfigurationOf(chain[at], chain[at].sub, now) /\ Descend
    BY <1>3, <2>1, DescendKeepsType DEF CheckAnchor, IsConfigurationOf, IsCurrent, TypeOK
  <2> QED
    BY <1>2, <1>3, <2>1 DEF CheckAnchor
<1>4. CASE CheckSubordinate
  <2>1. CASE IsLinked(chain[at]) /\ Descend
    BY <1>4, <2>1, DescendKeepsType
       DEF CheckSubordinate, IsLinked, IsStatementAbout, IsCurrent, TypeOK
  <2> QED
    BY <1>2, <1>4, <2>1 DEF CheckSubordinate
<1>5. CASE CheckLeaf
  BY <1>2, <1>5 DEF CheckLeaf, TypeOK
<1>6. CASE UNCHANGED vars
  BY <1>6 DEF vars, TypeOK
<1> QED
  BY <1>1, <1>2, <1>3, <1>4, <1>5, <1>6 DEF Next, RejectShort

\* Every variable has its type, and no JWT below the anchor is checked without
\* keys to check it with.
THEOREM TypeCorrect == Spec => []TypeOK
  BY TypeInit, TypeNext, PTL DEF Spec

-----------------------------------------------------------------------------

\* What was checked of the JWT at place i.
Checked(i) ==
  /\ chain[i].formed /\ chain[i].jwks # << >> /\ IsUnderstood(chain[i])
  /\ HoldsThroughout(chain[i], now, began)
  /\ i < Len(chain) => NamedKeySigned(chain[i], chain[i + 1].jwks)
  /\ 1 < i /\ i < Len(chain) => Links(chain, i)
  /\ i \in {1, Len(chain)} =>
       chain[i].iss = chain[i].sub /\ NamedKeySigned(chain[i], chain[i].jwks)

\* The walk is at the place below the statement that endorses what it carries,
\* and everything above was checked.
WalkInv ==
  /\ verdict = "checking" /\ at < Len(chain) =>
       /\ Len(chain) >= 2
       /\ at >= 1
       /\ entity = chain[at + 1].sub
       /\ keys = chain[at + 1].jwks
  /\ verdict = "checking" => \A i \in (at + 1)..Len(chain) : Checked(i)
  /\ AcceptedIsAuthentic
  /\ RejectedIsNotAuthentic

Inv == TypeOK /\ WalkInv

\* Later, the times of a JWT that was accepted still hold from the beginning.
LEMMA HoldsLater ==
  ASSUME NEW jwt \in Jwt, NEW b \in Int, NEW t \in Int,
         HoldsThroughout(jwt, t, b)
  PROVE  HoldsThroughout(jwt, t + 1, b)
  BY StatementsAssumption DEF HoldsThroughout, Jwt

LEMMA HeldEarlier ==
  ASSUME NEW jwt \in Jwt, NEW b \in Int, NEW t \in Int,
         HoldsThroughout(jwt, b, t + 1)
  PROVE  HoldsThroughout(jwt, b, t)
  BY StatementsAssumption DEF HoldsThroughout, Jwt

\* The time checks of one JWT, made at the time `now`.
LEMMA CurrentHolds ==
  ASSUME TypeOK, NEW i \in DOMAIN chain,
         IsCurrent(chain[i], now), TimesHold(chain[i], now)
  PROVE  HoldsThroughout(chain[i], now, began)
<1>1. chain[i].exp \in Int
  BY JwtAt DEF Jwt
<1> QED
  BY <1>1 DEF TypeOK, IsCurrent, TimesHold, HoldsThroughout

LEMMA HeldCurrent ==
  ASSUME TypeOK, NEW i \in DOMAIN chain,
         chain[i].formed, chain[i].jwks # << >>, HoldsThroughout(chain[i], began, now)
  PROVE  IsCurrent(chain[i], now) /\ TimesHold(chain[i], now)
<1>1. chain[i].exp \in Int /\ chain[i].nbf \in Int /\ chain[i].iat \in Int
  BY JwtAt DEF Jwt
<1> QED
  BY <1>1, StatementsAssumption DEF TypeOK, IsCurrent, TimesHold, HoldsThroughout

LEMMA TickKeepsWalk == Inv /\ Tick => WalkInv'
<1> SUFFICES ASSUME Inv, Tick PROVE WalkInv'
  OBVIOUS
<1>1. now' = now + 1 /\ now \in Int /\ began \in Int
      /\ UNCHANGED <<chain, began, at, entity, keys, verdict>>
  BY DEF Tick, Inv, TypeOK
<1>2. \A i \in DOMAIN chain : Checked(i) => Checked(i)'
  BY <1>1, HoldsLater, JwtAt DEF Checked, Inv
<1>3. \A i \in (at + 1)..Len(chain) : i \in DOMAIN chain
  BY DEF Inv, TypeOK
<1>4. AcceptedIsAuthentic'
  BY <1>1, HoldsLater, JwtAt DEF Inv, WalkInv, AcceptedIsAuthentic, Authentic
<1>5. RejectedIsNotAuthentic'
  BY <1>1, HeldEarlier, JwtAt DEF Inv, WalkInv, RejectedIsNotAuthentic, Authentic
<1> QED
  BY <1>1, <1>2, <1>3, <1>4, <1>5 DEF Inv, WalkInv

\* A JWT that fails its check shows that the chain is not authentic.
LEMMA RejectKeepsWalk ==
  ASSUME Inv, verdict = "checking", Reject, ~Authentic(chain, began, now)
  PROVE  WalkInv'
  BY DEF Inv, WalkInv, Reject, AcceptedIsAuthentic, RejectedIsNotAuthentic

LEMMA DescendKeepsWalk ==
  ASSUME Inv, verdict = "checking", Len(chain) >= 2, 1 < at, at <= Len(chain),
         Checked(at), Descend
  PROVE  WalkInv'
<1>1. /\ at \in 2..Len(chain) /\ at' = at - 1 /\ at' + 1 = at
      /\ UNCHANGED <<chain, began, now, verdict>>
      /\ entity' = chain[at].sub /\ keys' = chain[at].jwks
  BY DEF Inv, TypeOK, Descend
<1>2. \A i \in (at' + 1)..Len(chain) : Checked(i)
  BY <1>1 DEF Inv, WalkInv
<1>3. (\A i \in (at + 1)..Len(chain) : Checked(i))'
  BY <1>1, <1>2 DEF Checked
<1> QED
  BY <1>1, <1>3 DEF Inv, WalkInv, AcceptedIsAuthentic, RejectedIsNotAuthentic

LEMMA AnchorKeepsWalk == Inv /\ CheckAnchor => WalkInv'
<1> SUFFICES ASSUME Inv, CheckAnchor PROVE WalkInv'
  OBVIOUS
<1>1. /\ at \in DOMAIN chain /\ at = Len(chain) /\ Len(chain) >= 2 /\ Len(chain) \in Nat
      /\ verdict = "checking"
  BY DEF CheckAnchor, Inv, TypeOK
<1>2. CASE IsConfigurationOf(chain[at], chain[at].sub, now) /\ Descend
  <2>1. HoldsThroughout(chain[at], now, began)
    BY <1>1, <1>2, CurrentHolds DEF Inv, IsConfigurationOf, Verifies
  <2>2. Checked(at)
    BY <1>1, <1>2, <2>1 DEF Checked, IsConfigurationOf, IsCurrent, Verifies
  <2> QED
    BY <1>1, <1>2, <2>2, DescendKeepsWalk
<1>3. CASE ~IsConfigurationOf(chain[at], chain[at].sub, now) /\ Reject
  <2>1. Authentic(chain, began, now) => IsConfigurationOf(chain[at], chain[at].sub, now)
    BY <1>1, HeldCurrent DEF Inv, Authentic, IsConfigurationOf, Verifies
  <2> QED
    BY <1>1, <1>3, <2>1, RejectKeepsWalk
<1> QED
  BY <1>2, <1>3 DEF CheckAnchor

LEMMA SubordinateKeepsWalk == Inv /\ CheckSubordinate => WalkInv'
<1> SUFFICES ASSUME Inv, CheckSubordinate PROVE WalkInv'
  OBVIOUS
<1>1. /\ at \in DOMAIN chain /\ 1 < at /\ at < Len(chain) /\ Len(chain) \in Nat
      /\ verdict = "checking" /\ Len(chain) >= 2
      /\ entity = chain[at + 1].sub /\ keys = chain[at + 1].jwks
  BY DEF CheckSubordinate, Inv, TypeOK, WalkInv
<1>2. CASE IsLinked(chain[at]) /\ Descend
  <2>1. HoldsThroughout(chain[at], now, began)
    BY <1>1, <1>2, CurrentHolds DEF Inv, IsLinked, IsStatementAbout, Verifies
  <2>2. Checked(at)
    BY <1>1, <1>2, <2>1 DEF Checked, Links, IsLinked, IsStatementAbout, IsCurrent, Verifies
  <2> QED
    BY <1>1, <1>2, <2>2, DescendKeepsWalk
<1>3. CASE ~IsLinked(chain[at]) /\ Reject
  <2>1. Authentic(chain, began, now) => IsLinked(chain[at])
    BY <1>1, HeldCurrent DEF Inv, Authentic, Links, IsLinked, IsStatementAbout, Verifies
  <2> QED
    BY <1>1, <1>3, <2>1, RejectKeepsWalk
<1> QED
  BY <1>2, <1>3 DEF CheckSubordinate

LEMMA LeafKeepsWalk == Inv /\ CheckLeaf => WalkInv'
<1> SUFFICES ASSUME Inv, CheckLeaf PROVE WalkInv'
  OBVIOUS
<1>1. /\ at = 1 /\ 1 \in DOMAIN chain /\ 2 \in DOMAIN chain /\ Len(chain) >= 2
      /\ Len(chain) \in Nat /\ verdict = "checking"
      /\ entity = chain[2].sub /\ keys = chain[2].jwks
      /\ \A i \in 2..Len(chain) : Checked(i)
  BY DEF CheckLeaf, Inv, TypeOK, WalkInv
<1>2. CASE IsEndorsedLeaf(chain[at]) /\ verdict' = "valid"
           /\ UNCHANGED <<chain, began, now, at, entity, keys>>
  <2>1. HoldsThroughout(chain[1], now, began)
    BY <1>1, <1>2, CurrentHolds DEF Inv, IsEndorsedLeaf, IsConfigurationOf, Verifies
  <2>2. Checked(1)
    BY <1>1, <1>2, <2>1 DEF Checked, IsEndorsedLeaf, IsConfigurationOf, IsCurrent, Verifies
  <2>3. \A i \in DOMAIN chain : Checked(i)
    BY <1>1, <2>2 DEF Inv, TypeOK
  <2>4. chain[1].sub = chain[2].sub
    BY <1>1, <1>2 DEF IsEndorsedLeaf
  <2>5. Authentic(chain, now, began)
    BY <1>1, <2>3, <2>4 DEF Authentic, Checked
  <2>6. AcceptedIsAuthentic'
    BY <1>2, <2>5 DEF AcceptedIsAuthentic
  <2> QED
    BY <1>2, <2>6 DEF WalkInv, RejectedIsNotAuthentic
<1>3. CASE ~IsEndorsedLeaf(chain[at]) /\ Reject
  <2>1. Authentic(chain, began, now) => IsEndorsedLeaf(chain[at])
    BY <1>1, HeldCurrent DEF Inv, Authentic, IsEndorsedLeaf, IsConfigurationOf, Verifies
  <2> QED
    BY <1>1, <1>3, <2>1, RejectKeepsWalk
<1> QED
  BY <1>2, <1>3 DEF CheckLeaf

LEMMA WalkNext == Inv /\ [Next]_vars => WalkInv'
<1> SUFFICES ASSUME Inv, [Next]_vars PROVE WalkInv'
  OBVIOUS
<1>1. CASE RejectShort
  <2>1. ~Authentic(chain, began, now)
    BY <1>1 DEF RejectShort, Authentic, Inv, TypeOK
  <2> QED
    BY <1>1, <2>1, RejectKeepsWalk DEF RejectShort
<1>2. CASE UNCHANGED vars
  BY <1>2 DEF vars, Inv, WalkInv, Checked, AcceptedIsAuthentic, RejectedIsNotAuthentic
<1> QED
  BY <1>1, <1>2, TickKeepsWalk, AnchorKeepsWalk, SubordinateKeepsWalk, LeafKeepsWalk DEF Next

LEMMA InvInit == Init => Inv
<1> SUFFICES ASSUME Init PROVE WalkInv
  BY TypeInit DEF Inv
<1>1. Len(chain) \in Nat
  BY TypeInit DEF TypeOK
<1> QED
  BY <1>1 DEF Init, WalkInv, AcceptedIsAuthentic, RejectedIsNotAuthentic

LEMMA InvCorrect == Spec => []Inv
<1>1. Inv /\ [Next]_vars => Inv'
  BY TypeNext, WalkNext DEF Inv
<1> QED
  BY <1>1, InvInit, PTL DEF Spec

\* Whatever JWTs are handed over, what try_new accepts is linked, endorsed from
\* the anchor down and had not expired when it was called.
THEOREM OnlyAuthenticIsAccepted == Spec => []AcceptedIsAuthentic
<1>1. Inv => AcceptedIsAuthentic
  BY DEF Inv, WalkInv
<1> QED
  BY <1>1, InvCorrect, PTL

\* An authentic chain is rejected only when it stops being so meanwhile.
THEOREM NoAuthenticIsRejected == Spec => []RejectedIsNotAuthentic
<1>1. Inv => RejectedIsNotAuthentic
  BY DEF Inv, WalkInv
<1> QED
  BY <1>1, InvCorrect, PTL

LEMMA InvAcceptedUntilExpiry == Inv => AcceptedUntilExpiry
<1> SUFFICES ASSUME Inv, verdict = "valid", NEW t \in now..(MaxTime + 1)
             PROVE  /\ ~IsExpiredAt(chain, t) => Authentic(chain, now, t)
                    /\ IsExpiredAt(chain, t) => ~Authentic(chain, now, t + 1)
  BY DEF AcceptedUntilExpiry
<1>1. Authentic(chain, now, began)
  BY DEF Inv, WalkInv, AcceptedIsAuthentic
<1>2. t \in Int /\ \A i \in DOMAIN chain : chain[i].exp \in Int
  BY JwtAt, TrustChainAssumption DEF Inv, TypeOK, Jwt
<1>3. ASSUME ~IsExpiredAt(chain, t) PROVE Authentic(chain, now, t)
  <2>1. \A i \in DOMAIN chain : chain[i].exp >= t
    BY <1>2, <1>3 DEF IsExpiredAt
  <2>2. \A i \in DOMAIN chain : HoldsThroughout(chain[i], now, t)
    BY <1>1, <2>1 DEF Authentic, HoldsThroughout
  <2> QED
    BY <1>1, <2>2 DEF Authentic
<1>4. ASSUME IsExpiredAt(chain, t) PROVE ~Authentic(chain, now, t + 1)
  <2>1. PICK i \in DOMAIN chain : chain[i].exp <= t
    BY <1>4 DEF IsExpiredAt
  <2>2. ~HoldsThroughout(chain[i], now, t + 1)
    BY <1>2, <2>1 DEF HoldsThroughout
  <2> QED
    BY <2>2 DEF Authentic
<1> QED
  BY <1>3, <1>4

\* is_expired_at says of an accepted chain that it is expired exactly when it is
\* no longer authentic, up to the second of exp itself.
THEOREM ExpiryIsTold == Spec => []AcceptedUntilExpiry
  BY InvCorrect, InvAcceptedUntilExpiry, PTL

-----------------------------------------------------------------------------

\* The anchor's keys are its own, and every superior plays by the rules.
Sound(c) ==
  /\ \A i \in DOMAIN c : SignedHonestly(c[i])
  /\ \A i \in 2..Len(c) : c[i].iss \in Honest
  /\ AnchorKeysAreItsOwn(c)

OwnedBy(jwks, e) == \A j \in DOMAIN jwks : Owner[jwks[j].key] = e

\* The keys carried down the chain belong to the entity they were endorsed for.
OwnerInv ==
  /\ verdict = "checking" /\ at < Len(chain) /\ Sound(chain) => OwnedBy(keys, entity)
  /\ LeafSignedItself

LEMMA SignerIsOwner ==
  ASSUME NEW jwt, NEW jwks, NEW e, NamedKeySigned(jwt, jwks), OwnedBy(jwks, e)
  PROVE  Owner[jwt.key] = e
  BY DEF NamedKeySigned, OwnedBy

LEMMA OwnerNext == Inv /\ OwnerInv /\ [Next]_vars => OwnerInv'
<1> SUFFICES ASSUME Inv, OwnerInv, [Next]_vars PROVE OwnerInv'
  OBVIOUS
<1>1. CASE UNCHANGED <<chain, at, entity, keys, verdict>>
  BY <1>1 DEF OwnerInv, Sound, AnchorKeysAreItsOwn, OwnedBy, SignedHonestly, LeafSignedItself
<1>2. CASE Reject
  BY <1>2 DEF Reject, OwnerInv, LeafSignedItself
<1>3. ASSUME verdict = "checking", at \in 2..Len(chain), Descend,
             Sound(chain) => OwnedBy(chain[at].jwks, chain[at].sub)
      PROVE  OwnerInv'
  BY <1>3 DEF Descend, OwnerInv, Sound, AnchorKeysAreItsOwn, OwnedBy, SignedHonestly,
              LeafSignedItself
<1>4. CASE CheckAnchor
  <2>1. at \in 2..Len(chain) /\ at = Len(chain) /\ verdict = "checking"
    BY <1>4 DEF CheckAnchor, Inv, TypeOK
  <2>2. Sound(chain) => OwnedBy(chain[at].jwks, chain[at].sub)
    BY <2>1 DEF Sound, AnchorKeysAreItsOwn, OwnedBy
  <2> QED
    BY <1>2, <1>3, <1>4, <2>1, <2>2 DEF CheckAnchor
<1>5. CASE CheckSubordinate
  <2>1. at \in 2..Len(chain) /\ at < Len(chain) /\ at \in DOMAIN chain /\ verdict = "checking"
    BY <1>5 DEF CheckSubordinate, Inv, TypeOK
  <2>2. CASE IsLinked(chain[at]) /\ Descend
    <3> SUFFICES ASSUME Sound(chain) PROVE OwnedBy(chain[at].jwks, chain[at].sub)
      BY <1>3, <2>1, <2>2
    <3>1. NamedKeySigned(chain[at], keys) /\ chain[at].iss = entity
      BY <2>2 DEF IsLinked, IsStatementAbout, Verifies
    <3>2. OwnedBy(keys, entity)
      BY <2>1 DEF OwnerInv
    <3>3. Owner[chain[at].key] = chain[at].iss
      BY <3>1, <3>2, SignerIsOwner
    <3> QED
      BY <2>1, <3>3 DEF Sound, SignedHonestly, OwnedBy
  <2> QED
    BY <1>2, <1>5, <2>2 DEF CheckSubordinate
<1>6. CASE CheckLeaf
  <2>1. CASE /\ IsEndorsedLeaf(chain[at])
             /\ verdict' = "valid"
             /\ UNCHANGED <<chain, began, now, at, entity, keys>>
    <3>1. at = 1 /\ at < Len(chain) /\ verdict = "checking"
      BY <1>6 DEF CheckLeaf
    <3>2. NamedKeySigned(chain[1], keys) /\ chain[1].sub = entity
      BY <2>1, <3>1 DEF IsEndorsedLeaf, Verifies
    <3>3. Sound(chain) => Owner[chain[1].key] = chain[1].sub
      BY <3>1, <3>2, SignerIsOwner DEF OwnerInv
    <3> QED
      BY <2>1, <3>3 DEF OwnerInv, LeafSignedItself, Sound
  <2> QED
    BY <1>2, <1>6, <2>1 DEF CheckLeaf
<1> QED
  BY <1>1, <1>2, <1>4, <1>5, <1>6 DEF Next, Tick, RejectShort, vars

\* Trust flows down from the anchor: behind superiors that play by the rules,
\* the leaf's configuration was signed by the leaf and nobody else.
THEOREM LeafIsItself == Spec => []LeafSignedItself
<1>1. Init => OwnerInv
  <2> SUFFICES ASSUME Init PROVE OwnerInv
    OBVIOUS
  <2>1. at = Len(chain) /\ Len(chain) \in Nat /\ verdict = "checking"
    BY TypeInit DEF Init, TypeOK
  <2> QED
    BY <2>1 DEF OwnerInv, LeafSignedItself
<1>2. OwnerInv => LeafSignedItself
  BY DEF OwnerInv
<1> QED
  BY <1>1, <1>2, OwnerNext, InvCorrect, PTL DEF Spec
=============================================================================
