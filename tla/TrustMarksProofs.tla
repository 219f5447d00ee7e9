-------------------------- MODULE TrustMarksProofs --------------------------
(***************************************************************************)
(* What a call decides about Trust Marks is right for any number of them,  *)
(* any anchor, and however often the issuers replace their keys.           *)
(***************************************************************************)
EXTENDS TrustMarks, TLAPS

\* The keys that the Trust Marks of an issuer are verified with.
KnownKeys(e) == IF e = Anchor THEN AnchorKeys ELSE issuerKeys[e]

\* What is known of an issuer was authenticated, and stays what it is.
KeysInv ==
  /\ \A e \in DOMAIN issuerKeys \ {Anchor} : issuerKeys[e] \in Authenticated(e)
  /\ chainKeys # None => Subject \in DOMAIN issuerKeys
  /\ phase = "verifying" =>
       /\ Entry.iss \in DOMAIN issuerKeys \cup {Anchor} /\ keys = KnownKeys(Entry.iss)
       /\ MayIssue(Entry.iss, Entry.type)
  /\ phase = "discovering" =>
       /\ Entry.iss \notin DOMAIN issuerKeys \cup {Anchor}
       /\ MayIssue(Entry.iss, Entry.type)

\* Whatever verified did so with what is known of its issuer.
VerifiedInv ==
  \A i \in verified :
    /\ entries[i].iss \in DOMAIN issuerKeys \cup {Anchor}
    /\ entries[i].key \in KnownKeys(entries[i].iss)

CallInv ==
  /\ TypeOK /\ KeysInv /\ VerifiedInv
  /\ VerifiedWereTrusted /\ RejectionsAreTrue /\ OnlyRecognizedIssuersAreAsked

-----------------------------------------------------------------------------
(* The checks, and what they mean.                                         *)

LEMMA Strings ==
  /\ None \notin {"NotATrustMark", "SubjectMismatch", "IssuedInFuture", "Expired",
                  "InvalidSignature", "Invalid", "TypeNotRecognized", "IssuerNotRecognized",
                  "DelegationMissing", "InvalidDelegation", "NoAnchor", "NoChain"}
  /\ Leeway \in Int
BY NoRejection, TrustMarksAssumption DEF Rejections, Unreachable

LEMMA ValidIsCurrent ==
  ASSUME NEW jwt, jwt.iat \in Int, jwt.exp \in Int \cup {None}, NEW t \in Int
  PROVE  IsValid(jwt, t) <=> Current(jwt, t)
<1>1. CASE jwt.exp = None
  BY <1>1, Strings DEF IsValid, IsEarly, HasExpired, Current
<1>2. CASE jwt.exp # None
  <2>1. jwt.exp \in Int
    BY <1>2
  <2> QED
    BY <1>2, <2>1, Strings DEF IsValid, IsEarly, HasExpired, Current
<1> QED
  BY <1>1, <1>2

LEMMA DelegationIsConsent ==
  ASSUME NEW mark \in TrustMark, NEW t \in Int
  PROVE  DelegationFault(mark, t) = None <=> OwnerConsents(mark, t)
<1>1. CASE mark.delegation = None
  BY <1>1, Strings DEF DelegationFault, OwnerConsents
<1>2. CASE mark.delegation # None
  <2>1. mark.delegation.iat \in Int /\ mark.delegation.exp \in Int \cup {None}
    BY <1>2 DEF TrustMark, Delegation
  <2>2. IsValid(mark.delegation, t) <=> Current(mark.delegation, t)
    BY <2>1, ValidIsCurrent
  <2> QED
    BY <1>2, <2>2, Strings DEF DelegationFault, IsDelegated, OwnerConsents
<1> QED
  BY <1>1, <1>2

LEMMA RecognizedMayIssue ==
  ASSUME NEW mark
  PROVE  RecognizedFault(mark) = None <=> MayIssue(mark.iss, mark.type)
BY Strings DEF RecognizedFault, MayIssue

LEMMA UnverifiedMeans ==
  ASSUME NEW mark, NEW t
  PROVE  UnverifiedFault(mark, t) = None <=>
           mark.formed /\ mark.sub = Subject /\ ~IsEarly(mark, t) /\ ~HasExpired(mark, t)
BY Strings DEF UnverifiedFault

LEMMA VerifiedIsAcceptable ==
  ASSUME NEW mark \in TrustMark, NEW ks, NEW t \in Int
  PROVE  Fault(mark, ks, t) = None <=> Acceptable(mark, t) /\ mark.key \in ks
<1>1. mark.iat \in Int /\ mark.exp \in Int \cup {None}
  BY DEF TrustMark
<1>2. IsValid(mark, t) <=> Current(mark, t)
  BY <1>1, ValidIsCurrent
<1>3. IsValid(mark, t) => ~IsEarly(mark, t) /\ ~HasExpired(mark, t)
  BY DEF IsValid
<1> QED
  BY <1>2, <1>3, DelegationIsConsent, RecognizedMayIssue, UnverifiedMeans, Strings
  DEF Fault, Acceptable

\* What the checks without keys reject, they reject for what is wrong with it.
LEMMA UnverifiedIsTrue ==
  ASSUME NEW mark \in TrustMark, NEW ks, NEW t \in Int, UnverifiedFault(mark, t) # None
  PROVE  /\ UnverifiedFault(mark, t) \in Rejections
         /\ IsTrue(UnverifiedFault(mark, t), mark, ks, t)
<1>1. mark.iat \in Int
  BY DEF TrustMark
<1>2. IsEarly(mark, t) => mark.iat - t > Leeway
  BY <1>1, Strings DEF IsEarly
<1>3. HasExpired(mark, t) => mark.exp # None /\ t - mark.exp > Leeway
  <2>1. mark.exp # None => mark.exp \in Int
    BY DEF TrustMark
  <2> QED
    BY <2>1, Strings DEF HasExpired
<1> QED
  BY <1>2, <1>3 DEF UnverifiedFault, IsTrue, Rejections

LEMMA UnrecognizedIsTrue ==
  ASSUME NEW mark, NEW ks, NEW t, RecognizedFault(mark) # None
  PROVE  RecognizedFault(mark) \in Rejections /\ IsTrue(RecognizedFault(mark), mark, ks, t)
BY DEF RecognizedFault, IsTrue, Rejections, MayIssue

LEMMA UndelegatedIsTrue ==
  ASSUME NEW mark \in TrustMark, NEW ks, NEW t \in Int, mark.key \in ks,
         MayIssue(mark.iss, mark.type), DelegationFault(mark, t) # None
  PROVE  DelegationFault(mark, t) \in Rejections /\ IsTrue(DelegationFault(mark, t), mark, ks, t)
<1>1. ~OwnerConsents(mark, t)
  BY DelegationIsConsent
<1>2. DelegationFault(mark, t) \in {"DelegationMissing", "InvalidDelegation"}
  BY DEF DelegationFault
<1>3. CASE DelegationFault(mark, t) = "DelegationMissing"
  BY <1>3, Strings DEF DelegationFault, IsTrue, IsOwned, Rejections
<1>4. CASE DelegationFault(mark, t) = "InvalidDelegation"
  <2>1. mark.delegation # None
    BY <1>4, Strings DEF DelegationFault
  <2> QED
    BY <1>1, <1>4, <2>1 DEF IsTrue, Rejections
<1> QED
  BY <1>2, <1>3, <1>4

LEMMA FaultIsTrue ==
  ASSUME NEW mark \in TrustMark, NEW ks, NEW t \in Int, MayIssue(mark.iss, mark.type),
         Fault(mark, ks, t) # None
  PROVE  Fault(mark, ks, t) \in Rejections /\ IsTrue(Fault(mark, ks, t), mark, ks, t)
<1>1. RecognizedFault(mark) = None
  BY RecognizedMayIssue
<1>2. CASE UnverifiedFault(mark, t) # None
  BY <1>2, UnverifiedIsTrue DEF Fault
<1>3. CASE UnverifiedFault(mark, t) = None
  <2>1. CASE mark.key \notin ks
    BY <1>3, <2>1 DEF Fault, IsTrue, Rejections
  <2>2. CASE mark.key \in ks /\ ~IsValid(mark, t)
    <3>1. Fault(mark, ks, t) = "Invalid"
      BY <1>3, <2>2 DEF Fault
    <3>2. mark.exp # None /\ ~(mark.exp > mark.iat)
      BY <1>3, <2>2, UnverifiedMeans DEF IsValid
    <3>3. mark.exp \in Int /\ mark.iat \in Int
      BY <3>2 DEF TrustMark
    <3> QED
      BY <2>2, <3>1, <3>2, <3>3 DEF IsTrue, Rejections
  <2>3. CASE mark.key \in ks /\ IsValid(mark, t)
    <3>1. Fault(mark, ks, t) = DelegationFault(mark, t)
      BY <1>1, <1>3, <2>3 DEF Fault
    <3> QED
      BY <2>3, <3>1, UndelegatedIsTrue
  <2> QED
    BY <2>1, <2>2, <2>3
<1> QED
  BY <1>2, <1>3

-----------------------------------------------------------------------------
(* One Trust Mark after the other.                                         *)

LEMMA Times ==
  ASSUME TypeOK
  PROVE  began \in Int /\ now \in Int /\ began <= now /\ now \in began..now
<1>1. began \in 0..now /\ now \in 0..MaxTime
  BY DEF TypeOK
<1> QED
  BY <1>1, TrustMarksAssumption

LEMMA EntryIsTrustMark ==
  ASSUME TypeOK, phase # "done"
  PROVE  /\ Entry \in TrustMark /\ Entry.iss \in Entities
         /\ at \in 1..Len(entries) /\ Len(entries) \in Nat
         /\ at \notin verified \cup failures
<1>1. entries \in Seq(TrustMark) /\ at \in DOMAIN entries
  BY DEF TypeOK, Places
<1>2. Entry \in TrustMark /\ at \in 1..Len(entries) /\ Len(entries) \in Nat
  BY <1>1 DEF Entry
<1>3. verified \cup failures = 1..(at - 1)
  BY DEF TypeOK
<1> QED
  BY <1>2, <1>3 DEF TrustMark

\* What failed was presented.
LEMMA PlacesOfFailures ==
  ASSUME TypeOK
  PROVE  \A i \in failures : i \in Places /\ entries[i] \in TrustMark
<1>1. entries \in Seq(TrustMark) /\ (phase # "done" => at \in 1..Len(entries))
  BY DEF TypeOK, Places
<1>2. Places = 1..Len(entries) /\ Len(entries) \in Nat
  BY <1>1 DEF Places
<1>3. failures \subseteq Places
  BY <1>1, <1>2 DEF TypeOK
<1> QED
  BY <1>1, <1>2, <1>3

\* A decision moves on to the next place and forgets nothing.
LEMMA DecideOutcome ==
  ASSUME NEW error, Decide(error)
  PROVE  /\ error = None => verified' = verified \cup {at} /\ failures' = failures
         /\ error # None => verified' = verified /\ failures' = failures \cup {at}
         /\ error # None => errors'[at] = error
         /\ \A i \in failures : i # at \/ error = None => errors'[i] = errors[i]
BY DEF Decide, failures

LEMMA DecidePlaces ==
  ASSUME TypeOK, phase # "done", NEW error, Decide(error), entries' = entries
  PROVE  /\ phase' \in {"screening", "done"}
         /\ phase' # "done" => at' \in Places'
         /\ phase' = "done" => at' = Len(entries') + 1
         /\ verified' \cup failures' = IF phase' = "done" THEN Places' ELSE 1..(at' - 1)
         /\ verified' \cap failures' = {}
         /\ keys' = {}
<1>1. at \in 1..Len(entries) /\ Len(entries) \in Nat /\ at \notin verified \cup failures
  BY EntryIsTrustMark
<1>2. entries \in Seq(TrustMark) /\ verified \cap failures = {}
      /\ verified \cup failures = 1..(at - 1)
  BY DEF TypeOK
<1>3. Places' = 1..Len(entries)
  BY <1>2 DEF Places
<1>4. verified' \cup failures' = (1..(at - 1)) \cup {at} /\ at' = at + 1
  BY <1>2, DecideOutcome DEF Decide
<1>5. (1..(at - 1)) \cup {at} = 1..at /\ at' - 1 = at
  BY <1>1, <1>4
<1>6. verified' \cap failures' = {}
  BY <1>1, <1>2, DecideOutcome
<1>7. CASE at = Len(entries)
  BY <1>1, <1>3, <1>4, <1>5, <1>6, <1>7 DEF Decide
<1>8. CASE at # Len(entries)
  <2>1. at' \in 1..Len(entries)
    BY <1>1, <1>4, <1>8
  <2> QED
    BY <1>3, <1>4, <1>5, <1>6, <1>8, <2>1 DEF Decide
<1> QED
  BY <1>7, <1>8

-----------------------------------------------------------------------------
(* Every step keeps the invariant.                                         *)

LEMMA InitInv == Init => CallInv
<1> SUFFICES ASSUME Init PROVE CallInv
  OBVIOUS
<1>1. entries \in Seq(TrustMark) /\ failures = {}
  BY TrustMarksAssumption DEF Init, failures
<1>2. TypeOK
  <2>1. began \in 0..now /\ now \in 0..MaxTime
    BY TrustMarksAssumption DEF Init
  <2>2. endorsed \in [Entities -> SUBSET Keys]
    BY TrustMarksAssumption DEF Init
  <2>3. phase # "done" => at \in Places
    <3>1. chainKeys = None => Len(entries) = 1
      BY TrustMarksAssumption DEF Init
    <3>2. chainKeys # None /\ phase # "done" => entries # << >>
      BY DEF Init
    <3>3. Len(entries) \in Nat /\ (Len(entries) = 0 => entries = << >>)
      BY <1>1
    <3> QED
      BY <1>1, <3>1, <3>2, <3>3 DEF Init, Places
  <2>4. verified \cup failures = IF phase = "done" THEN Places ELSE 1..(at - 1)
    BY <1>1 DEF Init, Places
  <2>5. DOMAIN issuerKeys \subseteq Entities
    BY TrustMarksAssumption DEF Init, Mapped
  <2> QED
    BY <1>1, <2>1, <2>2, <2>3, <2>4, <2>5 DEF Init, TypeOK
<1>3. KeysInv
  <2>1. CASE chainKeys = None
    BY <2>1 DEF Init, KeysInv
  <2>2. CASE chainKeys # None
    BY <2>2 DEF Init, KeysInv, Mapped, Authenticated
  <2> QED
    BY <2>1, <2>2
<1> QED
  BY <1>2, <1>3
  DEF Init, CallInv, VerifiedInv, VerifiedWereTrusted, RejectionsAreTrue, failures,
      OnlyRecognizedIssuersAreAsked

\* A Trust Mark that failed, and why.
LEMMA FailedInv ==
  ASSUME CallInv, phase # "done", NEW error \in Rejections \cup Unreachable, Decide(error),
         UNCHANGED <<now, endorsed, chainKeys, entries, issuerKeys, requested, began, views>>,
         \/ error \in Unreachable
         \/ \E ks \in Authenticated(Entry.iss) : IsTrue(error, Entry, ks, now)
  PROVE  CallInv'
<1> USE DEF CallInv
<1>1. /\ verified' = verified /\ failures' = failures \cup {at} /\ errors'[at] = error
      /\ \A i \in failures : i # at => errors'[i] = errors[i]
  BY DecideOutcome, NoRejection
<1>2. TypeOK'
  BY <1>1, DecidePlaces DEF TypeOK, Places
<1>3. KeysInv'
  BY DecidePlaces DEF KeysInv, Authenticated
<1>4. VerifiedInv' /\ VerifiedWereTrusted' /\ OnlyRecognizedIssuersAreAsked'
  BY <1>1 DEF VerifiedInv, KnownKeys, VerifiedWereTrusted, OnlyRecognizedIssuersAreAsked,
              Authenticated
<1>5. RejectionsAreTrue'
  <2>1. ASSUME NEW i \in failures', errors'[i] \notin Unreachable
        PROVE  \E t \in began..now, ks \in Authenticated(entries[i].iss) :
                 IsTrue(errors'[i], entries[i], ks, t)
    <3>1. CASE i = at
      BY <1>1, <2>1, <3>1, Times DEF Entry
    <3>2. CASE i # at
      BY <1>1, <2>1, <3>2 DEF RejectionsAreTrue, missed
    <3> QED
      BY <3>1, <3>2
  <2>2. \A i \in failures' : i \notin missed' => errors'[i] \notin Unreachable
    BY DEF missed
  <2> QED
    BY <2>1, <2>2 DEF RejectionsAreTrue, Authenticated
<1> QED
  BY <1>2, <1>3, <1>4, <1>5

LEMMA FetchAnchorInv ==
  ASSUME CallInv, FetchAnchor
  PROVE  CallInv'
BY DEF FetchAnchor, CallInv, TypeOK, Places, KeysInv, Entry, KnownKeys, Authenticated, VerifiedInv,
       VerifiedWereTrusted, RejectionsAreTrue, failures, missed, OnlyRecognizedIssuersAreAsked

LEMMA MissAnchorInv ==
  ASSUME CallInv, MissAnchor
  PROVE  CallInv'
BY FailedInv DEF MissAnchor, Unreachable

\* There is a set of keys that is authenticated for every issuer.
LEMMA SomeKeysAuthenticated ==
  ASSUME TypeOK, NEW e \in Entities
  PROVE  Authenticated(e) # {}
BY DEF TypeOK, Authenticated

LEMMA RejectInv ==
  ASSUME CallInv, Reject
  PROVE  CallInv'
<1>1. phase # "done" /\ Decide(ScreeningFault) /\ ScreeningFault # None
  BY DEF Reject
<1>2. Entry \in TrustMark /\ Entry.iss \in Entities /\ now \in Int
  BY <1>1, EntryIsTrustMark, Times DEF CallInv
<1>3. PICK ks \in Authenticated(Entry.iss) : TRUE
  BY <1>2, SomeKeysAuthenticated DEF CallInv
<1>4. ScreeningFault \in Rejections /\ IsTrue(ScreeningFault, Entry, ks, now)
  BY <1>1, <1>2, UnverifiedIsTrue, UnrecognizedIsTrue DEF ScreeningFault
<1> QED
  BY <1>1, <1>3, <1>4, FailedInv DEF Reject

LEMMA MissChainInv ==
  ASSUME CallInv, MissChain
  PROVE  CallInv'
BY FailedInv DEF MissChain, Unreachable

LEMMA VerifyInv ==
  ASSUME CallInv, Verify
  PROVE  CallInv'
<1> USE DEF CallInv
<1>1. /\ phase = "verifying" /\ Decide(Fault(Entry, keys, now))
      /\ UNCHANGED <<now, endorsed, chainKeys, entries, issuerKeys, requested, began, views>>
      /\ Entry \in TrustMark
  BY EntryIsTrustMark DEF Verify
<1>2. /\ Entry.iss \in DOMAIN issuerKeys \cup {Anchor}
      /\ keys = KnownKeys(Entry.iss) /\ keys \in Authenticated(Entry.iss)
      /\ MayIssue(Entry.iss, Entry.type)
  BY <1>1 DEF KeysInv, KnownKeys, Authenticated
<1>3. Fault(Entry, keys, now) = None <=> Acceptable(Entry, now) /\ Entry.key \in keys
  BY <1>1, Times, VerifiedIsAcceptable
<1>4. CASE Fault(Entry, keys, now) # None
  <2>1. Fault(Entry, keys, now) \in Rejections
        /\ IsTrue(Fault(Entry, keys, now), Entry, keys, now)
    BY <1>1, <1>2, <1>4, Times, FaultIsTrue
  <2> QED
    BY <1>1, <1>2, <2>1, FailedInv
<1>5. CASE Fault(Entry, keys, now) = None
  <2>1. Decide(None)
    BY <1>1, <1>5
  <2>2. verified' = verified \cup {at} /\ failures' = failures /\ errors' = errors
    BY <2>1, DecideOutcome DEF Decide
  <2>3. TypeOK'
    BY <1>1, <2>1, <2>2, DecidePlaces DEF TypeOK, Places
  <2>4. KeysInv'
    BY <1>1, <2>1, DecidePlaces DEF KeysInv, Authenticated
  <2>5. VerifiedInv'
    BY <1>1, <1>2, <1>3, <1>5, <2>2 DEF VerifiedInv, KnownKeys, Entry
  <2>6. VerifiedWereTrusted'
    <3>1. ASSUME NEW i \in verified'
          PROVE  /\ \E t \in began..now : Acceptable(entries[i], t)
                 /\ \E ks \in Authenticated(entries[i].iss) : entries[i].key \in ks
      BY <1>2, <1>3, <1>5, <2>2, <3>1, Times DEF VerifiedWereTrusted, Entry
    <3> QED
      BY <1>1, <3>1 DEF VerifiedWereTrusted, Authenticated
  <2>7. RejectionsAreTrue' /\ OnlyRecognizedIssuersAreAsked'
    BY <1>1, <2>2 DEF RejectionsAreTrue, missed, OnlyRecognizedIssuersAreAsked, Authenticated
  <2> QED
    BY <2>3, <2>4, <2>5, <2>6, <2>7
<1> QED
  BY <1>4, <1>5

LEMMA UseKnownKeysInv ==
  ASSUME CallInv, UseKnownKeys
  PROVE  CallInv'
<1> USE DEF CallInv, UseKnownKeys
<1>1. keys' \in SUBSET Keys
  <2>1. CASE Entry.iss = Anchor
    BY <2>1, TrustMarksAssumption
  <2>2. CASE Entry.iss # Anchor /\ Entry.iss \in DOMAIN issuerKeys
    <3>1. Entry.iss \in Entities /\ issuerKeys[Entry.iss] \in Authenticated(Entry.iss)
      BY <2>2, EntryIsTrustMark DEF KeysInv
    <3>2. keys' = issuerKeys[Entry.iss]
      BY <2>2
    <3> QED
      BY <3>1, <3>2, <2>2, TrustMarksAssumption DEF TypeOK, Authenticated
  <2> QED
    BY <2>1, <2>2
<1>2. TypeOK'
  BY <1>1 DEF TypeOK, Places, failures
<1>3. KeysInv'
  BY RecognizedMayIssue DEF KeysInv, KnownKeys, Authenticated, Entry, ScreeningFault
<1>4. VerifiedInv' /\ VerifiedWereTrusted' /\ RejectionsAreTrue'
      /\ OnlyRecognizedIssuersAreAsked'
  BY DEF VerifiedInv, KnownKeys, VerifiedWereTrusted, RejectionsAreTrue, failures, missed,
         OnlyRecognizedIssuersAreAsked, Authenticated
<1> QED
  BY <1>2, <1>3, <1>4

LEMMA RequestChainInv ==
  ASSUME CallInv, RequestChain
  PROVE  CallInv'
<1> USE DEF CallInv, RequestChain
<1>1. at \in Places /\ Entry.sub = Subject /\ MayIssue(Entry.iss, Entry.type)
  BY RecognizedMayIssue, UnverifiedMeans DEF TypeOK, ScreeningFault
<1>2. TypeOK'
  BY <1>1 DEF TypeOK, Places, failures
<1>3. KeysInv'
  BY <1>1 DEF KeysInv, Authenticated, Entry
<1>4. VerifiedInv' /\ VerifiedWereTrusted' /\ RejectionsAreTrue'
  BY DEF VerifiedInv, KnownKeys, VerifiedWereTrusted, RejectionsAreTrue, failures, missed, Authenticated
<1>5. OnlyRecognizedIssuersAreAsked'
  BY <1>1 DEF OnlyRecognizedIssuersAreAsked, Entry, KeysInv
<1> QED
  BY <1>2, <1>3, <1>4, <1>5

LEMMA FindChainInv ==
  ASSUME CallInv, FindChain
  PROVE  CallInv'
<1> USE DEF CallInv, FindChain
<1>1. /\ Entry.iss \in Entities /\ Entry.iss \notin DOMAIN issuerKeys \cup {Anchor}
      /\ chainKeys # None => Entry.iss # Subject
  BY EntryIsTrustMark DEF KeysInv
<1>2. keys' \in SUBSET Keys /\ keys' \in Authenticated(Entry.iss)
  BY <1>1 DEF TypeOK, Authenticated
<1>3. /\ DOMAIN issuerKeys' = DOMAIN issuerKeys \cup {Entry.iss}
      /\ issuerKeys'[Entry.iss] = keys'
      /\ \A e \in DOMAIN issuerKeys : issuerKeys'[e] = issuerKeys[e]
  BY <1>1
<1>4. TypeOK'
  BY <1>1, <1>2, <1>3 DEF TypeOK, Places, failures
<1>5. KeysInv'
  BY <1>1, <1>2, <1>3 DEF KeysInv, KnownKeys, Authenticated, Entry
<1>6. VerifiedInv'
  BY <1>1, <1>3 DEF VerifiedInv, KnownKeys
<1>7. VerifiedWereTrusted' /\ RejectionsAreTrue' /\ OnlyRecognizedIssuersAreAsked'
  BY DEF VerifiedWereTrusted, RejectionsAreTrue, failures, missed, OnlyRecognizedIssuersAreAsked, Authenticated
<1> QED
  BY <1>4, <1>5, <1>6, <1>7

\* Time passes and keys are replaced: more moments and more key sets.
LEMMA EnvironmentInv ==
  ASSUME CallInv, Tick \/ \E e \in Entities : ReplaceKeys(e)
  PROVE  CallInv'
<1> USE DEF CallInv
<1>1. UNCHANGED <<chainKeys, entries, progress, began>>
  BY DEF Tick, ReplaceKeys
<1>2. now' \in 0..MaxTime /\ began' \in 0..now' /\ began..now \subseteq began'..now'
  <2>1. began \in 0..now /\ now \in 0..MaxTime
    BY DEF TypeOK
  <2>2. now' = now \/ (now < MaxTime /\ now' = now + 1)
    BY DEF Tick, ReplaceKeys
  <2> QED
    BY <1>1, <2>1, <2>2, TrustMarksAssumption
<1>3. /\ endorsed' \in [Entities -> SUBSET Keys]
      /\ views' \in [Entities -> SUBSET SUBSET Keys]
      /\ \A e \in Entities : endorsed'[e] \in views'[e] /\ views'[e] \subseteq KeySets[e]
      /\ \A e \in Entities : views[e] \subseteq views'[e]
  <2>1. CASE Tick
    BY <2>1 DEF Tick, TypeOK
  <2>2. ASSUME NEW e \in Entities, ReplaceKeys(e)
        PROVE  /\ endorsed' \in [Entities -> SUBSET Keys]
               /\ views' \in [Entities -> SUBSET SUBSET Keys]
               /\ \A f \in Entities : endorsed'[f] \in views'[f] /\ views'[f] \subseteq KeySets[f]
               /\ \A f \in Entities : views[f] \subseteq views'[f]
    BY <2>2, TrustMarksAssumption DEF ReplaceKeys, TypeOK
  <2> QED
    BY <2>1, <2>2
<1>4. \A e \in Entities : Authenticated(e) \subseteq Authenticated(e)'
  <2> SUFFICES ASSUME NEW e \in Entities PROVE Authenticated(e) \subseteq Authenticated(e)'
    OBVIOUS
  <2>1. chainKeys' = chainKeys /\ views[e] \subseteq views'[e]
    BY <1>1, <1>3
  <2>2. CASE e = Anchor \/ (e = Subject /\ chainKeys # None)
    BY <2>1, <2>2 DEF Authenticated
  <2>3. CASE e # Anchor /\ ~(e = Subject /\ chainKeys # None)
    BY <2>1, <2>3 DEF Authenticated
  <2> QED
    BY <2>2, <2>3
<1>5. \A i \in Places : entries[i].iss \in Entities
  <2>1. \A i \in Places : entries[i] \in TrustMark
    BY DEF TypeOK, Places
  <2> QED
    BY <2>1 DEF TrustMark
<1>6. verified \cup failures \subseteq Places
  <2>1. entries \in Seq(TrustMark) /\ (phase # "done" => at \in 1..Len(entries))
    BY DEF TypeOK, Places
  <2>2. Places = 1..Len(entries) /\ Len(entries) \in Nat
    BY <2>1 DEF Places
  <2> QED
    BY <2>1, <2>2 DEF TypeOK
<1>7. TypeOK'
  BY <1>1, <1>2, <1>3 DEF TypeOK, Places, failures, progress
<1>8. KeysInv'
  BY <1>1, <1>4 DEF KeysInv, KnownKeys, Entry, progress, TypeOK
<1>9. VerifiedInv' /\ OnlyRecognizedIssuersAreAsked'
  BY <1>1 DEF VerifiedInv, KnownKeys, OnlyRecognizedIssuersAreAsked, progress
<1>10. VerifiedWereTrusted'
  BY <1>1, <1>2, <1>4, <1>5, <1>6 DEF VerifiedWereTrusted, progress
<1>11. RejectionsAreTrue'
  BY <1>1, <1>2, <1>4, <1>5, <1>6 DEF RejectionsAreTrue, failures, missed, progress
<1> QED
  BY <1>7, <1>8, <1>9, <1>10, <1>11

LEMMA NextInv ==
  ASSUME CallInv, [Next]_vars
  PROVE  CallInv'
<1>1. CASE UNCHANGED vars
  BY <1>1
  DEF vars, progress, CallInv, TypeOK, Places, KeysInv, KnownKeys, Entry, VerifiedInv,
      Authenticated, VerifiedWereTrusted, RejectionsAreTrue, failures, missed,
      OnlyRecognizedIssuersAreAsked
<1> QED
  BY <1>1, RejectInv, UseKnownKeysInv, RequestChainInv, FindChainInv, MissChainInv, VerifyInv,
     EnvironmentInv, FetchAnchorInv, MissAnchorInv
  DEF Next

\* What is known of an issuer is the view that its verified Trust Marks share.
LEMMA KnownIsOneView ==
  ASSUME CallInv
  PROVE  OneViewPerIssuer
<1> SUFFICES ASSUME NEW e \in Entities
             PROVE  \E ks \in Authenticated(e) :
                      \A i \in verified : entries[i].iss = e => entries[i].key \in ks
  BY DEF OneViewPerIssuer
<1>1. CASE e = Anchor
  BY <1>1 DEF CallInv, VerifiedInv, KnownKeys, Authenticated
<1>2. CASE e # Anchor /\ e \in DOMAIN issuerKeys
  BY <1>2 DEF CallInv, VerifiedInv, KnownKeys, KeysInv
<1>3. CASE e # Anchor /\ e \notin DOMAIN issuerKeys
  <2>1. \A i \in verified : entries[i].iss # e
    BY <1>3 DEF CallInv, VerifiedInv
  <2>2. endorsed[e] \in Authenticated(e)
    BY <1>3 DEF CallInv, TypeOK, KeysInv, Authenticated
  <2> QED
    BY <2>1, <2>2
<1> QED
  BY <1>1, <1>2, <1>3

\* Whatever is wrong with a Trust Mark makes it unacceptable or badly signed.
LEMMA TrueRejectionsAreRight ==
  ASSUME CallInv
  PROVE  FailuresWereNotTrusted
<1> SUFFICES ASSUME NEW i \in failures \ missed
             PROVE  \/ \E t \in began..now : ~Acceptable(entries[i], t)
                    \/ \E ks \in Authenticated(entries[i].iss) : entries[i].key \notin ks
  BY DEF FailuresWereNotTrusted
<1>1. PICK t \in began..now, ks \in Authenticated(entries[i].iss) :
        IsTrue(errors[i], entries[i], ks, t)
  BY DEF CallInv, RejectionsAreTrue
<1>2. errors[i] \in Rejections /\ entries[i] \in TrustMark /\ t \in Int
  BY PlacesOfFailures, Times DEF CallInv, TypeOK, missed
<1>3. entries[i].iat \in Int /\ entries[i].exp \in Int \cup {None}
  BY <1>2 DEF TrustMark
<1>4. ~Acceptable(entries[i], t) \/ entries[i].key \notin ks
  <2>1. CASE errors[i] \in {"NotATrustMark", "SubjectMismatch", "TypeNotRecognized",
                            "IssuerNotRecognized", "InvalidSignature"}
    BY <1>1, <2>1 DEF IsTrue, Acceptable, MayIssue
  <2>2. CASE errors[i] \in {"DelegationMissing", "InvalidDelegation"}
    BY <1>1, <2>2 DEF IsTrue, Acceptable, OwnerConsents, IsOwned
  <2>3. CASE errors[i] = "IssuedInFuture"
    <3>1. entries[i].iat - t > Leeway
      BY <1>1, <2>3 DEF IsTrue
    <3> QED
      BY <1>2, <1>3, <3>1, Strings DEF Acceptable, Current
  <2>4. CASE errors[i] = "Expired"
    <3>1. entries[i].exp # None /\ t - entries[i].exp > Leeway
      BY <1>1, <2>4 DEF IsTrue
    <3> QED
      BY <1>2, <1>3, <3>1, Strings DEF Acceptable, Current
  <2>5. CASE errors[i] = "Invalid"
    <3>1. entries[i].exp # None /\ entries[i].exp <= entries[i].iat
      BY <1>1, <2>5 DEF IsTrue
    <3> QED
      BY <1>2, <1>3, <3>1, Strings DEF Acceptable, Current
  <2> QED
    BY <1>2, <2>1, <2>2, <2>3, <2>4, <2>5 DEF Rejections
<1> QED
  BY <1>4

\* What was valid when it was signed is current until it expires.
LEMMA ValidStays ==
  ASSUME NEW jwt, jwt.iat \in Int, jwt.exp \in Int \cup {None}, NEW t \in Int, NEW u \in Int,
         NEW v \in Int, t <= u, u <= v, IsValid(jwt, t), ~HasExpired(jwt, v)
  PROVE  Current(jwt, u)
<1>1. CASE jwt.exp = None
  BY <1>1, Strings DEF IsValid, IsEarly, HasExpired, Current
<1>2. CASE jwt.exp # None
  <2>1. jwt.exp \in Int
    BY <1>2
  <2> QED
    BY <1>2, <2>1, Strings DEF IsValid, IsEarly, HasExpired, Current
<1> QED
  BY <1>1, <1>2

LEMMA AcceptableStays ==
  ASSUME CallInv
  PROVE  IssuedVerify
<1> SUFFICES ASSUME NEW i \in failures \ missed,
                    CanBeSigned(entries[i], began),
                    entries[i].sub = Subject, MayIssue(entries[i].iss, entries[i].type),
                    \A ks \in Authenticated(entries[i].iss) : entries[i].key \in ks,
                    IsOwned(entries[i].type) <=> entries[i].delegation # None,
                    IsOwned(entries[i].type) =>
                      /\ entries[i].delegation.iss = TrustMarkOwners[entries[i].type].sub
                      /\ entries[i].delegation.key \in TrustMarkOwners[entries[i].type].keys
                      /\ Unexpired(entries[i].delegation),
                    Unexpired(entries[i])
             PROVE  FALSE
  BY DEF IssuedVerify
<1>1. entries[i] \in TrustMark /\ began \in Int /\ now \in Int
  BY PlacesOfFailures, Times DEF CallInv
<1>2. entries[i].iat \in Int /\ entries[i].exp \in Int \cup {None}
  BY <1>1 DEF TrustMark
<1>3. PICK t \in began..now : ~Acceptable(entries[i], t)
  BY TrueRejectionsAreRight DEF FailuresWereNotTrusted
<1>4. t \in Int /\ began <= t /\ t <= now
  BY <1>1
<1>5. Current(entries[i], t)
  BY <1>1, <1>2, <1>4, ValidStays DEF CanBeSigned, Unexpired
<1>6. OwnerConsents(entries[i], t)
  <2>1. CASE entries[i].delegation = None
    BY <2>1 DEF OwnerConsents, IsOwned
  <2>2. CASE entries[i].delegation # None
    <3>1. /\ entries[i].delegation.iat \in Int
          /\ entries[i].delegation.exp \in Int \cup {None}
      BY <1>1, <2>2 DEF TrustMark, Delegation
    <3>2. Current(entries[i].delegation, t)
      BY <1>1, <1>4, <2>2, <3>1, ValidStays DEF CanBeSigned, Unexpired
    <3> QED
      BY <2>2, <3>2 DEF OwnerConsents, IsOwned, CanBeSigned
  <2> QED
    BY <2>1, <2>2
<1> QED
  BY <1>3, <1>5, <1>6 DEF Acceptable, CanBeSigned

-----------------------------------------------------------------------------
(* The theorems.                                                           *)

LEMMA CallInvHolds == Spec => []CallInv
BY InitInv, NextInv, PTL DEF Spec

\* Every variable always has its type, and every Trust Mark presented is either
\* verified or among the failures when the call ends.
THEOREM TypeCorrect == Spec => []TypeOK
BY CallInvHolds, PTL DEF CallInv

\* A Trust Mark that verifies (verify) was acceptable, and signed with a key
\* authenticated for its issuer, at a moment of the call.
THEOREM OnlyTrustedVerify == Spec => []VerifiedWereTrusted
BY CallInvHolds, PTL DEF CallInv

\* A Trust Mark is rejected for what is really wrong with it, at a moment of the
\* call (TrustMarkRejection).
THEOREM OnlyTrueRejections == Spec => []RejectionsAreTrue
BY CallInvHolds, PTL DEF CallInv

\* A Trust Mark that fails for another reason than a missing chain was not
\* acceptable, or not signed with an authenticated key, all along.
THEOREM NoTrustedFail == Spec => []FailuresWereNotTrusted
BY CallInvHolds, TrueRejectionsAreRight, PTL

\* What TrustMark::sign and TrustMarkDelegation::sign let pass, verify accepts
\* until it expires, however long the issuer's chain takes to find.
THEOREM IssuedAlwaysVerify == Spec => []IssuedVerify
BY CallInvHolds, AcceptableStays, PTL

\* Only issuers that the anchor recognizes are asked for their chain
\* (verify_trust_mark_under).
THEOREM OnlyRecognizedAreAsked == Spec => []OnlyRecognizedIssuersAreAsked
BY CallInvHolds, PTL DEF CallInv

\* Trust Marks of one issuer verify with the same keys, however many there are.
THEOREM OneView == Spec => []OneViewPerIssuer
BY CallInvHolds, KnownIsOneView, PTL
=============================================================================
