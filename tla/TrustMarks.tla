----------------------------- MODULE TrustMarks -----------------------------
(***************************************************************************)
(* Issuing Trust Marks (types.rs), and verifying those that an entity      *)
(* presents, under one Trust Anchor (trust_marks.rs), while time passes,   *)
(* issuers replace their keys and the anchor or an issuer's Trust Chain    *)
(* may not be found.                                                       *)
(*                                                                         *)
(* A set of keys stands for a jwks and `key` for the key that the header   *)
(* names and that really signed; EntityStatements has what lies between.   *)
(* `formed` stands for what depends on the JWT alone: its typ and claims   *)
(* that parse and have the right names.  A step that reads the clock more  *)
(* than once, with no await in between, reads the same time.               *)
(***************************************************************************)
EXTENDS Integers, Sequences

CONSTANTS
  Entities, Keys, Types,
  Anchor,            \* the Trust Anchor, with the configuration at hand:
  AnchorKeys,        \*   its own keys,
  TrustMarkIssuers,  \*   the issuers it recognizes for each type it lists,
  TrustMarkOwners,   \*   and the owners, with their keys, of some types
  Subject,           \* the entity that presents the Trust Marks
  KeySets,           \* the keys a Trust Chain may authenticate for each entity
  Presentations,     \* what an entity may present: sequences of Trust Marks
  None,              \* no exp, no delegation, or no chain
  Leeway,            \* CLOCK_SKEW_LEEWAY
  MaxTime,           \* bound: the clock stops
  MaxChanges         \* bound: how often issuers replace keys during the call

Delegation ==
  [formed : BOOLEAN, iss : Entities, sub : Entities, type : Types, iat : Int,
   exp : Int \cup {None}, key : Keys]

TrustMark ==
  [formed : BOOLEAN, iss : Entities, sub : Entities, type : Types, iat : Int,
   exp : Int \cup {None}, key : Keys, delegation : Delegation \cup {None}]

ASSUME TrustMarksAssumption ==
  /\ Anchor \in Entities /\ Subject \in Entities /\ AnchorKeys \subseteq Keys
  /\ DOMAIN TrustMarkIssuers \subseteq Types /\ DOMAIN TrustMarkOwners \subseteq Types
  /\ \A type \in DOMAIN TrustMarkIssuers : TrustMarkIssuers[type] \subseteq Entities
  /\ \A type \in DOMAIN TrustMarkOwners :
       TrustMarkOwners[type].sub \in Entities /\ TrustMarkOwners[type].keys \subseteq Keys
  /\ \A e \in Entities : \A ks \in KeySets[e] : ks \subseteq Keys /\ ks # None
  /\ \A p \in Presentations : p \in Seq(TrustMark)
  /\ Leeway \in Nat /\ MaxTime \in Nat /\ MaxChanges \in Nat

VARIABLES
  now,        \* the clock
  endorsed,   \* the keys a Trust Chain authenticates for each entity now
  chainKeys,  \* those the given chain does for its leaf; None without a chain
  entries,    \* the Trust Marks presented
  at,         \* the one that is verified
  phase,      \* what is done with it next
  keys,       \* the keys found for its issuer
  issuerKeys, \* the keys found so far, by issuer
  verified,   \* the places of the Trust Marks that verified
  errors,     \* the error of each Trust Mark that did not, by place
  requested,  \* history: the places at which an issuer's chain was requested
  began,      \* history: the clock when the call began
  views,      \* history: the key sets of each entity since then
  changes     \* history: how often keys were replaced since then

progress == <<at, phase, keys, issuerKeys, verified, errors, requested>>
vars == <<now, endorsed, chainKeys, entries, progress, began, views, changes>>

Entry == entries[at]

\* The TrustMarkRejections, and the errors of discovery.
Rejections ==
  {"NotATrustMark", "SubjectMismatch", "IssuedInFuture", "Expired", "InvalidSignature",
   "Invalid", "TypeNotRecognized", "IssuerNotRecognized", "DelegationMissing",
   "InvalidDelegation"}

Unreachable == {"NoAnchor", "NoChain"}

ASSUME NoRejection == None \notin Rejections \cup Unreachable

failures == DOMAIN errors

missed == {i \in failures : errors[i] \in Unreachable}

Mapped(e, value) == [x \in {e} |-> value]

-----------------------------------------------------------------------------
(* The checks.                                                             *)

IsEarly(jwt, t) == jwt.iat > t + Leeway

HasExpired(jwt, t) == jwt.exp # None /\ jwt.exp < t - Leeway

\* validate_trust_mark_claims, for a Trust Mark and a delegation.
IsValid(jwt, t) ==
  ~IsEarly(jwt, t) /\ ~HasExpired(jwt, t) /\ (jwt.exp # None => jwt.exp > jwt.iat)

\* Mistake: an issuer signs under a delegation to somebody else.
CanBeSignedForAnyone(mark, t) ==
  /\ mark.formed /\ IsValid(mark, t)
  /\ mark.delegation # None =>
       /\ mark.delegation.formed /\ IsValid(mark.delegation, t)
       /\ mark.delegation.type = mark.type

\* TrustMark::sign, with TrustMark::validate and what sign_entry publishes.
CanBeSigned(mark, t) ==
  /\ mark.formed /\ IsValid(mark, t)
  /\ mark.delegation # None =>
       /\ mark.delegation.formed /\ IsValid(mark.delegation, t)
       /\ mark.delegation.type = mark.type
       /\ mark.delegation.sub = mark.iss

\* check_unverified: the reason why it rejects a Trust Mark, None if it does not.
UnverifiedFault(mark, t) ==
  IF ~mark.formed THEN "NotATrustMark"
  ELSE IF mark.sub # Subject THEN "SubjectMismatch"
  ELSE IF IsEarly(mark, t) THEN "IssuedInFuture"
  ELSE IF HasExpired(mark, t) THEN "Expired"
  ELSE None

\* check_recognized.
RecognizedFault(mark) ==
  IF mark.type \notin DOMAIN TrustMarkIssuers THEN "TypeNotRecognized"
  ELSE IF TrustMarkIssuers[mark.type] # {} /\ mark.iss \notin TrustMarkIssuers[mark.type]
  THEN "IssuerNotRecognized"
  ELSE None

IsDelegated(mark, owner, t) ==
  LET delegation == mark.delegation
  IN /\ delegation.formed /\ delegation.key \in owner.keys
     /\ delegation.iss = owner.sub
     /\ delegation.sub = mark.iss
     /\ delegation.type = mark.type
     /\ IsValid(delegation, t)

\* Mistake: a delegation is verified when there is one.
DelegationFaultIfAny(mark, t) ==
  IF mark.delegation = None THEN None
  ELSE IF mark.type \notin DOMAIN TrustMarkOwners THEN "InvalidDelegation"
  ELSE IF IsDelegated(mark, TrustMarkOwners[mark.type], t) THEN None
  ELSE "InvalidDelegation"

\* A delegation is required if the type has an owner, and refused if not.
DelegationFault(mark, t) ==
  IF mark.type \notin DOMAIN TrustMarkOwners
  THEN IF mark.delegation = None THEN None ELSE "InvalidDelegation"
  ELSE IF mark.delegation = None THEN "DelegationMissing"
  ELSE IF IsDelegated(mark, TrustMarkOwners[mark.type], t) THEN None
  ELSE "InvalidDelegation"

\* TrustMark::from_verified_jwt.
Fault(mark, issuerJwks, t) ==
  IF UnverifiedFault(mark, t) # None THEN UnverifiedFault(mark, t)
  ELSE IF mark.key \notin issuerJwks THEN "InvalidSignature"
  ELSE IF ~IsValid(mark, t) THEN "Invalid"
  ELSE IF RecognizedFault(mark) # None THEN RecognizedFault(mark)
  ELSE DelegationFault(mark, t)

-----------------------------------------------------------------------------
(* One call.                                                               *)

\* verify_chain_trust_marks knows the anchor and the keys of the chain's leaf,
\* verify_trust_mark verifies one Trust Mark and knows nothing.
Init ==
  /\ now \in 0..MaxTime
  /\ endorsed \in [Entities -> UNION {KeySets[e] : e \in Entities}]
  /\ \A e \in Entities : endorsed[e] \in KeySets[e]
  /\ entries \in Presentations
  /\ \/ chainKeys \in KeySets[Subject]
     \/ chainKeys = None /\ Len(entries) = 1
  /\ issuerKeys = IF chainKeys = None THEN << >> ELSE Mapped(Subject, chainKeys)
  /\ at = 1
  /\ phase = IF chainKeys = None THEN "fetching"
             ELSE IF entries = << >> THEN "done" ELSE "screening"
  /\ keys = {}
  /\ verified = {} /\ errors = << >> /\ requested = {}
  /\ began = now
  /\ views = [e \in Entities |-> {endorsed[e]}]
  /\ changes = 0

\* The error of the Trust Mark, None if it verified.
Decide(error) ==
  /\ verified' = IF error = None THEN verified \cup {at} ELSE verified
  /\ errors' = IF error = None THEN errors
               ELSE [i \in failures \cup {at} |-> IF i = at THEN error ELSE errors[i]]
  /\ at' = at + 1
  /\ phase' = IF at = Len(entries) THEN "done" ELSE "screening"
  /\ keys' = {}

\* verify_trust_mark begins with the anchor's configuration.
FetchAnchor ==
  /\ phase = "fetching"
  /\ phase' = "screening"
  /\ UNCHANGED <<now, endorsed, chainKeys, entries, at, keys, issuerKeys, verified, errors,
                 requested, began, views, changes>>

MissAnchor ==
  /\ phase = "fetching"
  /\ Decide("NoAnchor")
  /\ UNCHANGED <<now, endorsed, chainKeys, entries, issuerKeys, requested, began, views, changes>>

\* Mistake: whoever is named as the issuer is asked for its chain.
ScreeningFaultBySubject == UnverifiedFault(Entry, now)

\* What needs no key is checked first.
ScreeningFault ==
  IF UnverifiedFault(Entry, now) # None THEN UnverifiedFault(Entry, now) ELSE RecognizedFault(Entry)

Reject ==
  /\ phase = "screening"
  /\ ScreeningFault # None
  /\ Decide(ScreeningFault)
  /\ UNCHANGED <<now, endorsed, chainKeys, entries, issuerKeys, requested, began, views, changes>>

UseKnownKeys ==
  /\ phase = "screening"
  /\ ScreeningFault = None
  /\ \/ Entry.iss = Anchor /\ keys' = AnchorKeys
     \/ Entry.iss # Anchor /\ Entry.iss \in DOMAIN issuerKeys /\ keys' = issuerKeys[Entry.iss]
  /\ phase' = "verifying"
  /\ UNCHANGED <<now, endorsed, chainKeys, entries, at, issuerKeys, verified, errors, requested,
                 began, views, changes>>

RequestChain ==
  /\ phase = "screening"
  /\ ScreeningFault = None
  /\ Entry.iss # Anchor /\ Entry.iss \notin DOMAIN issuerKeys
  /\ phase' = "discovering"
  /\ requested' = requested \cup {at}
  /\ UNCHANGED <<now, endorsed, chainKeys, entries, at, keys, issuerKeys, verified, errors,
                 began, views, changes>>

\* Mistake: the keys are not kept for the issuer's next Trust Mark.
FindChainAgain ==
  /\ phase = "discovering"
  /\ keys' = endorsed[Entry.iss]
  /\ phase' = "verifying"
  /\ UNCHANGED <<now, endorsed, chainKeys, entries, at, issuerKeys, verified, errors, requested,
                 began, views, changes>>

\* The keys are those endorsed when the Superior was asked.
FindChain ==
  /\ phase = "discovering"
  /\ keys' = endorsed[Entry.iss]
  /\ issuerKeys' =
       [e \in DOMAIN issuerKeys \cup {Entry.iss} |-> IF e = Entry.iss THEN keys' ELSE issuerKeys[e]]
  /\ phase' = "verifying"
  /\ UNCHANGED <<now, endorsed, chainKeys, entries, at, verified, errors, requested,
                 began, views, changes>>

\* Mistake: an issuer without a chain is told as one whose keys do not verify.
MissChainAsRejection ==
  /\ phase = "discovering"
  /\ Decide("InvalidSignature")
  /\ UNCHANGED <<now, endorsed, chainKeys, entries, issuerKeys, requested, began, views, changes>>

\* No chain: remembered for this Trust Mark only.
MissChain ==
  /\ phase = "discovering"
  /\ Decide("NoChain")
  /\ UNCHANGED <<now, endorsed, chainKeys, entries, issuerKeys, requested, began, views, changes>>

Verify ==
  /\ phase = "verifying"
  /\ Decide(Fault(Entry, keys, now))
  /\ UNCHANGED <<now, endorsed, chainKeys, entries, issuerKeys, requested, began, views, changes>>

Tick ==
  /\ phase # "done"
  /\ now < MaxTime
  /\ now' = now + 1
  /\ UNCHANGED <<endorsed, chainKeys, entries, progress, began, views, changes>>

ReplaceKeys(e) ==
  /\ phase # "done"
  /\ changes < MaxChanges
  /\ changes' = changes + 1
  /\ \E ks \in KeySets[e] \ {endorsed[e]} :
       /\ endorsed' = [endorsed EXCEPT ![e] = ks]
       /\ views' = [views EXCEPT ![e] = @ \cup {ks}]
  /\ UNCHANGED <<now, chainKeys, entries, progress, began>>

Next ==
  \/ FetchAnchor \/ MissAnchor
  \/ Reject \/ UseKnownKeys \/ RequestChain \/ FindChain \/ MissChain \/ Verify
  \/ Tick
  \/ \E e \in Entities : ReplaceKeys(e)

Spec == Init /\ [][Next]_vars

-----------------------------------------------------------------------------
(* Properties.                                                             *)

Places == DOMAIN entries

\* Every variable has its type, and every Trust Mark up to `at` is either
\* verified or among the failures.
TypeOK ==
  /\ began \in 0..now /\ now \in 0..MaxTime
  /\ entries \in Seq(TrustMark) /\ endorsed \in [Entities -> SUBSET Keys]
  /\ phase \in {"fetching", "screening", "discovering", "verifying", "done"}
  /\ phase # "done" => at \in Places
  /\ phase = "done" => at = Len(entries) + 1 \/ entries = << >>
  /\ verified \cup failures = IF phase = "done" THEN Places ELSE 1..(at - 1)
  /\ verified \cap failures = {}
  /\ DOMAIN issuerKeys \subseteq Entities
  /\ keys \in SUBSET Keys
  /\ \A i \in failures : errors[i] \in Rejections \cup Unreachable
  /\ requested \subseteq Places
  /\ chainKeys \in KeySets[Subject] \cup {None}
  /\ views \in [Entities -> SUBSET SUBSET Keys]
  /\ \A e \in Entities : endorsed[e] \in views[e] /\ views[e] \subseteq KeySets[e]

\* The key sets that an issuer was authenticated with during the call.
Authenticated(issuer) ==
  IF issuer = Anchor THEN {AnchorKeys}
  ELSE IF issuer = Subject /\ chainKeys # None THEN {chainKeys}
  ELSE views[issuer]

Current(jwt, t) ==
  /\ jwt.iat - Leeway <= t
  /\ jwt.exp # None => t <= jwt.exp + Leeway /\ jwt.iat < jwt.exp

\* The owner of the type, if it has one, let the issuer issue it.
OwnerConsents(mark, t) ==
  IF mark.delegation = None THEN mark.type \notin DOMAIN TrustMarkOwners
  ELSE /\ mark.type \in DOMAIN TrustMarkOwners
       /\ mark.delegation.formed /\ Current(mark.delegation, t)
       /\ <<mark.delegation.iss, mark.delegation.sub, mark.delegation.type>> =
            <<TrustMarkOwners[mark.type].sub, mark.iss, mark.type>>
       /\ mark.delegation.key \in TrustMarkOwners[mark.type].keys

MayIssue(issuer, type) ==
  /\ type \in DOMAIN TrustMarkIssuers
  /\ issuer \in TrustMarkIssuers[type] \/ TrustMarkIssuers[type] = {}

\* Everything about a Trust Mark but its signature.
Acceptable(mark, t) ==
  /\ mark.formed /\ mark.sub = Subject
  /\ MayIssue(mark.iss, mark.type)
  /\ Current(mark, t)
  /\ OwnerConsents(mark, t)

\* A Trust Mark verifies only if it was acceptable at a moment of the call and
\* signed with a key authenticated for its issuer at a moment of the call.
VerifiedWereTrusted ==
  \A i \in verified :
    /\ \E t \in began..now : Acceptable(entries[i], t)
    /\ \E ks \in Authenticated(entries[i].iss) : entries[i].key \in ks

\* One that is acceptable and signed with an authenticated key all along fails
\* only if no chain of its issuer was found.
FailuresWereNotTrusted ==
  \A i \in failures \ missed :
    \/ \E t \in began..now : ~Acceptable(entries[i], t)
    \/ \E ks \in Authenticated(entries[i].iss) : entries[i].key \notin ks

IsOwned(type) == type \in DOMAIN TrustMarkOwners

\* A rejection names what is wrong, so that its reader looks in the right place:
\* the fault was there at a moment of the call, and a signature or a delegation
\* is blamed only where the anchor lets the issuer issue the type.
IsTrue(rejection, mark, ks, t) ==
  CASE rejection = "NotATrustMark" -> ~mark.formed
    [] rejection = "SubjectMismatch" -> mark.formed /\ mark.sub # Subject
    [] rejection = "IssuedInFuture" -> mark.formed /\ mark.iat - t > Leeway
    [] rejection = "Expired" -> mark.formed /\ mark.exp # None /\ t - mark.exp > Leeway
    [] rejection = "TypeNotRecognized" -> mark.type \notin DOMAIN TrustMarkIssuers
    [] rejection = "IssuerNotRecognized" ->
         mark.type \in DOMAIN TrustMarkIssuers /\ ~MayIssue(mark.iss, mark.type)
    [] rejection = "InvalidSignature" -> mark.key \notin ks /\ MayIssue(mark.iss, mark.type)
    [] rejection = "Invalid" -> mark.key \in ks /\ mark.exp # None /\ mark.exp <= mark.iat
    [] rejection = "DelegationMissing" ->
         mark.key \in ks /\ IsOwned(mark.type) /\ mark.delegation = None
    [] rejection = "InvalidDelegation" ->
         /\ mark.key \in ks /\ MayIssue(mark.iss, mark.type)
         /\ mark.delegation # None /\ ~OwnerConsents(mark, t)

RejectionsAreTrue ==
  \A i \in failures \ missed :
    \E t \in began..now, ks \in Authenticated(entries[i].iss) : IsTrue(errors[i], entries[i], ks, t)

Unexpired(mark) == ~HasExpired(mark, now)

\* What an issuer may sign, others can verify: a Trust Mark signed before the
\* call, with a key authenticated all along, under a delegation that the owner
\* of the type, if it has one, signed, fails only if a chain was missed, or it or
\* its delegation expired.
IssuedVerify ==
  \A i \in failures \ missed :
    LET mark == entries[i]
    IN ~ /\ CanBeSigned(mark, began)
         /\ mark.sub = Subject /\ MayIssue(mark.iss, mark.type)
         /\ \A ks \in Authenticated(mark.iss) : mark.key \in ks
         /\ IsOwned(mark.type) <=> mark.delegation # None
         /\ IsOwned(mark.type) =>
              /\ mark.delegation.iss = TrustMarkOwners[mark.type].sub
              /\ mark.delegation.key \in TrustMarkOwners[mark.type].keys
              /\ Unexpired(mark.delegation)
         /\ Unexpired(mark)

\* An issuer is asked for its chain only because of a Trust Mark about the
\* subject that the anchor lets it issue; the anchor itself and, given a chain,
\* its leaf are never asked.
OnlyRecognizedIssuersAreAsked ==
  \A i \in requested :
    /\ entries[i].sub = Subject
    /\ MayIssue(entries[i].iss, entries[i].type)
    /\ entries[i].iss # Anchor
    /\ chainKeys # None => entries[i].iss # Subject

\* All Trust Marks of one issuer are verified with the same keys, whenever the
\* issuer replaces them.
OneViewPerIssuer ==
  \A e \in Entities :
    \E ks \in Authenticated(e) :
      \A i \in verified : entries[i].iss = e => entries[i].key \in ks
=============================================================================
