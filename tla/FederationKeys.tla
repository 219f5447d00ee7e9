--------------------------- MODULE FederationKeys ---------------------------
(***************************************************************************)
(* The Federation Entity Keys of one entity across rollover (keys.rs):     *)
(* the key records, the signers of the keys that sign now or will, and the *)
(* KeyStore that keeps the records between restarts.                       *)
(*                                                                         *)
(* A FederationKeys value lives in the memory of a process.  The process   *)
(* may stop at any moment, loses what it did not save, and comes back with *)
(* from_records, which is given whatever the application's database holds: *)
(* what an earlier process saved, or what somebody else wrote there, as a  *)
(* migration or an edit by hand does, before this library used it.         *)
(*                                                                         *)
(* A call that returns an error changes nothing, so it is no step.         *)
(***************************************************************************)
EXTENDS Naturals, Sequences

CONSTANTS
  Kids,           \* the kids that keys and signers carry
  NoKid,          \* a public key with no kid, or an empty one
  Times,          \* the NumericDates the application passes
  NoTime,         \* None, for a NumericDate
  SignerLists,    \* the lists of signers a restarting application may hand over
  ForeignRecords  \* record lists that the store may hold before the library uses it

\* What a Jwk is good for: a public key verifiers can decode, one with private
\* or symmetric members, or one without usable key material.
Forms == {"public", "private", "undecodable"}

Jwk == [kid : Kids \cup {NoKid}, form : Forms]

KeyState == {"next", "active", "previous", "retired"}

KeyRecord == [kid        : Kids \cup {NoKid},
              form       : Forms,
              state      : KeyState,
              retired_at : Times \cup {NoTime},
              revoked    : Times \cup {NoTime}]

ASSUME KeysAssumption ==
  /\ NoKid \notin Kids
  /\ NoTime \notin Times
  /\ SignerLists \subseteq Seq(Kids)
  /\ ForeignRecords \subseteq Seq(KeyRecord)

VARIABLES
  up,       \* a process holds a key set
  records,  \* FederationKeys.records, << >> while no process holds one
  signers,  \* the kids that FederationKeys.signers has a signer for
  stored    \* the records in the KeyStore, << >> if none were saved

keyVars == <<up, records, signers, stored>>

-----------------------------------------------------------------------------
(* What can be read off a list of records.                                 *)

KidsOf(rs) == {rs[i].kid : i \in DOMAIN rs}

InState(rs, states) == {i \in DOMAIN rs : rs[i].state \in states}

\* The kids whose signer the key set needs: the active key's and the next ones'.
SigningKids(rs) == {rs[i].kid : i \in InState(rs, {"active", "next"})}

\* The keys published in the Entity Configuration, by their place in the list.
Published(rs) == InState(rs, {"next", "active", "previous"})

\* Mistake: a key leaves jwks() as soon as it is replaced.
JwksKidsWithoutPrevious(rs) == {rs[i].kid : i \in InState(rs, {"next", "active"})}

\* The kids of jwks().
JwksKids(rs) == {rs[i].kid : i \in Published(rs)}

\* The kids of historical_keys(): a retired record without a retired_at is
\* passed over.
HistoricalKids(rs) ==
  {rs[i].kid : i \in {j \in InState(rs, {"retired"}) : rs[j].retired_at # NoTime}}

\* JwkSet::validate on one key, and on the published keys together.
CanBePublished(key) == key.kid # NoKid /\ key.form # "private"

CanBeDecoded(key) == key.form # "undecodable"

DistinctKids(rs, S) == \A i, j \in S : rs[i].kid = rs[j].kid => i = j

HasOneActive(rs) ==
  \E i \in DOMAIN rs : InState(rs, {"active"}) = {i}

\* Mistakes: from_records does not look at retired_at, or at revocations.
DatesUnchecked(rs) == TRUE

RevocationsUnchecked(rs) == TRUE

RetiredAreDated(rs) ==
  \A i \in InState(rs, {"retired"}) : rs[i].retired_at # NoTime

RevokedAreRetired(rs) ==
  \A i \in DOMAIN rs : rs[i].revoked # NoTime => rs[i].state = "retired"

PublishedAreUsable(rs) ==
  \A i \in Published(rs) : CanBePublished(rs[i]) /\ CanBeDecoded(rs[i])

-----------------------------------------------------------------------------
(* FederationKeys::from_records.                                           *)

NoRepeats(given) == \A i, j \in DOMAIN given : given[i] = given[j] => i = j

Given(given) == {given[i] : i \in DOMAIN given}

FromRecordsOk(rs, given) ==
  /\ NoRepeats(given)
  /\ DistinctKids(rs, DOMAIN rs)
  /\ RetiredAreDated(rs)
  /\ RevokedAreRetired(rs)
  /\ HasOneActive(rs)
  /\ SigningKids(rs) \subseteq Given(given)
  /\ PublishedAreUsable(rs)

-----------------------------------------------------------------------------
(* The operations of a key set.                                            *)

Init ==
  /\ up = FALSE
  /\ records = << >>
  /\ signers = {}
  /\ stored \in ForeignRecords \cup {<< >>}

\* The record list `rs` with a key added under the signer's kid.
Insert(rs, held, signer, key, state) ==
  /\ key.kid = signer
  /\ signer \notin KidsOf(rs)
  /\ CanBePublished(key) /\ CanBeDecoded(key)
  /\ records' = Append(rs, [kid |-> signer, form |-> key.form, state |-> state,
                            retired_at |-> NoTime, revoked |-> NoTime])
  /\ signers' = held \cup {signer}
  /\ UNCHANGED stored

\* An application with an empty store makes its first key set.
New(signer, key) ==
  /\ ~up /\ stored = << >>
  /\ Insert(<< >>, {}, signer, key, "active")
  /\ up' = TRUE

AddNext(signer, key) ==
  /\ up
  /\ Insert(records, signers, signer, key, "next")
  /\ UNCHANGED up

\* require_state: the first record with the kid is in an allowed state.
Requires(k, allowed, i) ==
  /\ records[i].kid = k
  /\ \A j \in 1..(i - 1) : records[j].kid # k
  /\ records[i].state \in allowed

\* The records with the i-th active and the active one previous.
WithActive(i) ==
  [j \in DOMAIN records |->
     CASE j = i -> [records[j] EXCEPT !.state = "active"]
       [] j # i /\ records[j].state = "active" -> [records[j] EXCEPT !.state = "previous"]
       [] OTHER -> records[j]]

ActiveKids == {records[j].kid : j \in InState(records, {"active"})}

\* Mistake: activate leaves the replaced key its signer.
ActivateKeepingSigner(k) ==
  /\ up
  /\ \E i \in DOMAIN records :
       Requires(k, {"next"}, i) /\ records' = WithActive(i)
  /\ UNCHANGED <<up, signers, stored>>

\* Mistake: activate rolls back to a previous key.
ActivatePrevious(k) ==
  /\ up
  /\ \E i \in DOMAIN records :
       Requires(k, {"next", "previous"}, i) /\ records' = WithActive(i)
  /\ signers' = (signers \cup {k}) \ ActiveKids
  /\ UNCHANGED <<up, stored>>

Activate(k) ==
  /\ up
  /\ \E i \in DOMAIN records :
       Requires(k, {"next"}, i) /\ records' = WithActive(i)
  /\ signers' = signers \ ActiveKids
  /\ UNCHANGED <<up, stored>>

\* Mistake: retire does not set retired_at.
AsRetiredUndated(record, t) == [record EXCEPT !.state = "retired"]

AsRetired(record, t) == [record EXCEPT !.state = "retired", !.retired_at = t]

Retire(k, t) ==
  /\ up
  /\ \E i \in DOMAIN records :
       /\ Requires(k, {"previous", "next"}, i)
       /\ records' = [records EXCEPT ![i] = AsRetired(records[i], t)]
  /\ signers' = signers \ {k}
  /\ UNCHANGED <<up, stored>>

\* Mistakes: revoke does not retire the key, or retires it a second time.
AsRevokedOnly(record, t) == [record EXCEPT !.revoked = t]

AsRevokedAndRetired(record, t) == [AsRetired(record, t) EXCEPT !.revoked = t]

\* A key that is not retired yet is retired by its revocation.
AsRevoked(record, t) ==
  [(IF record.state = "retired" THEN record ELSE AsRetired(record, t))
     EXCEPT !.revoked = t]

Revoke(k, t) ==
  /\ up
  /\ \E i \in DOMAIN records :
       /\ Requires(k, {"previous", "next", "retired"}, i)
       /\ records[i].revoked = NoTime
       /\ records' = [records EXCEPT ![i] = AsRevoked(records[i], t)]
       /\ signers' = IF records[i].state = "retired" THEN signers ELSE signers \ {k}
  /\ UNCHANGED <<up, stored>>

-----------------------------------------------------------------------------
(* The KeyStore, and the process around the key set.                       *)

Save ==
  /\ up
  /\ stored' = records
  /\ UNCHANGED <<up, records, signers>>

\* The process stops, with what it had in memory.
Crash ==
  /\ up
  /\ up' = FALSE
  /\ records' = << >>
  /\ signers' = {}
  /\ UNCHANGED stored

\* A process starts on the stored records.  Signers of other keys are ignored.
Restore(given) ==
  /\ ~up /\ stored # << >>
  /\ FromRecordsOk(stored, given)
  /\ up' = TRUE
  /\ records' = stored
  /\ signers' = Given(given) \cap SigningKids(stored)
  /\ UNCHANGED stored

Next ==
  \/ \E signer \in Kids, key \in Jwk : New(signer, key) \/ AddNext(signer, key)
  \/ \E k \in Kids \cup {NoKid} :
       \/ Activate(k)
       \/ \E t \in Times : Retire(k, t) \/ Revoke(k, t)
  \/ Save
  \/ Crash
  \/ \E given \in SignerLists : Restore(given)

Spec == Init /\ [][Next]_keyVars

-----------------------------------------------------------------------------
(* Properties.                                                             *)

\* Every variable has its type.
TypeOK ==
  /\ up \in BOOLEAN
  /\ records \in Seq(KeyRecord)
  /\ signers \subseteq Kids
  /\ stored \in Seq(KeyRecord)

\* "Exactly one key is Active at any time", and it has a signer, so neither
\* expect() in active() nor the map index in active_signer() can panic; and a
\* key has a signer exactly while it may sign or is about to, so the private
\* half of a key that was replaced, retired or revoked is out of reach.
OnlyCurrentKeysSign ==
  up => /\ HasOneActive(records)
        /\ signers = SigningKids(records)

\* jwks() can be published as it is: no kid twice, no key that is private or
\* undecodable, and never a revoked key, whatever the store held at start-up.
JwksArePublishable ==
  /\ DistinctKids(records, Published(records))
  /\ PublishedAreUsable(records)
  /\ \A i \in Published(records) : records[i].revoked = NoTime

\* Every key of the set is published or historical and never both, so a
\* verifier finds the key of any statement in one of the two places.
EveryKeyIsAccountedFor ==
  /\ JwksKids(records) \cup HistoricalKids(records) = KidsOf(records)
  /\ JwksKids(records) \cap HistoricalKids(records) = {}

\* What a process saves is never refused later: with the signers of its active
\* and next keys from_records accepts it, whatever operations came before.
KeySetsCanBeRestored ==
  up =>
    \A given \in SignerLists :
      NoRepeats(given) /\ SigningKids(records) \subseteq Given(given)
        => FromRecordsOk(records, given)

\* Nothing that was saved is undone, over any crashes and restarts: a stored
\* key is never dropped, one retired stays retired at the same time, and a
\* revocation is not withdrawn or re-dated.
SavedHistoryIsKept ==
  [][\A i \in DOMAIN stored :
       /\ i \in DOMAIN stored'
       /\ stored'[i].kid = stored[i].kid
       /\ stored[i].state = "retired" =>
            /\ stored'[i].state = "retired"
            /\ stored'[i].retired_at = stored[i].retired_at
       /\ stored[i].revoked # NoTime => stored'[i].revoked = stored[i].revoked]_keyVars

\* The rollover only moves forward: a stored key that has signed is never Next
\* again, and a key that stopped being Active never signs again.
SavedRolloverMovesForward ==
  [][\A i \in DOMAIN stored :
       /\ stored[i].state = "active" => stored'[i].state # "next"
       /\ stored[i].state \in {"previous", "retired"} =>
            stored'[i].state \notin {"next", "active"}]_keyVars
=============================================================================
