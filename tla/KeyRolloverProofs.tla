------------------------- MODULE KeyRolloverProofs --------------------------
(***************************************************************************)
(* What FederationKeys guarantees for every set of kids, every choice of   *)
(* NumericDates, any number of records and anything the store may hold;    *)
(* and that a rollover of these keys that waits longer than it must is     *)
(* safe for any lifetimes, any crashes and however long it takes.          *)
(***************************************************************************)
EXTENDS KeyRollover, SequenceTheorems, TLAPS

\* What from_records checks of the records alone.  Every operation keeps it.
Sound(rs) ==
  /\ DistinctKids(rs, DOMAIN rs)
  /\ RetiredAreDated(rs)
  /\ RevokedAreRetired(rs)
  /\ HasOneActive(rs)
  /\ PublishedAreUsable(rs)

\* A key set is sound and holds the signers it needs; without a process there
\* is no key set.
KeySetInv ==
  /\ up => Sound(records) /\ signers = SigningKids(records)
  /\ ~up => records = << >> /\ signers = {}

-----------------------------------------------------------------------------
(* Types.                                                                  *)

\* Replacing the elements of a sequence one by one gives a sequence.
LEMMA SameLength ==
  ASSUME NEW S, NEW T, NEW s \in Seq(S), NEW f \in [DOMAIN s -> T]
  PROVE  f \in Seq(T) /\ DOMAIN f = DOMAIN s
<1>1. DOMAIN s = 1..Len(s) /\ Len(s) \in Nat
  OBVIOUS
<1>2. f \in [1..Len(s) -> T]
  BY <1>1
<1> QED
  BY <1>1, <1>2

\* The records of a key set are key records.
LEMMA RecordType ==
  ASSUME NEW rs \in Seq(KeyRecord), NEW i \in DOMAIN rs
  PROVE  rs[i] \in KeyRecord /\ rs[i].state \in KeyState
<1>1. rs[i] \in KeyRecord
  OBVIOUS
<1> QED
  BY <1>1 DEF KeyRecord

LEMMA TypeInit == Init => TypeOK
  BY EmptySeq, KeysAssumption DEF Init, TypeOK

LEMMA RetiredType ==
  ASSUME NEW r \in KeyRecord, NEW t \in Times
  PROVE  AsRetired(r, t) \in KeyRecord /\ AsRevoked(r, t) \in KeyRecord
  BY DEF AsRetired, AsRevoked, KeyRecord, KeyState

LEMMA InsertType ==
  ASSUME TypeOK, NEW rs \in Seq(KeyRecord), NEW held \in SUBSET Kids,
         NEW signer \in Kids, NEW key \in Jwk, NEW state \in KeyState,
         Insert(rs, held, signer, key, state)
  PROVE  records' \in Seq(KeyRecord) /\ signers' \subseteq Kids /\ stored' \in Seq(KeyRecord)
<1> DEFINE r == [kid |-> signer, form |-> key.form, state |-> state,
                 retired_at |-> NoTime, revoked |-> NoTime]
<1>1. r \in KeyRecord
  BY DEF Jwk, KeyRecord
<1>2. records' = Append(rs, r) /\ signers' = held \cup {signer} /\ stored' = stored
  BY DEF Insert
<1> QED
  BY <1>1, <1>2 DEF TypeOK

LEMMA ActivateType ==
  ASSUME TypeOK, NEW k, Activate(k)
  PROVE  TypeOK' /\ DOMAIN records' = DOMAIN records
<1>1. PICK i \in DOMAIN records : records' = WithActive(i)
  BY DEF Activate
<1>2. \A j \in DOMAIN records : records[j] \in KeyRecord
  BY DEF TypeOK
<1>3. records' \in [DOMAIN records -> KeyRecord]
  BY <1>1, <1>2 DEF WithActive, KeyRecord, KeyState
<1>4. records' \in Seq(KeyRecord) /\ DOMAIN records' = DOMAIN records
  BY <1>3, SameLength DEF TypeOK
<1> QED
  BY <1>4 DEF Activate, TypeOK

LEMMA RetireType ==
  ASSUME TypeOK, NEW k, NEW t \in Times, Retire(k, t) \/ Revoke(k, t)
  PROVE  TypeOK' /\ DOMAIN records' = DOMAIN records
<1>1. PICK i \in DOMAIN records, r \in KeyRecord : records' = [records EXCEPT ![i] = r]
  <2>1. \A j \in DOMAIN records : records[j] \in KeyRecord
    BY DEF TypeOK
  <2> QED
    BY <2>1, RetiredType DEF Retire, Revoke
<1>2. records' \in [DOMAIN records -> KeyRecord]
  BY <1>1 DEF TypeOK
<1>3. records' \in Seq(KeyRecord) /\ DOMAIN records' = DOMAIN records
  BY <1>2, SameLength DEF TypeOK
<1> QED
  BY <1>3 DEF Retire, Revoke, TypeOK

LEMMA TypeNext == TypeOK /\ [Next]_keyVars => TypeOK'
<1> SUFFICES ASSUME TypeOK, [Next]_keyVars PROVE TypeOK'
  OBVIOUS
<1>1. ASSUME NEW signer \in Kids, NEW key \in Jwk, New(signer, key)
      PROVE  TypeOK'
  <2>1. << >> \in Seq(KeyRecord) /\ "active" \in KeyState
    BY DEF KeyState
  <2> QED
    BY <1>1, <2>1, InsertType DEF New, TypeOK
<1>2. ASSUME NEW signer \in Kids, NEW key \in Jwk, AddNext(signer, key)
      PROVE  TypeOK'
  <2>1. "next" \in KeyState
    BY DEF KeyState
  <2> QED
    BY <1>2, <2>1, InsertType DEF AddNext, TypeOK
<1>3. ASSUME NEW k, Activate(k) PROVE TypeOK'
  BY <1>3, ActivateType
<1>4. ASSUME NEW k, NEW t \in Times, Retire(k, t) \/ Revoke(k, t) PROVE TypeOK'
  BY <1>4, RetireType
<1>5. CASE Save
  BY <1>5 DEF Save, TypeOK
<1>6. CASE Crash
  BY <1>6, EmptySeq DEF Crash, TypeOK
<1>7. ASSUME NEW given \in SignerLists, Restore(given) PROVE TypeOK'
  <2>1. Given(given) \subseteq Kids
    BY KeysAssumption DEF Given
  <2> QED
    BY <1>7, <2>1 DEF Restore, TypeOK
<1>8. CASE UNCHANGED keyVars
  BY <1>8 DEF keyVars, TypeOK
<1> QED
  BY <1>1, <1>2, <1>3, <1>4, <1>5, <1>6, <1>7, <1>8 DEF Next

\* Every variable has its type in every reachable state, whatever the store
\* held at first.
THEOREM TypeCorrect == Spec => []TypeOK
<1>1. Init => TypeOK
  BY TypeInit
<1>2. TypeOK /\ [Next]_keyVars => TypeOK'
  BY TypeNext
<1> QED
  BY <1>1, <1>2, PTL DEF Spec

-----------------------------------------------------------------------------
(* The key set.                                                            *)

\* A key that insert accepts, added to a sound list or as the first, active key.
LEMMA InsertSound ==
  ASSUME NEW rs \in Seq(KeyRecord), NEW held, NEW signer \in Kids, NEW key \in Jwk,
         NEW state, Insert(rs, held, signer, key, state),
         held = SigningKids(rs),
         \/ state = "next" /\ Sound(rs)
         \/ state = "active" /\ rs = << >>
  PROVE  Sound(records') /\ signers' = SigningKids(records')
<1> DEFINE r == [kid |-> signer, form |-> key.form, state |-> state,
                 retired_at |-> NoTime, revoked |-> NoTime]
           n == Len(rs) + 1
<1>1. records' = Append(rs, r) /\ signers' = held \cup {signer}
  BY DEF Insert
<1>2. /\ Len(rs) \in Nat
      /\ DOMAIN rs = 1..Len(rs)
      /\ DOMAIN records' = DOMAIN rs \cup {n}
      /\ n \notin DOMAIN rs
      /\ records'[n] = r
      /\ \A i \in DOMAIN rs : records'[i] = rs[i]
  <2>1. Len(rs) \in Nat /\ DOMAIN rs = 1..Len(rs)
    OBVIOUS
  <2>2. /\ DOMAIN Append(rs, r) = 1..n
        /\ Append(rs, r)[n] = r
        /\ \A i \in 1..Len(rs) : Append(rs, r)[i] = rs[i]
    BY <2>1
  <2> QED
    BY <1>1, <2>1, <2>2
<1> HIDE DEF n
<1>3. DistinctKids(records', DOMAIN records')
  <2>1. \A i \in DOMAIN rs : rs[i].kid # signer
    BY DEF Insert, KidsOf
  <2>2. DistinctKids(rs, DOMAIN rs)
    BY <1>2 DEF Sound, DistinctKids
  <2> QED
    BY <1>2, <2>1, <2>2 DEF DistinctKids
<1>4. RetiredAreDated(records') /\ RevokedAreRetired(records')
  <2>1. RetiredAreDated(rs) /\ RevokedAreRetired(rs)
    BY <1>2 DEF Sound, RetiredAreDated, RevokedAreRetired, InState
  <2> QED
    BY <1>2, <2>1 DEF RetiredAreDated, RevokedAreRetired, InState
<1>5. HasOneActive(records')
  <2>1. CASE state = "next"
    <3>1. PICK a \in DOMAIN rs : InState(rs, {"active"}) = {a}
      BY <2>1 DEF Sound, HasOneActive
    <3>2. InState(records', {"active"}) = {a}
      BY <1>2, <2>1, <3>1 DEF InState
    <3> QED
      BY <1>2, <3>2 DEF HasOneActive
  <2>2. CASE state = "active" /\ rs = << >>
    <3>1. InState(records', {"active"}) = {n}
      BY <1>2, <2>2 DEF InState
    <3> QED
      BY <1>2, <3>1 DEF HasOneActive
  <2> QED
    BY <2>1, <2>2
<1>6. PublishedAreUsable(records')
  <2>1. PublishedAreUsable(rs)
    BY <1>2 DEF Sound, PublishedAreUsable, Published, InState
  <2>2. CanBePublished(r) /\ CanBeDecoded(r)
    BY DEF Insert, CanBePublished, CanBeDecoded
  <2> QED
    BY <1>2, <2>1, <2>2 DEF PublishedAreUsable, Published, InState
<1>7. signers' = SigningKids(records')
  <2>1. SigningKids(records') = SigningKids(rs) \cup {signer}
    BY <1>2 DEF SigningKids, InState
  <2> QED
    BY <1>1, <2>1
<1> QED
  BY <1>3, <1>4, <1>5, <1>6, <1>7 DEF Sound

\* activate swaps the active key: nothing but two states changes.
LEMMA ActivateSound ==
  ASSUME TypeOK, KeySetInv, NEW k, Activate(k)
  PROVE  Sound(records') /\ signers' = SigningKids(records')
<1> USE DEF KeySetInv
<1>1. up /\ Sound(records) /\ signers = SigningKids(records)
  BY DEF Activate
<1>2. PICK i \in DOMAIN records :
        /\ records[i].state = "next"
        /\ records' = WithActive(i)
        /\ signers' = signers \ {records[j].kid : j \in InState(records, {"active"})}
  BY DEF Activate, Requires, ActiveKids
<1>3. PICK a \in DOMAIN records : InState(records, {"active"}) = {a}
  BY <1>1 DEF Sound, HasOneActive
<1>4. /\ records[a].state = "active" /\ a # i
      /\ \A j \in DOMAIN records : records[j].state = "active" => j = a
  BY <1>2, <1>3 DEF InState
<1>5. /\ DOMAIN records' = DOMAIN records
      /\ \A j \in DOMAIN records : records[j] \in KeyRecord
  BY ActivateType DEF TypeOK
<1>6. /\ records'[i] = [records[i] EXCEPT !.state = "active"]
      /\ records'[a] = [records[a] EXCEPT !.state = "previous"]
      /\ \A j \in DOMAIN records \ {a, i} : records'[j] = records[j]
  BY <1>2, <1>4 DEF WithActive
<1>7. /\ \A j \in DOMAIN records :
           /\ records'[j].kid = records[j].kid
           /\ records'[j].form = records[j].form
           /\ records'[j].retired_at = records[j].retired_at
           /\ records'[j].revoked = records[j].revoked
      /\ records'[i].state = "active" /\ records'[a].state = "previous"
      /\ \A j \in DOMAIN records \ {a, i} : records'[j].state = records[j].state
  BY <1>5, <1>6 DEF KeyRecord
<1>8. DistinctKids(records', DOMAIN records')
  BY <1>1, <1>5, <1>7 DEF Sound, DistinctKids
<1>9. RetiredAreDated(records')
  BY <1>1, <1>5, <1>7 DEF Sound, RetiredAreDated, InState
<1>10. RevokedAreRetired(records')
  BY <1>1, <1>2, <1>4, <1>5, <1>7 DEF Sound, RevokedAreRetired
<1>11. HasOneActive(records')
  <2>1. InState(records', {"active"}) = {i}
    BY <1>4, <1>5, <1>7 DEF InState
  <2> QED
    BY <1>5, <2>1 DEF HasOneActive
<1>12. PublishedAreUsable(records')
  BY <1>1, <1>2, <1>4, <1>5, <1>7
     DEF Sound, PublishedAreUsable, Published, InState, CanBePublished, CanBeDecoded
<1>13. signers' = SigningKids(records')
  <2>1. signers' = SigningKids(records) \ {records[a].kid}
    BY <1>1, <1>2, <1>3
  <2>2. \A j \in DOMAIN records : records[j].kid = records[a].kid => j = a
    BY <1>1 DEF Sound, DistinctKids
  <2>3. InState(records', {"active", "next"}) = InState(records, {"active", "next"}) \ {a}
    BY <1>2, <1>4, <1>5, <1>7 DEF InState
  <2> QED
    BY <1>5, <1>7, <2>1, <2>2, <2>3 DEF SigningKids, InState
<1> QED
  BY <1>8, <1>9, <1>10, <1>11, <1>12, <1>13 DEF Sound

\* retire and revoke replace one record, not the active one, by a retired and
\* dated one.
LEMMA ReplaceByRetired ==
  ASSUME TypeOK, Sound(records),
         NEW i \in DOMAIN records, NEW r \in KeyRecord,
         records[i].state # "active",
         r.kid = records[i].kid, r.state = "retired", r.retired_at # NoTime,
         records' = [records EXCEPT ![i] = r]
  PROVE  /\ Sound(records')
         /\ SigningKids(records') = IF records[i].state = "next"
                                    THEN SigningKids(records) \ {r.kid}
                                    ELSE SigningKids(records)
<1>1. /\ DOMAIN records' = DOMAIN records
      /\ records'[i] = r
      /\ \A j \in DOMAIN records \ {i} : records'[j] = records[j]
      /\ records[i] \in KeyRecord
  BY DEF TypeOK
<1>2. DistinctKids(records', DOMAIN records')
  BY <1>1 DEF Sound, DistinctKids
<1>3. RetiredAreDated(records') /\ RevokedAreRetired(records')
  BY <1>1 DEF Sound, RetiredAreDated, RevokedAreRetired, InState
<1>4. HasOneActive(records')
  <2>1. PICK a \in DOMAIN records : InState(records, {"active"}) = {a}
    BY DEF Sound, HasOneActive
  <2>2. InState(records', {"active"}) = {a}
    BY <1>1, <2>1 DEF InState
  <2> QED
    BY <1>1, <2>2 DEF HasOneActive
<1>5. PublishedAreUsable(records')
  BY <1>1 DEF Sound, PublishedAreUsable, Published, InState
<1>6. ASSUME records[i].state = "next"
      PROVE  SigningKids(records') = SigningKids(records) \ {r.kid}
  <2>1. \A j \in DOMAIN records : records[j].kid = r.kid => j = i
    BY DEF Sound, DistinctKids
  <2>2. InState(records', {"active", "next"}) = InState(records, {"active", "next"}) \ {i}
    BY <1>1, <1>6 DEF InState
  <2> QED
    BY <1>1, <2>1, <2>2 DEF SigningKids, InState
<1>7. ASSUME records[i].state # "next"
      PROVE  SigningKids(records') = SigningKids(records)
  <2>1. InState(records', {"active", "next"}) = InState(records, {"active", "next"})
    BY <1>1, <1>7 DEF InState
  <2> QED
    BY <1>1, <1>7, <2>1 DEF SigningKids, InState
<1> QED
  BY <1>2, <1>3, <1>4, <1>5, <1>6, <1>7 DEF Sound

\* A kid that no active or next key carries has no signer to lose.
LEMMA RetireSound ==
  ASSUME TypeOK, KeySetInv, NEW k, NEW t \in Times, Retire(k, t) \/ Revoke(k, t)
  PROVE  Sound(records') /\ signers' = SigningKids(records')
<1>1. up /\ Sound(records) /\ signers = SigningKids(records)
  BY DEF Retire, Revoke, KeySetInv
<1>2. PICK i \in DOMAIN records, r \in KeyRecord :
        /\ records[i].kid = k /\ records[i].state \in {"previous", "next", "retired"}
        /\ r.kid = records[i].kid /\ r.state = "retired" /\ r.retired_at # NoTime
        /\ records' = [records EXCEPT ![i] = r]
        /\ signers' = IF records[i].state = "retired" THEN signers ELSE signers \ {k}
  <2>1. /\ \A j \in DOMAIN records : records[j] \in KeyRecord
        /\ NoTime \notin Times
    BY KeysAssumption DEF TypeOK
  <2>2. CASE Retire(k, t)
    <3>1. PICK i \in DOMAIN records :
            /\ Requires(k, {"previous", "next"}, i)
            /\ records' = [records EXCEPT ![i] = AsRetired(records[i], t)]
      BY <2>2 DEF Retire
    <3>2. /\ AsRetired(records[i], t) \in KeyRecord
          /\ AsRetired(records[i], t).kid = records[i].kid
          /\ AsRetired(records[i], t).state = "retired"
          /\ AsRetired(records[i], t).retired_at = t
      BY <2>1, RetiredType DEF AsRetired, KeyRecord
    <3> QED
      BY <2>1, <2>2, <3>1, <3>2 DEF Retire, Requires
  <2>3. CASE Revoke(k, t)
    <3>1. PICK i \in DOMAIN records :
            /\ Requires(k, {"previous", "next", "retired"}, i)
            /\ records' = [records EXCEPT ![i] = AsRevoked(records[i], t)]
            /\ signers' = IF records[i].state = "retired" THEN signers ELSE signers \ {k}
      BY <2>3 DEF Revoke
    <3>2. /\ AsRevoked(records[i], t) \in KeyRecord
          /\ AsRevoked(records[i], t).kid = records[i].kid
          /\ AsRevoked(records[i], t).state = "retired"
      BY <2>1, RetiredType DEF AsRetired, AsRevoked, KeyRecord
    <3>3. AsRevoked(records[i], t).retired_at # NoTime
      BY <1>1, <2>1 DEF Sound, RetiredAreDated, InState, AsRetired, AsRevoked, KeyRecord
    <3> QED
      BY <3>1, <3>2, <3>3 DEF Requires
  <2> QED
    BY <2>2, <2>3
<1>3. /\ Sound(records')
      /\ SigningKids(records') = IF records[i].state = "next"
                                 THEN SigningKids(records) \ {k}
                                 ELSE SigningKids(records)
  BY <1>1, <1>2, ReplaceByRetired
<1>4. records[i].state = "previous" => k \notin SigningKids(records)
  BY <1>1, <1>2 DEF Sound, DistinctKids, SigningKids, InState
<1> QED
  BY <1>1, <1>2, <1>3, <1>4

LEMMA KeySetNextInv == TypeOK /\ KeySetInv /\ [Next]_keyVars => KeySetInv'
<1> SUFFICES ASSUME TypeOK, KeySetInv, [Next]_keyVars PROVE KeySetInv'
  OBVIOUS
<1>1. ASSUME NEW signer \in Kids, NEW key \in Jwk, New(signer, key)
      PROVE  KeySetInv'
  <2>1. << >> \in Seq(KeyRecord) /\ {} = SigningKids(<< >>)
    BY EmptySeq DEF SigningKids, InState
  <2> QED
    BY <1>1, <2>1, InsertSound DEF New, KeySetInv
<1>2. ASSUME NEW signer \in Kids, NEW key \in Jwk, AddNext(signer, key)
      PROVE  KeySetInv'
  BY <1>2, InsertSound DEF AddNext, KeySetInv, TypeOK
<1>3. ASSUME NEW k, Activate(k) PROVE KeySetInv'
  BY <1>3, ActivateSound DEF Activate, KeySetInv
<1>4. ASSUME NEW k, NEW t \in Times, Retire(k, t) \/ Revoke(k, t) PROVE KeySetInv'
  <2>1. Sound(records') /\ signers' = SigningKids(records')
    BY <1>4, RetireSound
  <2>2. up /\ up' = up
    BY <1>4 DEF Retire, Revoke
  <2> QED
    BY <2>1, <2>2 DEF KeySetInv
<1>5. CASE Save
  BY <1>5 DEF Save, KeySetInv
<1>6. CASE Crash
  BY <1>6 DEF Crash, KeySetInv
<1>7. ASSUME NEW given \in SignerLists, Restore(given) PROVE KeySetInv'
  <2>1. Sound(stored)
    BY <1>7 DEF Restore, FromRecordsOk, Sound
  <2>2. Given(given) \cap SigningKids(stored) = SigningKids(stored)
    BY <1>7 DEF Restore, FromRecordsOk
  <2> QED
    BY <1>7, <2>1, <2>2 DEF Restore, KeySetInv
<1>8. CASE UNCHANGED keyVars
  BY <1>8 DEF keyVars, KeySetInv
<1> QED
  BY <1>1, <1>2, <1>3, <1>4, <1>5, <1>6, <1>7, <1>8 DEF Next

\* The invariant behind the three theorems that follow.
LEMMA KeySetCorrect == Spec => [](TypeOK /\ KeySetInv)
<1>1. Init => KeySetInv
  BY DEF Init, KeySetInv
<1> QED
  BY <1>1, TypeInit, TypeNext, KeySetNextInv, PTL DEF Spec

\* A running process always has exactly one active key and the signers of its
\* active and next keys, no others: active() and active_signer() never panic.
THEOREM CurrentKeysSign == Spec => []OnlyCurrentKeysSign
<1>1. KeySetInv => OnlyCurrentKeysSign
  BY DEF KeySetInv, OnlyCurrentKeysSign, Sound
<1> QED
  BY <1>1, KeySetCorrect, PTL

\* The published keys never repeat a kid, are public and decodable, and none of
\* them is revoked.
THEOREM Publishable == Spec => []JwksArePublishable
<1>1. TypeOK /\ KeySetInv => JwksArePublishable
  <2> SUFFICES ASSUME TypeOK, KeySetInv PROVE JwksArePublishable
    OBVIOUS
  <2>1. CASE up
    BY <2>1 DEF TypeOK, KeySetInv, Sound, DistinctKids, RevokedAreRetired, Published,
                InState, JwksArePublishable
  <2>2. CASE ~up
    BY <2>2 DEF KeySetInv, Published, InState, DistinctKids, PublishedAreUsable,
                JwksArePublishable
  <2> QED
    BY <2>1, <2>2
<1> QED
  BY <1>1, KeySetCorrect, PTL

\* Every key is published or historical, and none is both.
THEOREM KeysAccountedFor == Spec => []EveryKeyIsAccountedFor
<1>1. TypeOK /\ KeySetInv => EveryKeyIsAccountedFor
  <2> SUFFICES ASSUME TypeOK, KeySetInv PROVE EveryKeyIsAccountedFor
    OBVIOUS
  <2>1. \A i \in DOMAIN records : records[i].state \in KeyState
    BY RecordType DEF TypeOK
  <2>2. DistinctKids(records, DOMAIN records) /\ RetiredAreDated(records)
    <3>1. CASE up
      BY <3>1 DEF KeySetInv, Sound
    <3>2. CASE ~up
      BY <3>2 DEF KeySetInv, DistinctKids, RetiredAreDated, InState
    <3> QED
      BY <3>1, <3>2
  <2>3. JwksKids(records) \cup HistoricalKids(records) = KidsOf(records)
    BY <2>2, <2>1 DEF JwksKids, HistoricalKids, KidsOf, Published, InState, RetiredAreDated,
                KeyState
  <2>4. JwksKids(records) \cap HistoricalKids(records) = {}
    BY <2>2, <2>1 DEF JwksKids, HistoricalKids, Published, InState, DistinctKids
  <2> QED
    BY <2>3, <2>4 DEF EveryKeyIsAccountedFor
<1> QED
  BY <1>1, KeySetCorrect, PTL

-----------------------------------------------------------------------------
(* The store.                                                              *)

\* The states a key can be in once it was in state `s`.
Reachable(s) ==
  CASE s = "next" -> KeyState
    [] s = "active" -> {"active", "previous", "retired"}
    [] s = "previous" -> {"previous", "retired"}
    [] s = "retired" -> {"retired"}

\* `new` continues `old`: the same keys in the same places, each further on.
Continues(old, new) ==
  \A i \in DOMAIN old :
    /\ i \in DOMAIN new
    /\ new[i].kid = old[i].kid
    /\ new[i].state \in Reachable(old[i].state)
    /\ old[i].state = "retired" => new[i].retired_at = old[i].retired_at
    /\ old[i].revoked # NoTime => new[i].revoked = old[i].revoked

\* The store is behind the key set of the running process, never ahead of it or
\* beside it.
Behind == up => Continues(stored, records)

\* What the store holds is a sound key set too, unless it held something else
\* before this library used it.
StoreInv == (stored # << >> => Sound(stored)) /\ Behind

LEMMA ContinuesRefl ==
  ASSUME NEW rs \in Seq(KeyRecord) PROVE Continues(rs, rs)
<1>1. \A i \in DOMAIN rs : rs[i].state \in KeyState
  BY RecordType
<1> QED
  BY <1>1 DEF Continues, Reachable, KeyState

LEMMA ContinuesTrans ==
  ASSUME NEW a \in Seq(KeyRecord), NEW b \in Seq(KeyRecord), NEW c \in Seq(KeyRecord),
         Continues(a, b), Continues(b, c)
  PROVE  Continues(a, c)
<1>1. /\ \A i \in DOMAIN a : a[i].state \in KeyState
      /\ \A i \in DOMAIN b : b[i].state \in KeyState
  BY RecordType
<1> SUFFICES ASSUME NEW i \in DOMAIN a
             PROVE  /\ i \in DOMAIN c
                    /\ c[i].kid = a[i].kid
                    /\ c[i].state \in Reachable(a[i].state)
                    /\ a[i].state = "retired" => c[i].retired_at = a[i].retired_at
                    /\ a[i].revoked # NoTime => c[i].revoked = a[i].revoked
  BY DEF Continues
<1>2. /\ i \in DOMAIN b /\ b[i].state \in Reachable(a[i].state)
      /\ i \in DOMAIN c /\ c[i].state \in Reachable(b[i].state)
      /\ b[i].kid = a[i].kid /\ c[i].kid = b[i].kid
  BY DEF Continues
<1>3. c[i].state \in Reachable(a[i].state)
  BY <1>1, <1>2 DEF Reachable, KeyState
<1>4. a[i].state = "retired" => c[i].retired_at = a[i].retired_at
  BY <1>2 DEF Continues, Reachable
<1>5. a[i].revoked # NoTime => c[i].revoked = a[i].revoked
  BY <1>2 DEF Continues
<1> QED
  BY <1>2, <1>3, <1>4, <1>5

\* Every operation continues the key set.
LEMMA StepContinues ==
  ASSUME TypeOK, KeySetInv, up, up', [Next]_keyVars
  PROVE  Continues(records, records')
<1>1. \A i \in DOMAIN records : records[i] \in KeyRecord /\ records[i].state \in KeyState
  BY RecordType DEF TypeOK
<1>2. ASSUME NEW signer \in Kids, NEW key \in Jwk, AddNext(signer, key)
      PROVE  Continues(records, records')
  <2>1. PICK r : records' = Append(records, r)
    BY <1>2 DEF AddNext, Insert
  <2>2. \A i \in DOMAIN records : i \in DOMAIN records' /\ records'[i] = records[i]
    BY <2>1 DEF TypeOK
  <2> QED
    BY <1>1, <2>2 DEF Continues, Reachable, KeyState
<1>3. ASSUME NEW k, Activate(k) PROVE Continues(records, records')
  <2>1. PICK i \in DOMAIN records :
          /\ records[i].state = "next"
          /\ records' = WithActive(i)
    BY <1>3 DEF Activate, Requires
  <2> QED
    BY <1>1, <2>1 DEF WithActive, Continues, Reachable, KeyRecord, KeyState
<1>4. ASSUME NEW k, NEW t \in Times, Retire(k, t) PROVE Continues(records, records')
  <2>1. PICK i \in DOMAIN records :
          /\ records[i].state \in {"previous", "next"}
          /\ records' = [records EXCEPT ![i] = AsRetired(records[i], t)]
    BY <1>4 DEF Retire, Requires
  <2> QED
    BY <1>1, <2>1 DEF Continues, Reachable, KeyRecord, KeyState, AsRetired
<1>5. ASSUME NEW k, NEW t \in Times, Revoke(k, t) PROVE Continues(records, records')
  <2>1. PICK i \in DOMAIN records :
          /\ records[i].state \in {"previous", "next", "retired"}
          /\ records[i].revoked = NoTime
          /\ records' = [records EXCEPT ![i] = AsRevoked(records[i], t)]
    BY <1>5 DEF Revoke, Requires
  <2> QED
    BY <1>1, <2>1 DEF Continues, Reachable, KeyRecord, KeyState, AsRetired, AsRevoked
<1>6. CASE Save \/ UNCHANGED keyVars
  BY <1>6, ContinuesRefl DEF Save, keyVars, TypeOK
<1> QED
  BY <1>2, <1>3, <1>4, <1>5, <1>6 DEF Next, New, Crash, Restore

LEMMA BehindNext ==
  ASSUME TypeOK, KeySetInv, Behind, [Next]_keyVars
  PROVE  Behind' /\ Continues(stored, stored')
<1>1. TypeOK' /\ KeySetInv'
  BY TypeNext, KeySetNextInv
<1>2. Continues(stored, stored)
  BY ContinuesRefl DEF TypeOK
<1>3. CASE up /\ up'
  <2>1. Continues(records, records')
    BY <1>3, StepContinues
  <2>2. Continues(stored, records) /\ Continues(stored, records')
    BY <1>1, <1>3, <2>1, ContinuesTrans DEF Behind, TypeOK
  <2>3. CASE Save
    BY <1>3, <2>2, <2>3, ContinuesRefl DEF Save, Behind, TypeOK
  <2>4. CASE stored' = stored
    BY <1>2, <1>3, <2>2, <2>4 DEF Behind
  <2>5. Save \/ stored' = stored
    BY DEF Next, New, AddNext, Insert, Activate, Retire, Revoke, Crash, Restore, keyVars
  <2> QED
    BY <2>3, <2>4, <2>5
<1>4. CASE up /\ ~up'
  <2>1. stored' = stored
    BY <1>4 DEF Next, New, AddNext, Activate, Retire, Revoke, Save, Crash, Restore, keyVars
  <2> QED
    BY <1>2, <1>4, <2>1 DEF Behind
<1>5. CASE ~up
  <2>1. /\ stored' = stored
        /\ up' => stored = << >> \/ records' = stored
    <3>1. CASE \E signer \in Kids, key \in Jwk : New(signer, key)
      BY <3>1 DEF New, Insert
    <3>2. CASE \E given \in SignerLists : Restore(given)
      BY <3>2 DEF Restore
    <3>3. CASE UNCHANGED keyVars
      BY <1>5, <3>3 DEF keyVars
    <3> QED
      BY <1>5, <3>1, <3>2, <3>3
         DEF Next, AddNext, Activate, Retire, Revoke, Save, Crash
  <2>2. Continues(<< >>, records')
    BY DEF Continues
  <2> QED
    BY <1>2, <2>1, <2>2 DEF Behind
<1>6. up \in BOOLEAN
  BY DEF TypeOK
<1> QED
  BY <1>3, <1>4, <1>5, <1>6

LEMMA StoreCorrect == Spec => [][Continues(stored, stored')]_keyVars
<1>1. Init => TypeOK /\ KeySetInv /\ Behind
  BY TypeInit DEF Init, KeySetInv, Behind
<1>2. TypeOK /\ KeySetInv /\ Behind /\ [Next]_keyVars
        => (TypeOK /\ KeySetInv /\ Behind)'
  BY TypeNext, KeySetNextInv, BehindNext
<1>3. TypeOK /\ KeySetInv /\ Behind /\ [Next]_keyVars
        => [Continues(stored, stored')]_keyVars
  BY BehindNext
<1> QED
  BY <1>1, <1>2, <1>3, PTL DEF Spec

\* What a process saves is never refused at a restart that brings the signers of
\* the active and next keys.
THEOREM Restorable == Spec => []KeySetsCanBeRestored
<1>1. KeySetInv => KeySetsCanBeRestored
  BY DEF KeySetInv, Sound, KeySetsCanBeRestored, FromRecordsOk
<1> QED
  BY <1>1, KeySetCorrect, PTL

\* Retirements and revocations that were saved are never undone.
THEOREM HistoryKept == Spec => SavedHistoryIsKept
<1>1. Continues(stored, stored') =>
        \A i \in DOMAIN stored :
          /\ i \in DOMAIN stored'
          /\ stored'[i].kid = stored[i].kid
          /\ stored[i].state = "retired" =>
               /\ stored'[i].state = "retired"
               /\ stored'[i].retired_at = stored[i].retired_at
          /\ stored[i].revoked # NoTime => stored'[i].revoked = stored[i].revoked
  BY DEF Continues, Reachable
<1> QED
  BY <1>1, StoreCorrect, PTL DEF SavedHistoryIsKept

\* A key that has stopped signing never signs again, over any restarts.
THEOREM MovesForward == Spec => SavedRolloverMovesForward
<1>1. Continues(stored, stored') =>
        \A i \in DOMAIN stored :
          /\ stored[i].state = "active" => stored'[i].state # "next"
          /\ stored[i].state \in {"previous", "retired"} =>
               stored'[i].state \notin {"next", "active"}
  BY DEF Continues, Reachable
<1> QED
  BY <1>1, StoreCorrect, PTL DEF SavedRolloverMovesForward

-----------------------------------------------------------------------------
(* The rollover.                                                           *)

KidsIn(rs, states) == {rs[i].kid : i \in InState(rs, states)}

\* What the proofs about the key set and its store say.
KeysInv == TypeOK /\ KeySetInv /\ StoreInv

\* A key that signs, or may without another step of the operator, or whose
\* statements are still held by somebody.
InUse(k) ==
  k \in Signing \/ k \in answering \/ ActiveIn(stored, k) \/ Valid(statements[k])

\* The keys in use are those of the saved key set that were active at some
\* time, and each of them is published unless it was revoked.
SignedInv ==
  \A k \in Kids :
    /\ statements[k] # 0 \/ InUse(k) => k \in KidsIn(stored, {"active", "previous", "retired"})
    /\ InUse(k) =>
         /\ k \in JwksKids(stored) \cup RevokedKids(stored)
         /\ up => k \in JwksKids(records) \cup RevokedKids(records)

\* How long what was issued can live that nobody issues any more.
AgeInv ==
  /\ now >= 1
  /\ configuration # NoEndpoint =>
       \A J \in SUBSET Kids :
         J \notin Serving => configurations[J] <= configuration.since + ConfigurationLifetime
  /\ fetch # NoEndpoint =>
       \A k \in Kids : k \notin Signing => statements[k] <= fetch.since + StatementLifetime

\* A configuration with the jwks `J` is served, or held by somebody.
Current(J) == J \in Serving \/ Valid(configurations[J])

\* The keys in use and the one that can be taken into use next, unless they were
\* revoked, are all in `J`.
Covers(J) ==
  \A k \in Kids \ RevokedKids(stored) : k \in KidsIn(records, {"active"}) \/ InUse(k) => k \in J

\* Every configuration that is served or held by somebody covers them.
CoverInv == \A J \in SUBSET Kids : Current(J) => stored # << >> /\ Covers(J)

\* Every verifier finds the key of every statement that was ever issued.
FindableInv ==
  \A k \in Kids : statements[k] # 0 =>
    \A J \in SUBSET Kids : Current(J) => k \in J \cup HistoricalKids(stored)

RolloverInv == RolloverTypeOK /\ SignedInv /\ AgeInv /\ CoverInv /\ FindableInv

-----------------------------------------------------------------------------
(* The key set inside a rollover.                                          *)

\* To the key set, a step of the rollover is one of its own.
LEMMA StepOfKeys ==
  ASSUME [RolloverNext]_vars PROVE [Next]_keyVars
<1>1. CASE Operate
  <2>1. \A k \in Kids : PublicKey(k) \in Jwk
    BY DEF PublicKey, Jwk, Forms
  <2> QED
    BY <1>1, <2>1 DEF Operate, Next
<1>2. CASE Stop
  BY <1>2 DEF Stop, Next
<1>3. CASE ~Operate /\ ~Stop
  BY <1>3 DEF RolloverNext, Tick, DeployConfiguration, DeployFetch, DeployHistorical,
              DrainConfiguration, DrainFetch, IssueConfiguration, IssueStatement,
              StartAnswer, EndAnswers, vars
<1> QED
  BY <1>1, <1>2, <1>3

LEMMA StoreNextInv ==
  ASSUME TypeOK, KeySetInv, StoreInv, [Next]_keyVars
  PROVE  StoreInv' /\ Continues(stored, stored')
<1>1. Behind' /\ Continues(stored, stored')
  BY BehindNext DEF StoreInv
<1>2. CASE stored' = stored
  BY <1>1, <1>2 DEF StoreInv
<1>3. CASE Save
  BY <1>1, <1>3 DEF Save, StoreInv, KeySetInv
<1>4. Save \/ stored' = stored
  BY DEF Next, New, AddNext, Insert, Activate, Retire, Revoke, Crash, Restore, keyVars
<1> QED
  BY <1>2, <1>3, <1>4

LEMMA KeysNext ==
  ASSUME KeysInv, [RolloverNext]_vars
  PROVE  KeysInv' /\ Continues(stored, stored')
<1>1. [Next]_keyVars
  BY StepOfKeys
<1>2. TypeOK' /\ KeySetInv'
  BY <1>1, TypeNext, KeySetNextInv DEF KeysInv
<1>3. StoreInv' /\ Continues(stored, stored')
  BY <1>1, StoreNextInv DEF KeysInv
<1> QED
  BY <1>2, <1>3 DEF KeysInv

LEMMA KeysCorrect == RolloverSpec => []KeysInv
<1>1. Start => KeysInv
  BY TypeInit DEF Start, Init, KeysInv, KeySetInv, StoreInv, Behind
<1>2. KeysInv /\ [RolloverNext]_vars => KeysInv'
  BY KeysNext
<1> QED
  BY <1>1, <1>2, PTL DEF RolloverSpec

\* What is read off record lists, one of which continues the other.
LEMMA ContinuesSets ==
  ASSUME NEW a \in Seq(KeyRecord), NEW b \in Seq(KeyRecord), Continues(a, b)
  PROVE  /\ RevokedKids(a) \subseteq RevokedKids(b)
         /\ KidsIn(a, {"active", "previous", "retired"})
              \subseteq KidsIn(b, {"active", "previous", "retired"})
         /\ RetiredAreDated(a) => HistoricalKids(a) \subseteq HistoricalKids(b)
<1>1. \A i \in DOMAIN a : a[i].state \in KeyState
  BY RecordType
<1>2. RevokedKids(a) \subseteq RevokedKids(b)
  BY DEF Continues, RevokedKids
<1>3. KidsIn(a, {"active", "previous", "retired"})
        \subseteq KidsIn(b, {"active", "previous", "retired"})
  BY <1>1 DEF Continues, KidsIn, InState, Reachable, KeyState
<1>4. RetiredAreDated(a) => HistoricalKids(a) \subseteq HistoricalKids(b)
  BY DEF Continues, HistoricalKids, InState, Reachable
<1> QED
  BY <1>2, <1>3, <1>4

\* A sound record list has an active key, which has a kid of its own, and each
\* of its keys is published or historical, the revoked ones historical.
LEMMA SoundSets ==
  ASSUME NEW rs \in Seq(KeyRecord), Sound(rs)
  PROVE  /\ rs # << >>
         /\ ActiveKid(rs) \in Kids
         /\ ActiveKid(rs) \in KidsIn(rs, {"active"})
         /\ KidsIn(rs, {"active"}) \subseteq JwksKids(rs)
         /\ KidsIn(rs, {"active"}) \cap RevokedKids(rs) = {}
         /\ RevokedKids(rs) \subseteq HistoricalKids(rs)
         /\ KidsIn(rs, {"next"}) \cap KidsIn(rs, {"active", "previous", "retired"}) = {}
         /\ KidsOf(rs) \subseteq JwksKids(rs) \cup HistoricalKids(rs)
<1>1. \A i \in DOMAIN rs : rs[i] \in KeyRecord /\ rs[i].state \in KeyState
  BY RecordType
<1>2. PICK a \in DOMAIN rs : InState(rs, {"active"}) = {a}
  BY DEF Sound, HasOneActive
<1>3. rs[a].kid \in Kids
  <2>1. a \in Published(rs)
    BY <1>2 DEF Published, InState
  <2>2. rs[a].kid # NoKid /\ rs[a].kid \in Kids \cup {NoKid}
    BY <1>1, <2>1 DEF Sound, PublishedAreUsable, CanBePublished, KeyRecord
  <2> QED
    BY <2>2
<1>4. ActiveKid(rs) = rs[a].kid
  BY <1>2, <1>3 DEF ActiveKid
<1>5. ActiveKid(rs) \in KidsIn(rs, {"active"})
  BY <1>2, <1>4 DEF KidsIn
<1>6. rs # << >>
  BY <1>2
<1>7. KidsIn(rs, {"active"}) \subseteq JwksKids(rs)
  BY DEF KidsIn, JwksKids, Published, InState
<1>8. /\ KidsIn(rs, {"active"}) \cap RevokedKids(rs) = {}
      /\ KidsIn(rs, {"next"}) \cap KidsIn(rs, {"active", "previous", "retired"}) = {}
  BY DEF Sound, DistinctKids, RevokedAreRetired, KidsIn, RevokedKids, InState
<1>9. RevokedKids(rs) \subseteq HistoricalKids(rs)
  BY DEF Sound, RetiredAreDated, RevokedAreRetired, RevokedKids, HistoricalKids, InState
<1>10. KidsOf(rs) \subseteq JwksKids(rs) \cup HistoricalKids(rs)
  BY <1>1 DEF Sound, RetiredAreDated, KidsOf, JwksKids, HistoricalKids, Published, InState,
              KeyState
<1> QED
  BY <1>3, <1>4, <1>5, <1>6, <1>7, <1>8, <1>9, <1>10

\* The keys that verifiers can still account for.
Visible(rs) == JwksKids(rs) \cup RevokedKids(rs)

\* A new next key changes nothing for the others.
LEMMA AddNextSets ==
  ASSUME TypeOK, NEW k \in Kids, NEW key, AddNext(k, key)
  PROVE  /\ KidsIn(records', {"active"}) = KidsIn(records, {"active"})
         /\ Visible(records) \subseteq Visible(records')
<1> DEFINE r == [kid |-> k, form |-> key.form, state |-> "next",
                 retired_at |-> NoTime, revoked |-> NoTime]
           n == Len(records) + 1
<1>1. records' = Append(records, r)
  BY DEF AddNext, Insert
<1>2. /\ DOMAIN records' = DOMAIN records \cup {n}
      /\ records'[n] = r
      /\ \A i \in DOMAIN records : records'[i] = records[i]
  BY <1>1 DEF TypeOK
<1> HIDE DEF n
<1>3. KidsIn(records', {"active"}) = KidsIn(records, {"active"})
  BY <1>2 DEF KidsIn, InState
<1>4. Visible(records) \subseteq Visible(records')
  BY <1>2 DEF Visible, JwksKids, RevokedKids, Published, InState
<1> QED
  BY <1>3, <1>4

\* Activation makes one more key active and hides none.
LEMMA ActivateSets ==
  ASSUME TypeOK, NEW k, Activate(k)
  PROVE  /\ KidsIn(records', {"active"}) \subseteq KidsIn(records, {"active"}) \cup {k}
         /\ Visible(records) \subseteq Visible(records')
<1>1. PICK i \in DOMAIN records : records[i].kid = k /\ records' = WithActive(i)
  BY DEF Activate, Requires
<1>2. \A j \in DOMAIN records : records[j] \in KeyRecord
  BY DEF TypeOK
<1>3. DOMAIN records' = DOMAIN records
  BY <1>1 DEF WithActive
<1>4. \A j \in DOMAIN records :
        /\ records'[j].kid = records[j].kid
        /\ records'[j].revoked = records[j].revoked
        /\ \/ j = i /\ records'[j].state = "active"
           \/ records[j].state = "active" /\ records'[j].state = "previous"
           \/ records'[j].state = records[j].state
  BY <1>1, <1>2 DEF WithActive, KeyRecord
<1>5. KidsIn(records', {"active"}) \subseteq KidsIn(records, {"active"}) \cup {k}
  BY <1>1, <1>3, <1>4 DEF KidsIn, InState
<1>6. Visible(records) \subseteq Visible(records')
  BY <1>3, <1>4 DEF Visible, JwksKids, RevokedKids, Published, InState
<1> QED
  BY <1>5, <1>6

\* Retirement hides one key; revocation hides none.
LEMMA RetireSets ==
  ASSUME TypeOK, NEW k, NEW t \in Times
  PROVE  /\ Retire(k, t) \/ Revoke(k, t) =>
              KidsIn(records', {"active"}) \subseteq KidsIn(records, {"active"})
         /\ Retire(k, t) => Visible(records) \subseteq Visible(records') \cup {k}
         /\ Revoke(k, t) => Visible(records) \subseteq Visible(records')
<1>1. \A j \in DOMAIN records : records[j] \in KeyRecord
  BY DEF TypeOK
<1>2. ASSUME Retire(k, t)
      PROVE  /\ KidsIn(records', {"active"}) \subseteq KidsIn(records, {"active"})
             /\ Visible(records) \subseteq Visible(records') \cup {k}
  <2>1. PICK i \in DOMAIN records :
          /\ records[i].kid = k
          /\ records' = [records EXCEPT ![i] = AsRetired(records[i], t)]
    BY <1>2 DEF Retire, Requires
  <2>2. /\ DOMAIN records' = DOMAIN records
        /\ records'[i].state = "retired"
        /\ \A j \in DOMAIN records \ {i} : records'[j] = records[j]
    BY <1>1, <2>1 DEF AsRetired, KeyRecord
  <2> QED
    BY <2>1, <2>2 DEF KidsIn, Visible, JwksKids, RevokedKids, Published, InState
<1>3. ASSUME Revoke(k, t)
      PROVE  /\ KidsIn(records', {"active"}) \subseteq KidsIn(records, {"active"})
             /\ Visible(records) \subseteq Visible(records')
  <2>1. PICK i \in DOMAIN records :
          records' = [records EXCEPT ![i] = AsRevoked(records[i], t)]
    BY <1>3 DEF Revoke
  <2>2. /\ DOMAIN records' = DOMAIN records
        /\ records'[i].kid = records[i].kid
        /\ records'[i].state = "retired"
        /\ records'[i].revoked # NoTime
        /\ \A j \in DOMAIN records \ {i} : records'[j] = records[j]
    BY <1>1, <2>1, KeysAssumption DEF AsRetired, AsRevoked, KeyRecord
  <2> QED
    BY <2>1, <2>2 DEF KidsIn, Visible, JwksKids, RevokedKids, Published, InState
<1> QED
  BY <1>2, <1>3

-----------------------------------------------------------------------------
(* Types of the endpoints and of what they issued.                         *)

\* What is served or signs is what was built from keys.
LEMMA ServedAreKids ==
  ASSUME RolloverTypeOK
  PROVE  /\ Serving \subseteq SUBSET Kids /\ Signing \subseteq Kids
         /\ Serving # {} => configuration # NoEndpoint
         /\ Signing # {} => fetch # NoEndpoint
         /\ configuration # NoEndpoint => configuration.jwks \in Serving
         /\ fetch # NoEndpoint => fetch.signer \in Signing
BY DEF RolloverTypeOK, Serving, Signing, ServesJwks, SignsWith

LEMMA RolloverTypeStep ==
  ASSUME KeysInv, RolloverTypeOK, [RolloverNext]_vars
  PROVE  RolloverTypeOK'
<1>1. /\ now \in Nat
      /\ configurations \in [SUBSET Kids -> Nat]
      /\ statements \in [Kids -> Nat]
      /\ \A J \in SUBSET Kids : configurations[J] \in Nat
      /\ \A k \in Kids : statements[k] \in Nat
      /\ ConfigurationLifetime \in Nat
      /\ StatementLifetime \in Nat
  BY RolloverAssumption DEF RolloverTypeOK
<1>2. TypeOK'
  BY KeysNext DEF KeysInv
<1>3. Saved => ActiveKid(records) \in Kids
  BY SoundSets DEF Saved, KeysInv, TypeOK, KeySetInv
<1>4. JwksKids(records) \subseteq Kids \/ ~Saved
  <2> SUFFICES ASSUME Saved PROVE JwksKids(records) \subseteq Kids
    OBVIOUS
  <2>1. \A i \in DOMAIN records : records[i] \in KeyRecord
    BY DEF KeysInv, TypeOK
  <2>2. PublishedAreUsable(records)
    BY DEF Saved, KeysInv, KeySetInv, Sound
  <2> QED
    BY <2>1, <2>2 DEF JwksKids, Published, InState, PublishedAreUsable, CanBePublished, KeyRecord
<1> USE DEF endpointVars, configurationVars, fetchVars, historicalVars, issuedVars
<1>5. CASE Tick
  BY <1>1, <1>2, <1>5 DEF RolloverTypeOK, Tick, keyVars
<1>6. CASE Operate
  <2>1. up => up'
    BY <1>6 DEF Operate, New, AddNext, Activate, Retire, Revoke, Save, Restore
  <2> QED
    BY <1>1, <1>2, <1>6, <2>1 DEF RolloverTypeOK, Operate
<1>7. CASE Stop
  BY <1>1, <1>2, <1>7 DEF RolloverTypeOK, Stop
<1>8. CASE DeployConfiguration
  <2>1. /\ configuration' \in [jwks : SUBSET Kids, since : Nat]
        /\ replacedJwks' \subseteq SUBSET Kids
    BY <1>1, <1>4, <1>8, ServedAreKids DEF DeployConfiguration
  <2>2. configuration' # NoEndpoint
    BY <2>1, RolloverAssumption
  <2> QED
    BY <1>1, <1>2, <1>8, <2>1, <2>2 DEF RolloverTypeOK, DeployConfiguration, Saved, keyVars
<1>9. CASE DeployFetch
  <2>1. /\ fetch' \in [signer : Kids, since : Nat]
        /\ replacedSigners' \subseteq Kids
    BY <1>1, <1>3, <1>9, ServedAreKids DEF DeployFetch
  <2>2. fetch' # NoEndpoint
    BY <2>1, RolloverAssumption
  <2> QED
    BY <1>1, <1>2, <1>9, <2>1, <2>2 DEF RolloverTypeOK, DeployFetch, Saved, keyVars
<1>10. CASE DeployHistorical
  BY <1>1, <1>2, <1>3, <1>10 DEF RolloverTypeOK, DeployHistorical, Saved, keyVars
<1>11. CASE DrainConfiguration
  <2>1. /\ replacedJwks # {} /\ replacedJwks' \subseteq replacedJwks
        /\ configuration' = [configuration EXCEPT !.since = now]
    BY <1>11 DEF DrainConfiguration
  <2>2. configuration # NoEndpoint /\ configuration \in [jwks : SUBSET Kids, since : Nat]
    BY <2>1 DEF RolloverTypeOK
  <2>3. configuration' \in [jwks : SUBSET Kids, since : Nat]
    BY <1>1, <2>1, <2>2
  <2>4. configuration' # NoEndpoint
    BY <2>3, RolloverAssumption
  <2>5. up
    BY <2>2 DEF RolloverTypeOK
  <2> QED
    BY <1>1, <1>2, <1>11, <2>1, <2>3, <2>4, <2>5
       DEF RolloverTypeOK, DrainConfiguration, keyVars
<1>12. CASE DrainFetch
  <2>1. /\ replacedSigners # {} /\ replacedSigners' \subseteq replacedSigners
        /\ fetch' = [fetch EXCEPT !.since = now]
    BY <1>12 DEF DrainFetch
  <2>2. fetch # NoEndpoint /\ fetch \in [signer : Kids, since : Nat]
    BY <2>1 DEF RolloverTypeOK
  <2>3. fetch' \in [signer : Kids, since : Nat]
    BY <1>1, <2>1, <2>2
  <2>4. fetch' # NoEndpoint
    BY <2>3, RolloverAssumption
  <2>5. up
    BY <2>2 DEF RolloverTypeOK
  <2> QED
    BY <1>1, <1>2, <1>12, <2>1, <2>3, <2>4, <2>5
       DEF RolloverTypeOK, DrainFetch, keyVars
<1>13. CASE IssueConfiguration
  <2>1. PICK K \in SUBSET Kids :
          configurations' = [configurations EXCEPT ![K] = now + ConfigurationLifetime]
    BY <1>13, ServedAreKids DEF IssueConfiguration
  <2>2. /\ configurations' \in [SUBSET Kids -> Nat]
        /\ \A J \in SUBSET Kids : configurations'[J] <= now + ConfigurationLifetime
    BY <1>1, <2>1 DEF RolloverTypeOK
  <2> QED
    BY <1>1, <1>2, <1>13, <2>2 DEF RolloverTypeOK, IssueConfiguration, keyVars
<1>14. CASE IssueStatement
  <2>1. PICK j \in Kids : statements' = [statements EXCEPT ![j] = now + StatementLifetime]
    BY <1>14, ServedAreKids DEF IssueStatement
  <2>2. /\ statements' \in [Kids -> Nat]
        /\ \A k \in Kids : statements'[k] <= now + StatementLifetime
    BY <1>1, <2>1 DEF RolloverTypeOK
  <2> QED
    BY <1>1, <1>2, <1>14, <2>2 DEF RolloverTypeOK, IssueStatement, keyVars
<1>15. CASE StartAnswer
  BY <1>1, <1>2, <1>15 DEF RolloverTypeOK, StartAnswer, keyVars
<1>16. CASE EndAnswers
  BY <1>1, <1>2, <1>16 DEF RolloverTypeOK, EndAnswers, keyVars
<1>17. CASE UNCHANGED vars
  BY <1>2, <1>17 DEF RolloverTypeOK, vars, keyVars
<1> QED
  BY <1>5, <1>6, <1>7, <1>8, <1>9, <1>10, <1>11, <1>12, <1>13, <1>14, <1>15, <1>16, <1>17
     DEF RolloverNext

LEMMA RolloverTypeInit == Start => RolloverTypeOK
  BY RolloverAssumption, TypeInit DEF Start, Init, RolloverTypeOK

\* Every variable has its type, only a running process has endpoints, and
\* nothing that they issued outlives its lifetime.
THEOREM RolloverTypeCorrect == RolloverSpec => []RolloverTypeOK
<1>1. KeysInv /\ RolloverTypeOK /\ [RolloverNext]_vars => RolloverTypeOK'
  BY RolloverTypeStep
<1> QED
  BY <1>1, RolloverTypeInit, KeysCorrect, PTL DEF RolloverSpec

-----------------------------------------------------------------------------
(* The rollover, action by action.                                         *)

\* What the invariant says, for use in the steps.
LEMMA Numbers ==
  ASSUME RolloverTypeOK
  PROVE  /\ now \in Nat
         /\ \A J \in SUBSET Kids : configurations[J] \in Nat
         /\ \A k \in Kids : statements[k] \in Nat
         /\ ConfigurationLifetime \in Nat /\ StatementLifetime \in Nat /\ Slack \in Nat
         /\ configuration # NoEndpoint =>
              configuration.since \in Nat /\ configuration.jwks \in SUBSET Kids
         /\ fetch # NoEndpoint => fetch.since \in Nat /\ fetch.signer \in Kids
BY RolloverAssumption DEF RolloverTypeOK

\* Of the endpoints, what a step leaves alone.
LEMMA SameEndpoints ==
  /\ UNCHANGED configurationVars => Serving' = Serving
  /\ UNCHANGED fetchVars => Signing' = Signing
BY DEF Serving, Signing, ServesJwks, SignsWith, configurationVars, fetchVars

\* Whatever happens, what is not served any more, or does not sign, is dated
\* before `since`.
LEMMA AgeStep ==
  ASSUME RolloverInv, [RolloverNext]_vars
  PROVE  AgeInv'
<1> USE DEF endpointVars, historicalVars, issuedVars
<1>1. now' >= 1
  BY Numbers DEF RolloverInv, AgeInv, RolloverNext, Tick, Operate, Stop, DeployConfiguration,
     DeployFetch, DeployHistorical, DrainConfiguration, DrainFetch, IssueConfiguration,
     IssueStatement, StartAnswer, EndAnswers, vars
<1>2. ASSUME configuration' # NoEndpoint, NEW J \in SUBSET Kids, J \notin Serving'
      PROVE  configurations'[J] <= configuration'.since + ConfigurationLifetime
  <2>1. CASE UNCHANGED <<configurationVars, configurations>>
    BY <1>2, <2>1, SameEndpoints DEF RolloverInv, AgeInv, configurationVars
  <2>2. CASE IssueConfiguration
    <3>1. PICK K \in Serving :
            configurations' = [configurations EXCEPT ![K] = now + ConfigurationLifetime]
      BY <2>2 DEF IssueConfiguration
    <3>2. UNCHANGED configurationVars /\ Serving' = Serving
      BY <2>2, SameEndpoints DEF IssueConfiguration
    <3>3. configurations'[J] = configurations[J]
      BY <1>2, <3>1, <3>2 DEF RolloverInv, RolloverTypeOK
    <3> QED
      BY <1>2, <3>2, <3>3 DEF RolloverInv, AgeInv, configurationVars
  <2>3. CASE DeployConfiguration \/ DrainConfiguration
    <3>1. configuration'.since = now /\ configurations' = configurations
      BY <2>3 DEF DeployConfiguration, DrainConfiguration, RolloverInv, RolloverTypeOK
    <3> QED
      BY <3>1 DEF RolloverInv, RolloverTypeOK
  <2>4. ~Stop
    BY <1>2 DEF Stop
  <2> QED
    BY <2>1, <2>2, <2>3, <2>4 DEF RolloverNext, Tick, Operate, DeployFetch, DeployHistorical,
       DrainFetch, IssueStatement, StartAnswer, EndAnswers, vars
<1>3. ASSUME fetch' # NoEndpoint, NEW k \in Kids, k \notin Signing'
      PROVE  statements'[k] <= fetch'.since + StatementLifetime
  <2>1. CASE UNCHANGED <<fetchVars, statements>>
    BY <1>3, <2>1, SameEndpoints DEF RolloverInv, AgeInv, fetchVars
  <2>2. CASE IssueStatement
    <3>1. PICK j \in Signing :
            statements' = [statements EXCEPT ![j] = now + StatementLifetime]
      BY <2>2 DEF IssueStatement
    <3>2. UNCHANGED fetchVars /\ Signing' = Signing
      BY <2>2, SameEndpoints DEF IssueStatement
    <3>3. statements'[k] = statements[k]
      BY <1>3, <3>1, <3>2 DEF RolloverInv, RolloverTypeOK
    <3> QED
      BY <1>3, <3>2, <3>3 DEF RolloverInv, AgeInv, fetchVars
  <2>3. CASE DeployFetch \/ DrainFetch
    <3>1. fetch'.since = now /\ statements' = statements
      BY <2>3 DEF DeployFetch, DrainFetch, RolloverInv, RolloverTypeOK
    <3> QED
      BY <3>1 DEF RolloverInv, RolloverTypeOK
  <2>4. ~Stop
    BY <1>3 DEF Stop
  <2> QED
    BY <2>1, <2>2, <2>3, <2>4 DEF RolloverNext, Tick, Operate, DeployConfiguration,
       DeployHistorical, DrainConfiguration, IssueConfiguration, StartAnswer, EndAnswers, vars
<1> QED
  BY <1>1, <1>2, <1>3 DEF AgeInv

\* The operator waits for a key in use: nothing in use is retired.
LEMMA InUseIsNotRetired ==
  ASSUME KeysInv, RolloverInv, Slack # 0, up, NEW k \in Kids, MayRetire(k)
  PROVE  ~InUse(k)
<1>1. CASE UnusedLongEnough(k)
  <2>1. /\ ~ActiveIn(stored, k) /\ k \notin answering
        /\ fetch # NoEndpoint /\ k \notin Signing
        /\ fetch.since + StatementLifetime + Slack <= now
    BY <1>1 DEF UnusedLongEnough, Signing, SignsWith
  <2>2. statements[k] <= fetch.since + StatementLifetime
    BY <2>1 DEF RolloverInv, AgeInv
  <2>3. ~Valid(statements[k])
    BY <2>1, <2>2, Numbers DEF RolloverInv, Valid
  <2> QED
    BY <2>1, <2>3 DEF InUse
<1>2. CASE k \in KidsIn(records, {"next"})
  <2>1. k \notin KidsIn(records, {"active", "previous", "retired"})
    BY <1>2, SoundSets DEF KeysInv, KeySetInv, TypeOK
  <2>2. k \notin KidsIn(stored, {"active", "previous", "retired"})
    BY <2>1, ContinuesSets DEF KeysInv, StoreInv, Behind, TypeOK
  <2> QED
    BY <2>2 DEF RolloverInv, SignedInv
<1> QED
  BY <1>1, <1>2 DEF MayRetire, KidsIn

\* A key that was published long enough is in every configuration that is
\* served or held by somebody.
LEMMA PublishedIsCovered ==
  ASSUME RolloverInv, Slack # 0, NEW k \in Kids, PublishedLongEnough(k),
         NEW J \in SUBSET Kids, Current(J)
  PROVE  k \in J
<1>1. /\ configuration # NoEndpoint /\ replacedJwks = {} /\ k \in configuration.jwks
      /\ configuration.since + ConfigurationLifetime + Slack <= now
  BY DEF PublishedLongEnough
<1>2. CASE J \in Serving
  BY <1>1, <1>2 DEF Serving, ServesJwks
<1>3. CASE J \notin Serving
  <2>1. configurations[J] <= configuration.since + ConfigurationLifetime
    BY <1>1, <1>3 DEF RolloverInv, AgeInv
  <2> QED
    BY <1>1, <1>3, <2>1, Numbers DEF RolloverInv, Current, Valid
<1> QED
  BY <1>2, <1>3

\* A step that changes neither a key nor its state, and after which no key is in
\* use and no configuration current that was not before.
LEMMA NothingNew ==
  ASSUME KeysInv, RolloverInv, stored' = stored, records' \in {records, << >>},
         up' => up /\ records' = records,
         \A k \in Kids : InUse(k)' => InUse(k),
         \A k \in Kids : statements'[k] # 0 => statements[k] # 0 \/ InUse(k),
         \A J \in SUBSET Kids : Current(J)' => Current(J)
  PROVE  (SignedInv /\ CoverInv /\ FindableInv)'
<1>1. SignedInv'
  BY DEF RolloverInv, SignedInv
<1>2. ASSUME NEW J \in SUBSET Kids, Current(J)'
      PROVE  stored' # << >> /\ Covers(J)'
  <2>1. stored # << >> /\ Covers(J)
    BY <1>2 DEF RolloverInv, CoverInv
  <2>2. \A k : k \in KidsIn(records', {"active"}) => k \in KidsIn(records, {"active"})
    BY DEF KidsIn, InState
  <2> QED
    BY <2>1, <2>2 DEF Covers
<1>3. ASSUME NEW k \in Kids, statements'[k] # 0, NEW J \in SUBSET Kids, Current(J)'
      PROVE  k \in J \cup HistoricalKids(stored')
  <2>1. Current(J) /\ stored # << >> /\ Covers(J)
    BY <1>3 DEF RolloverInv, CoverInv
  <2>2. CASE statements[k] # 0
    BY <2>1, <2>2 DEF RolloverInv, FindableInv
  <2>3. CASE InUse(k)
    <3>1. RevokedKids(stored) \subseteq HistoricalKids(stored)
      BY <2>1, SoundSets DEF KeysInv, StoreInv, TypeOK
    <3> QED
      BY <2>1, <2>3, <3>1 DEF Covers
  <2> QED
    BY <1>3, <2>2, <2>3
<1> QED
  BY <1>1, <1>2, <1>3 DEF CoverInv, FindableInv

LEMMA TickInv ==
  ASSUME KeysInv, RolloverInv, Tick
  PROVE  (SignedInv /\ CoverInv /\ FindableInv)'
<1>1. /\ now' = now + 1 /\ UNCHANGED <<keyVars, endpointVars, issuedVars>>
      /\ Serving' = Serving /\ Signing' = Signing
  BY SameEndpoints DEF Tick, endpointVars
<1>2. /\ \A k \in Kids : InUse(k)' => InUse(k)
      /\ \A J \in SUBSET Kids : Current(J)' => Current(J)
  BY <1>1, Numbers DEF RolloverInv, InUse, Current, Valid, ActiveIn, InState,
     keyVars, endpointVars, historicalVars, issuedVars
<1> QED
  BY <1>1, <1>2, NothingNew DEF keyVars, issuedVars

\* A stopped process signs nothing.
LEMMA StopInv ==
  ASSUME KeysInv, RolloverInv, Stop
  PROVE  (SignedInv /\ CoverInv /\ FindableInv)'
<1>1. /\ ~up' /\ records' = << >> /\ stored' = stored
      /\ configuration' = NoEndpoint /\ fetch' = NoEndpoint
      /\ replacedJwks' = {} /\ replacedSigners' = {} /\ answering' = {}
      /\ UNCHANGED <<now, issuedVars>>
  BY DEF Stop, Crash
<1>2. Serving' = {} /\ Signing' = {}
  BY <1>1 DEF Serving, Signing, ServesJwks, SignsWith
<1>3. /\ \A k \in Kids : InUse(k)' => InUse(k)
      /\ \A J \in SUBSET Kids : Current(J)' => Current(J)
  BY <1>1, <1>2 DEF InUse, Current, Valid, ActiveIn, InState, issuedVars
<1> QED
  BY <1>1, <1>3, NothingNew DEF issuedVars

\* A drained endpoint serves nothing and signs nothing.
LEMMA DrainInv ==
  ASSUME KeysInv, RolloverInv, DrainConfiguration \/ DrainFetch
  PROVE  (SignedInv /\ CoverInv /\ FindableInv)'
<1>1. UNCHANGED <<keyVars, now, answering, issuedVars>>
  BY DEF DrainConfiguration, DrainFetch, historicalVars
<1>2. Serving' \subseteq Serving
  <2>1. CASE DrainConfiguration
    <3>1. /\ replacedJwks' \subseteq replacedJwks /\ configuration # NoEndpoint
          /\ configuration' = [configuration EXCEPT !.since = now]
      BY <2>1 DEF DrainConfiguration, RolloverInv, RolloverTypeOK
    <3>2. configuration'.jwks = configuration.jwks
      BY <3>1 DEF RolloverInv, RolloverTypeOK
    <3> QED
      BY <3>1, <3>2 DEF Serving, ServesJwks
  <2>2. CASE DrainFetch
    BY <2>2, SameEndpoints DEF DrainFetch
  <2> QED
    BY <2>1, <2>2
<1>3. Signing' \subseteq Signing
  <2>1. CASE DrainFetch
    <3>1. /\ replacedSigners' \subseteq replacedSigners /\ fetch # NoEndpoint
          /\ fetch' = [fetch EXCEPT !.since = now]
      BY <2>1 DEF DrainFetch, RolloverInv, RolloverTypeOK
    <3>2. fetch'.signer = fetch.signer
      BY <3>1 DEF RolloverInv, RolloverTypeOK
    <3> QED
      BY <3>1, <3>2 DEF Signing, SignsWith
  <2>2. CASE DrainConfiguration
    BY <2>2, SameEndpoints DEF DrainConfiguration
  <2> QED
    BY <2>1, <2>2
<1>4. /\ \A k \in Kids : InUse(k)' => InUse(k)
      /\ \A J \in SUBSET Kids : Current(J)' => Current(J)
  BY <1>1, <1>2, <1>3 DEF InUse, Current, Valid, ActiveIn, InState, keyVars, issuedVars
<1> QED
  BY <1>1, <1>4, NothingNew DEF keyVars, issuedVars

\* What the historical keys endpoint signs with is active in the store.
LEMMA AnswersInv ==
  ASSUME KeysInv, RolloverInv,
         DeployHistorical \/ StartAnswer \/ EndAnswers \/ UNCHANGED vars
  PROVE  (SignedInv /\ CoverInv /\ FindableInv)'
<1>1. /\ UNCHANGED <<keyVars, now, configurationVars, fetchVars, issuedVars>>
      /\ Serving' = Serving /\ Signing' = Signing
  BY SameEndpoints DEF DeployHistorical, StartAnswer, EndAnswers, vars, endpointVars
<1>2. \A k \in answering' : k \in answering \/ ActiveIn(stored, k)
  BY DEF DeployHistorical, StartAnswer, EndAnswers, SignerIsActive, vars, endpointVars,
         historicalVars
<1>3. /\ \A k \in Kids : InUse(k)' => InUse(k)
      /\ \A J \in SUBSET Kids : Current(J)' => Current(J)
  BY <1>1, <1>2 DEF InUse, Current, Valid, ActiveIn, InState, keyVars, issuedVars
<1> QED
  BY <1>1, <1>3, NothingNew DEF keyVars, issuedVars

\* The new endpoint signs with the key that is active in the store.
LEMMA DeployFetchInv ==
  ASSUME KeysInv, RolloverInv, DeployFetch
  PROVE  (SignedInv /\ CoverInv /\ FindableInv)'
<1>1. /\ up /\ stored = records /\ Sound(records) /\ records \in Seq(KeyRecord)
      /\ fetch' = [signer |-> ActiveKid(records), since |-> now]
      /\ replacedSigners' \subseteq Signing
      /\ UNCHANGED <<keyVars, now, configurationVars, answering, issuedVars>>
      /\ Serving' = Serving
  BY SameEndpoints DEF DeployFetch, Saved, KeysInv, KeySetInv, TypeOK, historicalVars
<1>2. ActiveIn(stored, ActiveKid(records))
  BY <1>1, SoundSets DEF ActiveIn, KidsIn
<1>3. \A k \in Signing' : k \in Signing \/ ActiveIn(stored, k)
  BY <1>1, <1>2 DEF Signing, SignsWith
<1>4. /\ \A k \in Kids : InUse(k)' => InUse(k)
      /\ \A J \in SUBSET Kids : Current(J)' => Current(J)
  BY <1>1, <1>3 DEF InUse, Current, Valid, ActiveIn, InState, keyVars, issuedVars
<1> QED
  BY <1>1, <1>4, NothingNew DEF keyVars, issuedVars

LEMMA IssueConfigurationInv ==
  ASSUME KeysInv, RolloverInv, IssueConfiguration
  PROVE  (SignedInv /\ CoverInv /\ FindableInv)'
<1>1. PICK K \in Serving :
        configurations' = [configurations EXCEPT ![K] = now + ConfigurationLifetime]
  BY DEF IssueConfiguration
<1>2. /\ UNCHANGED <<keyVars, now, answering, statements>>
      /\ Serving' = Serving /\ Signing' = Signing
  BY SameEndpoints DEF IssueConfiguration, endpointVars, historicalVars
<1>3. \A J \in SUBSET Kids : J # K => configurations'[J] = configurations[J]
  BY <1>1 DEF RolloverInv, RolloverTypeOK
<1>4. /\ \A k \in Kids : InUse(k)' => InUse(k)
      /\ \A J \in SUBSET Kids : Current(J)' => Current(J)
  BY <1>1, <1>2, <1>3 DEF InUse, Current, Valid, ActiveIn, InState, keyVars
<1> QED
  BY <1>2, <1>4, NothingNew DEF keyVars

LEMMA IssueStatementInv ==
  ASSUME KeysInv, RolloverInv, IssueStatement
  PROVE  (SignedInv /\ CoverInv /\ FindableInv)'
<1>1. PICK j \in Signing :
        statements' = [statements EXCEPT ![j] = now + StatementLifetime]
  BY DEF IssueStatement
<1>2. /\ UNCHANGED <<keyVars, now, answering, configurations>>
      /\ Serving' = Serving /\ Signing' = Signing
  BY SameEndpoints DEF IssueStatement, endpointVars, historicalVars
<1>3. \A k \in Kids : k # j => statements'[k] = statements[k]
  BY <1>1 DEF RolloverInv, RolloverTypeOK
<1>4. /\ \A k \in Kids : InUse(k)' => InUse(k)
      /\ \A k \in Kids : statements'[k] # 0 => statements[k] # 0 \/ InUse(k)
      /\ \A J \in SUBSET Kids : Current(J)' => Current(J)
  BY <1>1, <1>2, <1>3 DEF InUse, Current, Valid, ActiveIn, InState, keyVars
<1> QED
  BY <1>2, <1>4, NothingNew DEF keyVars

\* The new jwks has every key in use, and every key that is not historical.
LEMMA DeployConfigurationInv ==
  ASSUME KeysInv, RolloverInv, DeployConfiguration
  PROVE  (SignedInv /\ CoverInv /\ FindableInv)'
<1>1. /\ up /\ stored = records /\ Sound(records) /\ records \in Seq(KeyRecord)
      /\ configuration' = [jwks |-> JwksKids(records), since |-> now]
      /\ replacedJwks' \subseteq Serving
      /\ UNCHANGED <<keyVars, now, answering, issuedVars>>
      /\ Signing' = Signing
  BY SameEndpoints DEF DeployConfiguration, Saved, KeysInv, KeySetInv, TypeOK, historicalVars
<1>2. \A k \in Kids : InUse(k)' <=> InUse(k)
  BY <1>1 DEF InUse, Valid, ActiveIn, InState, keyVars, issuedVars
<1>3. \A J \in SUBSET Kids : Current(J)' => Current(J) \/ J = JwksKids(records)
  BY <1>1 DEF Current, Valid, Serving, ServesJwks, issuedVars
<1>4. SignedInv'
  BY <1>1, <1>2 DEF RolloverInv, SignedInv, keyVars, issuedVars
<1>5. Covers(JwksKids(records))
  BY <1>1, SoundSets DEF RolloverInv, SignedInv, Covers
<1>6. CoverInv'
  <2>1. ASSUME NEW J, Covers(J) PROVE Covers(J)'
    BY <1>1, <1>2, <2>1 DEF Covers, keyVars
  <2>2. stored # << >>
    BY <1>1, SoundSets
  <2>3. ASSUME NEW J \in SUBSET Kids, Current(J)' PROVE Covers(J)
    BY <1>3, <1>5, <2>3 DEF RolloverInv, CoverInv
  <2> QED
    BY <1>1, <2>1, <2>2, <2>3 DEF CoverInv, keyVars
<1>7. FindableInv'
  <2>1. \A k \in Kids : statements[k] # 0 => k \in KidsOf(stored)
    BY DEF RolloverInv, SignedInv, KidsIn, KidsOf, InState
  <2> QED
    BY <1>1, <1>3, <2>1, SoundSets DEF RolloverInv, FindableInv, keyVars, issuedVars
<1> QED
  BY <1>4, <1>6, <1>7

\* A step that changes only the key set in memory.
LEMMA MemoryStep ==
  ASSUME KeysInv, RolloverInv, Slack # 0, up, up',
         UNCHANGED <<stored, now, endpointVars, issuedVars>>,
         \A k \in Kids : k \in KidsIn(records', {"active"}) =>
           k \in KidsIn(records, {"active"}) \/ PublishedLongEnough(k),
         \A k \in Kids : InUse(k) /\ k \in Visible(records) => k \in Visible(records')
  PROVE  (SignedInv /\ CoverInv /\ FindableInv)'
<1>1. Serving' = Serving /\ Signing' = Signing
  BY SameEndpoints DEF endpointVars
<1>2. /\ \A k \in Kids : InUse(k)' <=> InUse(k)
      /\ \A J \in SUBSET Kids : Current(J)' <=> Current(J)
  BY <1>1 DEF InUse, Current, Valid, ActiveIn, InState, endpointVars, historicalVars, issuedVars
<1>3. SignedInv'
  BY <1>2 DEF RolloverInv, SignedInv, Visible, issuedVars
<1>4. ASSUME NEW J \in SUBSET Kids, Current(J)
      PROVE  stored' # << >> /\ Covers(J)'
  <2>1. stored # << >> /\ Covers(J)
    BY <1>4 DEF RolloverInv, CoverInv
  <2>2. \A k \in Kids : PublishedLongEnough(k) => k \in J
    BY <1>4, PublishedIsCovered
  <2> QED
    BY <1>2, <2>1, <2>2 DEF Covers
<1>5. FindableInv'
  BY <1>2 DEF RolloverInv, FindableInv, issuedVars
<1> QED
  BY <1>2, <1>3, <1>4, <1>5 DEF CoverInv

LEMMA OperateInv ==
  ASSUME KeysInv, RolloverInv, Slack # 0, Operate
  PROVE  (SignedInv /\ CoverInv /\ FindableInv)'
<1>1. /\ UNCHANGED <<now, endpointVars, issuedVars>>
      /\ Serving' = Serving /\ Signing' = Signing /\ answering' = answering
      /\ TypeOK /\ KeySetInv /\ StoreInv
  BY SameEndpoints DEF Operate, KeysInv, endpointVars, historicalVars
<1>2. \A J \in SUBSET Kids : Current(J)' <=> Current(J)
  BY <1>1 DEF Current, Valid, issuedVars
<1>3. ASSUME NEW k \in Kids, New(k, PublicKey(k))
      PROVE  (SignedInv /\ CoverInv /\ FindableInv)'
  <2>1. stored = << >> /\ stored' = stored
    BY <1>3 DEF New, Insert
  <2>2. \A j \in Kids : statements[j] = 0 /\ ~InUse(j)
    <3>1. KidsIn(stored, {"active", "previous", "retired"}) = {}
      BY <2>1 DEF KidsIn, InState
    <3> QED
      BY <3>1 DEF RolloverInv, SignedInv
  <2>3. \A j \in Kids : statements'[j] = 0 /\ ~InUse(j)'
    BY <1>1, <2>1, <2>2 DEF InUse, Valid, ActiveIn, InState, issuedVars
  <2>4. \A J \in SUBSET Kids : ~Current(J)'
    BY <1>2, <2>1 DEF RolloverInv, CoverInv
  <2> QED
    BY <2>3, <2>4 DEF SignedInv, CoverInv, FindableInv
<1>4. ASSUME NEW k \in Kids, AddNext(k, PublicKey(k))
      PROVE  (SignedInv /\ CoverInv /\ FindableInv)'
  <2>1. up /\ up' /\ stored' = stored
    BY <1>4 DEF AddNext, Insert
  <2> QED
    BY <1>1, <1>4, <2>1, AddNextSets, MemoryStep
<1>5. ASSUME NEW k \in Kids, PublishedLongEnough(k), Activate(k)
      PROVE  (SignedInv /\ CoverInv /\ FindableInv)'
  <2>1. up /\ up' /\ stored' = stored
    BY <1>5 DEF Activate
  <2> QED
    BY <1>1, <1>5, <2>1, ActivateSets, MemoryStep
<1>6. ASSUME NEW k \in Kids, NEW t \in Times, MayRetire(k), Retire(k, t)
      PROVE  (SignedInv /\ CoverInv /\ FindableInv)'
  <2>1. up /\ up' /\ stored' = stored
    BY <1>6 DEF Retire
  <2>2. ~InUse(k)
    BY <1>6, <2>1, InUseIsNotRetired
  <2> QED
    BY <1>1, <1>6, <2>1, <2>2, RetireSets, MemoryStep
<1>7. ASSUME NEW k \in Kids, NEW t \in Times, Revoke(k, t)
      PROVE  (SignedInv /\ CoverInv /\ FindableInv)'
  <2>1. up /\ up' /\ stored' = stored
    BY <1>7 DEF Revoke
  <2> QED
    BY <1>1, <1>7, <2>1, RetireSets, MemoryStep
<1>8. CASE Save
  <2>1. up /\ up' /\ records' = records /\ stored' = records /\ Sound(records)
    BY <1>1, <1>8 DEF Save, KeySetInv
  <2>2. /\ RevokedKids(stored) \subseteq RevokedKids(records)
        /\ KidsIn(stored, {"active", "previous", "retired"})
             \subseteq KidsIn(records, {"active", "previous", "retired"})
        /\ HistoricalKids(stored) \subseteq HistoricalKids(records)
    <3>1. RetiredAreDated(stored)
      BY <1>1 DEF StoreInv, Sound, RetiredAreDated, InState
    <3> QED
      BY <1>1, <2>1, <3>1, ContinuesSets DEF StoreInv, Behind, TypeOK
  <2>3. \A k \in Kids : InUse(k)' => InUse(k) \/ k \in KidsIn(records, {"active"})
    BY <1>1, <2>1 DEF InUse, Valid, ActiveIn, KidsIn, issuedVars
  <2>4. /\ records # << >>
        /\ KidsIn(records, {"active"}) \subseteq JwksKids(records)
        /\ KidsIn(records, {"active"}) \subseteq KidsIn(records, {"active", "previous", "retired"})
    <3>1. KidsIn(records, {"active"}) \subseteq KidsIn(records, {"active", "previous", "retired"})
      BY DEF KidsIn, InState
    <3> QED
      BY <1>1, <2>1, <3>1, SoundSets DEF TypeOK
  <2>5. SignedInv'
    BY <1>1, <2>1, <2>2, <2>3, <2>4 DEF RolloverInv, SignedInv, issuedVars
  <2>6. CoverInv'
    BY <1>2, <2>1, <2>2, <2>3, <2>4 DEF RolloverInv, CoverInv, Covers
  <2>7. FindableInv'
    BY <1>1, <1>2, <2>1, <2>2 DEF RolloverInv, FindableInv, issuedVars
  <2> QED
    BY <2>5, <2>6, <2>7
<1>9. ASSUME NEW given \in SignerLists, Restore(given)
      PROVE  (SignedInv /\ CoverInv /\ FindableInv)'
  <2>1. records' = stored /\ stored' = stored
    BY <1>9 DEF Restore
  <2>2. \A k \in Kids : InUse(k)' <=> InUse(k)
    BY <1>1, <2>1 DEF InUse, Valid, ActiveIn, InState, issuedVars
  <2>3. \A k \in Kids : k \in KidsIn(records', {"active"}) => InUse(k)
    BY <2>1 DEF KidsIn, ActiveIn, InUse
  <2>4. SignedInv'
    BY <1>1, <2>1, <2>2 DEF RolloverInv, SignedInv, issuedVars
  <2>5. CoverInv'
    BY <1>2, <2>1, <2>2, <2>3 DEF RolloverInv, CoverInv, Covers
  <2>6. FindableInv'
    BY <1>1, <1>2, <2>1 DEF RolloverInv, FindableInv, issuedVars
  <2> QED
    BY <2>4, <2>5, <2>6
<1> QED
  BY <1>3, <1>4, <1>5, <1>6, <1>7, <1>8, <1>9 DEF Operate

-----------------------------------------------------------------------------
(* What holds at all times, if the operator waits longer than the          *)
(* documented time.                                                        *)

LEMMA RolloverInit ==
  ASSUME Start
  PROVE  SignedInv /\ AgeInv /\ CoverInv /\ FindableInv
<1>1. /\ now = 1 /\ stored = << >>
      /\ configuration = NoEndpoint /\ fetch = NoEndpoint
      /\ replacedJwks = {} /\ replacedSigners = {} /\ answering = {}
      /\ \A J \in SUBSET Kids : configurations[J] = 0
      /\ \A k \in Kids : statements[k] = 0
  BY DEF Start, Init
<1>2. ~(1 <= 0)
  OBVIOUS
<1>3. /\ Serving = {} /\ Signing = {}
      /\ \A k : ~ActiveIn(stored, k)
  BY <1>1 DEF Serving, Signing, ServesJwks, SignsWith, ActiveIn, InState
<1>4. /\ \A k \in Kids : ~InUse(k)
      /\ \A J \in SUBSET Kids : ~Current(J)
  BY <1>1, <1>2, <1>3 DEF InUse, Current, Valid
<1> QED
  BY <1>1, <1>4 DEF SignedInv, AgeInv, CoverInv, FindableInv

LEMMA RolloverStep ==
  ASSUME KeysInv, RolloverInv, Slack # 0, [RolloverNext]_vars
  PROVE  RolloverInv'
<1>1. RolloverTypeOK' /\ AgeInv'
  BY RolloverTypeStep, AgeStep DEF RolloverInv
<1>2. (SignedInv /\ CoverInv /\ FindableInv)'
  BY OperateInv, TickInv, StopInv, DrainInv, AnswersInv, DeployConfigurationInv, DeployFetchInv,
     IssueConfigurationInv, IssueStatementInv
     DEF RolloverNext
<1> QED
  BY <1>1, <1>2 DEF RolloverInv

LEMMA RolloverCorrect ==
  ASSUME Slack # 0 PROVE RolloverSpec => [](KeysInv /\ RolloverInv)
<1>1. Start => RolloverInv
  BY RolloverInit, RolloverTypeInit DEF RolloverInv
<1>2. KeysInv /\ RolloverInv /\ [RolloverNext]_vars => RolloverInv'
  BY RolloverStep
<1> QED
  BY <1>1, <1>2, KeysCorrect, PTL DEF RolloverSpec

\* An operator who waits for the requests at replaced endpoints, and then at least
\* a second more than the documented time, never leaves a verifier with a valid
\* statement and a valid configuration that does not list the key of the statement,
\* unless that key was revoked.
THEOREM StatementsAlwaysVerify ==
  ASSUME Slack # 0 PROVE RolloverSpec => []StatementsVerify
<1>1. RolloverInv => StatementsVerify
  BY DEF RolloverInv, CoverInv, Covers, InUse, Current, StatementsVerify
<1> QED
  BY <1>1, RolloverCorrect, PTL

\* The same operator's historical keys endpoint answers nothing that a holder of a
\* valid configuration cannot verify, however late its signer is, unless the
\* signing key was revoked after the endpoint loaded the records.
THEOREM HistoricalAnswersAlwaysVerify ==
  ASSUME Slack # 0 PROVE RolloverSpec => []HistoricalAnswersVerify
<1>1. RolloverInv => HistoricalAnswersVerify
  BY DEF RolloverInv, RolloverTypeOK, CoverInv, Covers, InUse, Current, HistoricalAnswersVerify,
         VerifiesHistory
<1> QED
  BY <1>1, RolloverCorrect, PTL

LEMMA HistoricalKeysAre ==
  ASSUME NEW rs, NEW k, k \in HistoricalKids(rs)
  PROVE  \E h \in HistoricalKeys(rs) : h.kid = k
<1>1. PICK i \in InState(rs, {"retired"}) : rs[i].kid = k
  BY DEF HistoricalKids
<1>2. HistoricalKey(rs[i]) \in HistoricalKeys(rs)
  BY <1>1 DEF HistoricalKeys
<1>3. HistoricalKey(rs[i]).kid = k
  BY <1>1 DEF HistoricalKey
<1> QED
  BY <1>2, <1>3

\* The key of every statement the same operator ever issued is found by every
\* verifier, in the configuration it holds or among the historical keys.
THEOREM KeysAlwaysFindable ==
  ASSUME Slack # 0 PROVE RolloverSpec => []KeysStayFindable
<1>1. RolloverInv => KeysStayFindable
  <2> SUFFICES ASSUME RolloverInv, NEW k \in Kids, statements[k] # 0,
                      NEW J \in SUBSET Kids, Current(J)
               PROVE  Finds(k, J)
    BY ServedAreKids DEF RolloverInv, KeysStayFindable, Current
  <2> QED
    BY HistoricalKeysAre DEF RolloverInv, FindableInv, Finds
<1> QED
  BY <1>1, RolloverCorrect, PTL

-----------------------------------------------------------------------------
(* What the historical keys say of the statements.                         *)

\* Every key of the key set came with a kid and can be decoded.
PublicRecords(rs) ==
  \A i \in DOMAIN rs : rs[i].kid \in Kids /\ rs[i].form = "public"

\* A retired key expires after everything it signed.
ExpiryInv(rs) ==
  \A i \in InState(rs, {"retired"}) :
    rs[i].revoked = NoTime => statements[rs[i].kid] <= rs[i].retired_at

HistoryInv ==
  /\ PublicRecords(records) /\ PublicRecords(stored)
  /\ ExpiryInv(records) /\ ExpiryInv(stored)

\* A key in use is not a retired one.
LEMMA RetiredIsNotInUse ==
  ASSUME NEW rs \in Seq(KeyRecord), Sound(rs), NEW k \in Visible(rs),
         NEW i \in InState(rs, {"retired"}), rs[i].revoked = NoTime
  PROVE  rs[i].kid # k
BY DEF Sound, DistinctKids, Visible, JwksKids, RevokedKids, Published, InState

LEMMA OperateHistory ==
  ASSUME KeysInv, RolloverInv, HistoryInv, Slack # 0, Operate
  PROVE  HistoryInv'
<1>1. statements' = statements /\ stored \in Seq(KeyRecord) /\ records \in Seq(KeyRecord)
  BY DEF Operate, issuedVars, KeysInv, TypeOK
<1>2. CASE UNCHANGED stored /\ PublicRecords(records') /\ ExpiryInv(records')
  <2>1. ExpiryInv(records)' /\ PublicRecords(records)'
    BY <1>1, <1>2 DEF ExpiryInv, PublicRecords
  <2> QED
    BY <1>1, <1>2, <2>1 DEF HistoryInv, ExpiryInv, PublicRecords
<1>3. ASSUME NEW k \in Kids, New(k, PublicKey(k)) \/ AddNext(k, PublicKey(k))
      PROVE  HistoryInv'
  <2>1. PICK rs \in {<< >>, records}, s \in {"active", "next"} :
          records' = Append(rs, [kid |-> k, form |-> "public", state |-> s,
                                 retired_at |-> NoTime, revoked |-> NoTime])
    BY <1>3 DEF New, AddNext, Insert, PublicKey
  <2>6. rs \in Seq(KeyRecord)
    <3>1. << >> \in Seq(KeyRecord)
      OBVIOUS
    <3> QED
      BY <1>1, <2>1, <3>1
  <2> DEFINE r == [kid |-> k, form |-> "public", state |-> s,
                   retired_at |-> NoTime, revoked |-> NoTime]
  <2>2. /\ DOMAIN records' = 1..(Len(rs) + 1)
        /\ records'[Len(rs) + 1] = r
        /\ \A i \in 1..Len(rs) : i \in DOMAIN rs /\ records'[i] = rs[i]
    <3> HIDE DEF r
    <3>2. /\ DOMAIN Append(rs, r) = 1..(Len(rs) + 1)
          /\ Append(rs, r)[Len(rs) + 1] = r
          /\ \A i \in 1..Len(rs) : i \in DOMAIN rs /\ Append(rs, r)[i] = rs[i]
      BY <2>6
    <3> QED
      BY <2>1, <3>2 DEF r
  <2>5. \A i \in DOMAIN records' :
          \/ i \in DOMAIN rs /\ records'[i] = rs[i]
          \/ records'[i].kid = k /\ records'[i].form = "public" /\ records'[i].state = s
    BY <2>2, <2>6
  <2>3. PublicRecords(rs) /\ ExpiryInv(rs)
    BY DEF HistoryInv, PublicRecords, ExpiryInv, InState
  <2>4. PublicRecords(records') /\ ExpiryInv(records')
    BY <2>1, <2>5, <2>3 DEF PublicRecords, ExpiryInv, InState
  <2> QED
    BY <1>2, <1>3, <2>4 DEF New, AddNext, Insert
<1>4. ASSUME NEW k \in Kids, Activate(k)
      PROVE  HistoryInv'
  <2>1. PICK i \in DOMAIN records : records' = WithActive(i)
    BY <1>4 DEF Activate
  <2>2. /\ DOMAIN records' = DOMAIN records
        /\ \A j \in DOMAIN records :
             /\ records'[j].kid = records[j].kid /\ records'[j].form = records[j].form
             /\ records'[j].state = "retired" => records'[j] = records[j]
    BY <1>1, <2>1 DEF WithActive, KeyRecord
  <2>3. PublicRecords(records') /\ ExpiryInv(records')
    BY <2>2 DEF HistoryInv, PublicRecords, ExpiryInv, InState
  <2> QED
    BY <1>2, <1>4, <2>3 DEF Activate
<1>5. ASSUME NEW k \in Kids, MayRetire(k), Retire(k, now)
      PROVE  HistoryInv'
  <2>1. PICK i \in DOMAIN records :
          /\ records[i].kid = k
          /\ records' = [records EXCEPT ![i] = AsRetired(records[i], now)]
    BY <1>5 DEF Retire, Requires
  <2>2. /\ DOMAIN records' = DOMAIN records
        /\ records'[i].kid = k /\ records'[i].form = records[i].form
        /\ records'[i].retired_at = now
        /\ \A j \in DOMAIN records \ {i} : records'[j] = records[j]
    <3>1. records[i] \in KeyRecord
      BY <1>1
    <3>2. /\ AsRetired(records[i], now).kid = records[i].kid
          /\ AsRetired(records[i], now).form = records[i].form
          /\ AsRetired(records[i], now).retired_at = now
      BY <3>1 DEF AsRetired, KeyRecord
    <3> QED
      BY <1>1, <2>1, <3>2
  <2>3. statements[k] <= now
    <3>1. ~InUse(k)
      BY <1>5, InUseIsNotRetired DEF Retire
    <3> QED
      BY <3>1, Numbers DEF InUse, Valid, RolloverInv
  <2>4. PublicRecords(records') /\ ExpiryInv(records')
    BY <2>1, <2>2, <2>3 DEF HistoryInv, PublicRecords, ExpiryInv, InState
  <2> QED
    BY <1>2, <1>5, <2>4 DEF Retire
<1>6. ASSUME NEW k \in Kids, now \in Times, Revoke(k, now)
      PROVE  HistoryInv'
  <2>1. PICK i \in DOMAIN records :
          records' = [records EXCEPT ![i] = AsRevoked(records[i], now)]
    BY <1>6 DEF Revoke
  <2>2. /\ DOMAIN records' = DOMAIN records
        /\ records'[i].kid = records[i].kid /\ records'[i].form = records[i].form
        /\ records'[i].revoked # NoTime
        /\ \A j \in DOMAIN records \ {i} : records'[j] = records[j]
    <3>1. records[i] \in KeyRecord
      BY <1>1
    <3>2. /\ AsRevoked(records[i], now).kid = records[i].kid
          /\ AsRevoked(records[i], now).form = records[i].form
          /\ AsRevoked(records[i], now).revoked = now
      BY <3>1 DEF AsRetired, AsRevoked, KeyRecord
    <3>3. now # NoTime
      BY <1>6, KeysAssumption
    <3> QED
      BY <1>1, <2>1, <3>2, <3>3
  <2>3. PublicRecords(records') /\ ExpiryInv(records')
    BY <2>1, <2>2 DEF HistoryInv, PublicRecords, ExpiryInv, InState
  <2> QED
    BY <1>2, <1>6, <2>3 DEF Revoke
<1>7. CASE Save \/ \E given \in SignerLists : Restore(given)
  <2>1. records' \in {records, stored} /\ stored' \in {records, stored}
    BY <1>7 DEF Save, Restore
  <2> QED
    BY <1>1, <2>1 DEF HistoryInv, PublicRecords, ExpiryInv
<1> QED
  BY <1>3, <1>4, <1>5, <1>6, <1>7 DEF Operate

LEMMA HistoryStep ==
  ASSUME KeysInv, RolloverInv, HistoryInv, Slack # 0, [RolloverNext]_vars
  PROVE  HistoryInv'
<1>1. CASE UNCHANGED <<stored, statements>> /\ records' \in {records, << >>}
  BY <1>1 DEF HistoryInv, PublicRecords, ExpiryInv, InState
<1>2. CASE IssueStatement
  <2>1. PICK j \in Signing : statements' = [statements EXCEPT ![j] = now + StatementLifetime]
    BY <1>2 DEF IssueStatement
  <2>2. /\ up /\ j \in Kids /\ j \in Visible(records) /\ j \in Visible(stored)
        /\ UNCHANGED keyVars
    BY <1>2, <2>1, ServedAreKids
       DEF RolloverInv, RolloverTypeOK, SignedInv, InUse, Visible, IssueStatement
  <2>3. Sound(records) /\ Sound(stored)
    <3>1. stored # << >>
      BY <2>2 DEF Visible, JwksKids, RevokedKids, Published, InState
    <3> QED
      BY <2>2, <3>1 DEF KeysInv, KeySetInv, StoreInv
  <2>4. ASSUME NEW rs \in {records, stored} PROVE ExpiryInv(rs)'
    <3>1. \A i \in InState(rs, {"retired"}) : rs[i].revoked = NoTime => rs[i].kid # j
      BY <2>2, <2>3, RetiredIsNotInUse DEF KeysInv, TypeOK
    <3>2. \A i \in InState(rs, {"retired"}) : rs[i].kid \in Kids
      BY DEF HistoryInv, PublicRecords, InState
    <3>3. rs' = rs
      BY <2>2 DEF keyVars
    <3>4. \A k \in Kids \ {j} : statements'[k] = statements[k]
      BY <2>1 DEF RolloverInv, RolloverTypeOK
    <3> QED
      BY <3>1, <3>2, <3>3, <3>4 DEF HistoryInv, ExpiryInv
  <2> QED
    BY <2>2, <2>4 DEF HistoryInv, PublicRecords, ExpiryInv, keyVars
<1>3. CASE ~Operate /\ ~IssueStatement
  BY <1>1, <1>3 DEF RolloverNext, Tick, Stop, Crash, DeployConfiguration, DeployFetch,
     DeployHistorical, DrainConfiguration, DrainFetch, IssueConfiguration, StartAnswer, EndAnswers,
     vars, keyVars, issuedVars
<1> QED
  BY <1>2, <1>3, OperateHistory

\* The same operator's historical keys can be published at any time, and none of
\* them expires before a statement that it signed, unless it was revoked.
THEOREM HistoryAlwaysCovers ==
  ASSUME Slack # 0 PROVE RolloverSpec => []HistoryCoversStatements
<1>1. Start => HistoryInv
  BY DEF Start, Init, HistoryInv, PublicRecords, ExpiryInv, InState
<1>2. KeysInv /\ RolloverInv /\ HistoryInv /\ [RolloverNext]_vars => HistoryInv'
  BY HistoryStep
<1>3. KeysInv /\ HistoryInv => HistoryCoversStatements
  <2> SUFFICES ASSUME KeysInv, HistoryInv PROVE HistoryCoversStatements
    OBVIOUS
  <2>1. stored # << >> => Sound(stored)
    BY DEF KeysInv, StoreInv
  <2>2. HistoryIsPublishable(stored)
    BY <2>1, KeysAssumption
       DEF HistoryInv, PublicRecords, HistoryIsPublishable, Sound, RetiredAreDated,
           DistinctKids, InState, CanBePublished, CanBeDecoded
  <2> QED
    BY <2>2 DEF HistoryInv, ExpiryInv, HistoryCoversStatements, HistoricalKeys, HistoricalKey
<1> QED
  BY <1>1, <1>2, <1>3, RolloverCorrect, PTL DEF RolloverSpec
=============================================================================
