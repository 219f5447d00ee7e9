-------------------------- MODULE MCFederationKeys --------------------------
(***************************************************************************)
(* Small instances of FederationKeys.  ForeignLists are lists of one or    *)
(* two records in which every check of from_records has something to find. *)
(***************************************************************************)
EXTENDS FederationKeys

AllSignerLists == UNION {[1..n -> Kids] : n \in 0..3}

Rec(k, form, state, retired, revoked) ==
  [kid |-> k, form |-> form, state |-> state, retired_at |-> retired, revoked |-> revoked]

ForeignRecs ==
  LET t == CHOOSE t \in Times : TRUE
  IN UNION {
       {Rec(k, "public", "active", NoTime, NoTime) : k \in Kids},
       {Rec(k, "public", "previous", NoTime, NoTime) : k \in Kids},
       {Rec(k, "public", s, NoTime, t) : k \in Kids, s \in {"active", "previous"}},
       {Rec(k, "public", "retired", r, NoTime) : k \in Kids \cup {NoKid}, r \in {t, NoTime}},
       {Rec(k, f, "next", NoTime, NoTime) : k \in Kids, f \in Forms},
       {Rec(NoKid, "public", "next", NoTime, NoTime)}}

ForeignLists == UNION {[1..n -> ForeignRecs] : n \in 0..2}
=============================================================================
