--------------------------- MODULE MetadataPolicy ---------------------------
(***************************************************************************)
(* Metadata policies along a Trust Chain (policy.rs, types.rs): the        *)
(* policies of the Subordinate Statements are merged into one, from the    *)
(* Trust Anchor down, and the result is applied to the subject's metadata, *)
(* whose Entity Types have fields of their own types (metadata.rs).        *)
(*                                                                         *)
(* Parameters do not affect each other, except that one policy error ends  *)
(* the resolution, so the policies here are those of a single parameter of *)
(* a single Entity Type.  A parameter that only one policy has is copied,  *)
(* as is an Entity Type, so both are the case of a statement that has no   *)
(* policy.                                                                 *)
(***************************************************************************)
EXTENDS Naturals, Sequences, FiniteSets, SequencesExt

CONSTANTS
  None,      \* an operator, policy or parameter that is absent
  Chains,    \* the chains of Subordinate Statements to resolve, superior first
  Listed,    \* the values that operators list
  Metadata,  \* the values the subject may publish for the parameter, or None
  Parameters,\* the parameters a policy is applied to
  Urls,      \* the words that are URLs,
  Endpoints, \*   and of those the ones that can be a federation endpoint
  NoAlgorithm \* the word none

(* JSON values: null, strings as their space-separated words, arrays, and  *)
(* any other value.                                                        *)
Null == [type |-> "null"]

Other == [type |-> "other"]

String(words) == [type |-> "string", words |-> words]

Array(elements) == [type |-> "array", elements |-> elements]

Scalars == {Null, Other} \cup [type : {"string"}, words : Seq(STRING)]

Values == Scalars \cup [type : {"array"}, elements : Seq(Scalars)]

-----------------------------------------------------------------------------
(* The operators of one parameter; of those that no standard defines, the  *)
(* names.                                                                  *)

Operands == {operand \in SUBSET Listed : IsFiniteSet(operand)}

Policies ==
  [value       : Values \cup {None},
   add         : Operands \cup {None},
   default     : Values \cup {None},
   one_of      : Operands \cup {None},
   subset_of   : Operands \cup {None},
   superset_of : Operands \cup {None},
   essential   : BOOLEAN \cup {None},
   additional  : SUBSET STRING]

NoOperators ==
  [value |-> None, add |-> None, default |-> None, one_of |-> None, subset_of |-> None,
   superset_of |-> None, essential |-> None, additional |-> {}]

HasOperator(p) == p # NoOperators

\* Of a Subordinate Statement, what the resolution reads.
Statements == [policy : Policies \cup {None}, crit : SUBSET STRING]

-----------------------------------------------------------------------------
(* The parameters of the Entity Types, by the JSON values their fields     *)
(* take.  Other is a value that fits a Boolean, a number or a jwks.        *)

Field(json, required) == [json |-> json, required |-> required]

Optional == [json : {"string", "url", "array", "urls", "other"}, required : {FALSE}]

FederationEntityMetadata ==
  {Field(json, FALSE) : json \in {"string", "url", "array", "endpoint", "algorithms"}}

OpenIdConnectProviderMetadata ==
  {Field("url", TRUE), Field("array", TRUE)} \cup {f \in Optional : f.json \notin {"string", "urls"}}

OpenIdConnectRelyingPartyMetadata == {Field("urls", TRUE)} \cup Optional

OauthAuthorizationServerMetadata ==
  {Field("url", TRUE)} \cup {f \in Optional : f.json \in {"url", "array"}}

\* What no field takes is kept as it is, as are whole Entity Types that have no
\* fields; scope is such a parameter, a string of values.
EntityMetadata ==
  FederationEntityMetadata \cup OpenIdConnectProviderMetadata
    \cup OpenIdConnectRelyingPartyMetadata \cup OauthAuthorizationServerMetadata
    \cup {Field("any", FALSE), Field("scope", FALSE)}

ASSUME NoneAssumption ==
  /\ None \notin Values /\ None \notin BOOLEAN /\ None \notin Policies
  /\ \A operand \in Operands : operand # None

ASSUME InputsAssumption ==
  Listed \subseteq Values /\ Chains \subseteq Seq(Statements) /\ Metadata \subseteq Values \cup {None}

ASSUME ParametersAssumption == Parameters \subseteq EntityMetadata /\ Endpoints \subseteq Urls

VARIABLES
  statements,  \* the chain: records with a policy and the critical operators
  at,          \* the statement whose policy is next
  resolved,    \* the policy so far, None if no statement had one
  outcome      \* "resolving", "resolved" or "refused"

vars == <<statements, at, resolved, outcome>>

-----------------------------------------------------------------------------
(* PolicyOperators::validate.                                              *)

IsArray(v) == v # None /\ v.type = "array"

\* The values of a value operator.
ValuesOf(v) ==
  CASE v.type = "array" -> ToSet(v.elements)
    [] v.type = "null"  -> {}
    [] OTHER            -> {v}

\* No operand holds an array, null or a Boolean.
OperandsFit(p) ==
  /\ p.default # Null
  /\ \A operand \in {p.add, p.one_of, p.subset_of, p.superset_of} \ {None} :
       \A v \in operand : v.type \in {"string", "other"}

OneOfStandsAlone(p) ==
  p.one_of # None => p.add = None /\ p.subset_of = None /\ p.superset_of = None

NullStandsAlone(p) == p.value = Null => p.default = None /\ p.essential # TRUE

ValueFits(p) ==
  p.value # None =>
    /\ p.one_of # None => p.value \in p.one_of
    /\ p.subset_of # None => ValuesOf(p.value) \subseteq p.subset_of
    /\ p.superset_of # None => p.superset_of \subseteq ValuesOf(p.value)
    /\ p.add # None => p.add \subseteq ValuesOf(p.value)

SetsFit(p) ==
  p.subset_of # None =>
    /\ p.add # None => p.add \subseteq p.subset_of
    /\ p.superset_of # None => p.superset_of \subseteq p.subset_of

Valid(p) ==
  OperandsFit(p) /\ OneOfStandsAlone(p) /\ NullStandsAlone(p) /\ ValueFits(p) /\ SetsFit(p)

-----------------------------------------------------------------------------
(* merge_operators.                                                        *)

Both(c, n) == c # None /\ n # None

CanMerge(c, n) ==
  /\ Both(c.value, n.value) => c.value = n.value
  /\ Both(c.default, n.default) => c.default = n.default
  /\ Both(c.one_of, n.one_of) => c.one_of \cap n.one_of # {}

Either(c, n) == IF c = None THEN n ELSE c

Unite(c, n) == IF Both(c, n) THEN c \cup n ELSE Either(c, n)

Intersect(c, n) == IF Both(c, n) THEN c \cap n ELSE Either(c, n)

\* Mistake: the Subordinate's essential replaces the Superior's.
MergedLastEssential(c, n) ==
  [value       |-> Either(c.value, n.value),
   add         |-> Unite(c.add, n.add),
   default     |-> Either(c.default, n.default),
   one_of      |-> Intersect(c.one_of, n.one_of),
   subset_of   |-> Intersect(c.subset_of, n.subset_of),
   superset_of |-> Unite(c.superset_of, n.superset_of),
   essential   |-> Either(n.essential, c.essential),
   additional  |-> c.additional \cup n.additional]

\* The Subordinate's policy `n` merged into the Superiors' policy `c`.
Merged(c, n) ==
  [value       |-> Either(c.value, n.value),
   add         |-> Unite(c.add, n.add),
   default     |-> Either(c.default, n.default),
   one_of      |-> Intersect(c.one_of, n.one_of),
   subset_of   |-> Intersect(c.subset_of, n.subset_of),
   superset_of |-> Unite(c.superset_of, n.superset_of),
   essential   |-> IF Both(c.essential, n.essential)
                   THEN c.essential \/ n.essential
                   ELSE Either(c.essential, n.essential),
   additional  |-> c.additional \cup n.additional]

-----------------------------------------------------------------------------
(* resolve_metadata_policy.                                                *)

\* Mistake: only the statements down to the policy are looked at.
CriticalSoFar == UNION {statements[i].crit : i \in 1..at}

\* The operators that any statement of the chain calls critical.  None of them
\* is implemented.
Critical == UNION {statements[i].crit : i \in DOMAIN statements}

Policy == statements[at].policy

IsUnderstood(p) == HasOperator(p) /\ Valid(p) /\ p.additional \cap Critical = {}

Init ==
  /\ statements \in Chains
  /\ at = 1
  /\ resolved = None
  /\ outcome = "resolving"

Resolving == outcome = "resolving" /\ at <= Len(statements)

SkipStatement ==
  /\ Resolving
  /\ Policy = None
  /\ at' = at + 1
  /\ UNCHANGED <<statements, resolved, outcome>>

TakeFirst ==
  /\ Resolving
  /\ Policy # None /\ IsUnderstood(Policy)
  /\ resolved = None
  /\ resolved' = Policy
  /\ at' = at + 1
  /\ UNCHANGED <<statements, outcome>>

\* Mistake: the merged policy is not validated again.
MergeNextUnchecked ==
  /\ Resolving
  /\ Policy # None /\ IsUnderstood(Policy)
  /\ resolved # None
  /\ CanMerge(resolved, Policy)
  /\ resolved' = Merged(resolved, Policy)
  /\ at' = at + 1
  /\ UNCHANGED <<statements, outcome>>

MergeNext ==
  /\ Resolving
  /\ Policy # None /\ IsUnderstood(Policy)
  /\ resolved # None
  /\ CanMerge(resolved, Policy) /\ Valid(Merged(resolved, Policy))
  /\ resolved' = Merged(resolved, Policy)
  /\ at' = at + 1
  /\ UNCHANGED <<statements, outcome>>

Refuse ==
  /\ Resolving
  /\ Policy # None
  /\ \/ ~IsUnderstood(Policy)
     \/ resolved # None /\ ~(CanMerge(resolved, Policy) /\ Valid(Merged(resolved, Policy)))
  /\ outcome' = "refused"
  /\ UNCHANGED <<statements, at, resolved>>

Finish ==
  /\ outcome = "resolving" /\ at > Len(statements)
  /\ outcome' = "resolved"
  /\ UNCHANGED <<statements, at, resolved>>

Next == SkipStatement \/ TakeFirst \/ MergeNext \/ Refuse \/ Finish

Spec == Init /\ [][Next]_vars

-----------------------------------------------------------------------------
(* apply_operators, on a parameter that is `given` or None, with whether it *)
(* is scope.                                                               *)

AsProcessed(scope, v) ==
  IF scope /\ v # None /\ v.type = "string"
  THEN Array([i \in DOMAIN v.words |-> String(<<v.words[i]>>)])
  ELSE v

IsWord(v) == v.type = "string" /\ Len(v.words) = 1

\* A value of several words is written as several values.
AsWritten(scope, v) ==
  IF scope /\ IsArray(v) /\ \A i \in DOMAIN v.elements : v.elements[i].type = "string"
  THEN String(IF \A i \in DOMAIN v.elements : IsWord(v.elements[i])
              THEN [i \in DOMAIN v.elements |-> v.elements[i].words[1]]
              ELSE FlattenSeq([i \in DOMAIN v.elements |-> v.elements[i].words]))
  ELSE v

Elements(v) == IF v = None THEN << >> ELSE v.elements

Assigned(scope, p, given) ==
  CASE p.value = None -> AsProcessed(scope, given)
    [] p.value = Null -> None
    [] OTHER          -> AsProcessed(scope, p.value)

\* Mistake: add appends values that the parameter has.
ExtendedAgain(p, v) ==
  IF p.add = None THEN v ELSE Array(Elements(v) \o SetToSeq(p.add))

\* The order in which add appends is left open.
Extended(p, v) ==
  IF p.add = None THEN v
  ELSE Array(Elements(v) \o SetToSeq(p.add \ ToSet(Elements(v))))

Defaulted(scope, p, v) == IF v = None THEN AsProcessed(scope, p.default) ELSE v

Present(scope, p, given) == Defaulted(scope, p, Extended(p, Assigned(scope, p, given)))

\* The places of a sequence that hold a member of `set`, and the subsequence.
Places(s, set) == {i \in DOMAIN s : s[i] \in set}

Retained(s, set) ==
  LET place(n) == CHOOSE i \in Places(s, set) : Cardinality({j \in Places(s, set) : j <= i}) = n
  IN [n \in 1..Cardinality(Places(s, set)) |-> s[place(n)]]

Narrowed(p, v) ==
  IF p.subset_of = None \/ v = None THEN v
  ELSE Array(Retained(v.elements, p.subset_of))

Applied(scope, p, given) == AsWritten(scope, Narrowed(p, Present(scope, p, given)))

\* No operator fails.
Applies(scope, p, given) ==
  /\ Valid(p)
  /\ p.add # None => Assigned(scope, p, given) = None \/ IsArray(Assigned(scope, p, given))
  /\ LET present == Present(scope, p, given)
         result == Applied(scope, p, given)
     IN /\ p.one_of # None => present = None \/ AsWritten(scope, present) \in p.one_of
        /\ p.subset_of # None \/ p.superset_of # None => present = None \/ IsArray(present)
        /\ p.superset_of # None /\ present # None =>
             p.superset_of \subseteq ToSet(Narrowed(p, present).elements)
        /\ p.essential = TRUE => present # None
        /\ scope => result = None \/ result.type = "string"

-----------------------------------------------------------------------------
(* apply_metadata_policy, on one parameter.                                *)

IsUrl(v) == v.type = "string" /\ Len(v.words) = 1 /\ v.words[1] \in Urls

\* FederationEntityMetadata::validate, with UrlValidator::validate_endpoint_url.
IsEndpoint(v) == IsUrl(v) /\ v.words[1] \in Endpoints

\* The value that a field holds for a JSON value, None if there is none: an
\* optional field takes null for an absent value.
Held(f, v) == IF v = Null /\ f.json \notin {"any", "scope"} THEN None ELSE v

Fits(f, v) ==
  IF v = None THEN ~f.required
  ELSE CASE f.json = "string"     -> v.type = "string"
         [] f.json = "url"        -> IsUrl(v)
         [] f.json = "endpoint"   -> IsEndpoint(v)
         [] f.json = "array"      -> IsArray(v)
         [] f.json = "algorithms" -> IsArray(v) /\ String(<<NoAlgorithm>>) \notin ToSet(v.elements)
         [] f.json = "urls"       -> IsArray(v) /\ \A i \in DOMAIN v.elements : IsUrl(v.elements[i])
         [] f.json = "other"      -> v = Other
         [] OTHER                 -> TRUE

IsScope(f) == f.json = "scope"

Resolved(f, p, given) == Held(f, Applied(IsScope(f), p, given))

Resolves(f, p, given) == Applies(IsScope(f), p, given) /\ Fits(f, Resolved(f, p, given))

\* The metadata that a subject can have: it was read with the same types, and a
\* parameter that is repeated among the additional ones was refused.
Published(f) == {given \in Metadata : Held(f, given) = given /\ Fits(f, given)}

-----------------------------------------------------------------------------
(* Properties.                                                             *)

\* The resolved policy is one that a single entity could have published: the
\* comment in apply_operators, "A resolved policy is valid already".
TypeOK ==
  /\ statements \in Chains
  /\ at \in 1..(Len(statements) + 1)
  /\ outcome \in {"resolving", "resolved", "refused"}
  /\ resolved # None => resolved \in Policies /\ HasOperator(resolved) /\ Valid(resolved)

\* A scope is written back as words, so a value of several words that an operator
\* or the subject puts into it comes apart.  None does here.
ScopeOfWords(f, p, given) ==
  IsScope(f) =>
    /\ \A operand \in {p.add, p.subset_of} \ {None} : \A v \in operand : v.type = "string" => IsWord(v)
    /\ \A v \in {p.value, p.default, given} :
         IsArray(v) => \A i \in DOMAIN v.elements : v.elements[i].type = "string" => IsWord(v.elements[i])

\* What the policy `p` demands of a parameter that resolved to `v`.  A value of
\* null demands that there are no values, the weaker of its two readings, since
\* an add without values makes a removed parameter an empty array.
Complies(scope, p, v) ==
  LET values == IF v = None THEN {} ELSE ValuesOf(AsProcessed(scope, v))
  IN /\ p.value # None =>
          IF p.value = Null THEN values = {} ELSE v = AsWritten(scope, AsProcessed(scope, p.value))
     /\ p.add # None => v # None /\ p.add \subseteq values
     /\ p.default # None => v # None
     /\ p.one_of # None => v = None \/ v \in p.one_of
     /\ p.subset_of # None => values \subseteq p.subset_of
     /\ p.superset_of # None => v = None \/ p.superset_of \subseteq values
     /\ p.essential = TRUE => v # None

\* "A Subordinate cannot repeal or loosen what a Superior set": whatever the
\* subject publishes, what the merged policy makes of it is what every policy
\* of the chain demands, however the operators below are combined with it, and
\* also after a field has read it.
NoSubordinateLoosens ==
  outcome = "resolved" /\ resolved # None =>
    \A f \in Parameters : \A given \in Published(f) :
      Resolves(f, resolved, given) /\ ScopeOfWords(f, resolved, given) =>
        \A i \in DOMAIN statements :
          statements[i].policy # None =>
            Complies(IsScope(f), statements[i].policy, Resolved(f, resolved, given))

\* No chain resolves in which some statement, above or below the policy, calls
\* an operator critical that the policy uses and this crate does not implement.
CriticalIsNeverIgnored ==
  outcome = "resolved" =>
    \A i, j \in DOMAIN statements :
      statements[i].policy # None =>
        statements[i].policy.additional \cap statements[j].crit = {}

\* Resolved Metadata is a fixed point: it is metadata its subject could have
\* published, and applying the resolved policy to it again succeeds and changes
\* nothing, so it does not matter who applied it first.
ApplicationIsIdempotent ==
  outcome = "resolved" /\ resolved # None =>
    \A f \in Parameters : \A given \in Published(f) :
      Resolves(f, resolved, given) /\ ScopeOfWords(f, resolved, given) =>
        LET result == Resolved(f, resolved, given)
        IN /\ Held(f, result) = result /\ Fits(f, result)
           /\ Resolves(f, resolved, result) /\ Resolved(f, resolved, result) = result
=============================================================================
