-------------------------- MODULE AnchoredDiscovery -------------------------
(***************************************************************************)
(* FederationClient::discover_trust_chain (utils.rs): a depth-first walk   *)
(* from an entity towards a set of Trust Anchors.  The recursion of        *)
(* discover_recursive is a stack with a frame per call; every request is   *)
(* an await, between which the federation moves on.                        *)
(***************************************************************************)
EXTENDS DiscoveryWalk

CONSTANTS
  TrustedAnchors,   \* what a caller may give as trusted_anchors
  TrustAnchorHints, \* what the start entity may publish; {} stands for none
  NoAnchors         \* no trusted_anchors given

ASSUME AnchoredAssumption ==
  /\ TrustedAnchors \subseteq (SUBSET Entities) \cup {NoAnchors}
  /\ TrustAnchorHints \subseteq SUBSET Entities

VARIABLE anchors  \* trusted_anchors, given or read from the start entity

anchoredWalkVars == <<anchors, step, target, stack, superior, visited, chain, result>>
anchoredVars == <<worldVars, anchoredWalkVars>>

AnchoredInit ==
  /\ FederationInit
  /\ anchors \in TrustedAnchors
  /\ step = "start"
  /\ target = Start
  /\ stack = << >>
  /\ superior = Configuration(Start)
  /\ visited = {}
  /\ chain = << >>
  /\ result = "none"

-----------------------------------------------------------------------------

\* Mistake: the caller keeps what the failed call added to the chain.
FailsKeepingChain(callers) ==
  IF callers = << >>
  THEN step' = "done" /\ result' = "failed" /\ stack' = << >> /\ chain' = chain
  ELSE /\ step' = "superior"
       /\ stack' = Advanced(callers)
       /\ chain' = chain
       /\ result' = result

\* The innermost call returns an error: its caller drops what was added to the
\* chain and goes on to its next hint, or the walk has failed.
Fails(callers) ==
  IF callers = << >>
  THEN step' = "done" /\ result' = "failed" /\ stack' = << >> /\ chain' = chain
  ELSE /\ step' = "superior"
       /\ stack' = Advanced(callers)
       /\ chain' = SubSeq(chain, 1, Last(callers).base)
       /\ result' = result

AnchoredSkipHint ==
  /\ step' = "superior"
  /\ stack' = Advanced(stack)
  /\ UNCHANGED <<anchors, target, superior, visited, chain, result>>

BeginFails == step' = "done" /\ result' = "failed" /\ UNCHANGED anchors

\* discover_trust_chain resolves the start entity once before the walk, whose
\* trust_anchor_hints take the place of anchors that were not given.
Begin ==
  /\ step = "start"
  /\ UNCHANGED <<target, stack, superior, visited, chain>>
  /\ \/ Unanswered /\ BeginFails
     \/ /\ UNCHANGED <<worldVars, result>>
        /\ step' = "enter"
        /\ IF anchors = NoAnchors
           THEN anchors' \in TrustAnchorHints \ {{}}
           ELSE UNCHANGED anchors
     \/ anchors = NoAnchors /\ {} \in TrustAnchorHints /\ BeginFails /\ UNCHANGED worldVars

AnchoredEnterLoop ==
  /\ step = "enter"
  /\ target \in visited
  /\ Fails(stack)
  /\ UNCHANGED <<worldVars, anchors, target, superior, visited>>

\* The configuration of the root and of an anchor goes into the chain.
AnchoredEnter ==
  /\ step = "enter"
  /\ target \notin visited
  /\ visited' = visited \cup {target}
  /\ UNCHANGED <<anchors, target, superior>>
  /\ \/ Unanswered /\ Fails(stack)
     \/ /\ UNCHANGED worldVars
        /\ \/ /\ target \in anchors
              /\ chain' = Append(chain, Configuration(target))
              /\ step' = "found"
              /\ UNCHANGED <<stack, result>>
           \/ /\ target \notin anchors
              /\ hints[target] # << >>
              /\ chain' = IF chain = << >> THEN <<Configuration(target)>> ELSE chain
              /\ stack' = Append(stack, [entity |-> target, next |-> 1, base |-> 0])
              /\ step' = "superior"
              /\ UNCHANGED result
           \/ /\ target \notin anchors
              /\ hints[target] = << >>
              /\ Fails(stack)

\* Mistake: a Superior without a fetch endpoint ends the whole walk.
AnchoredAskSuperiorOrFail ==
  /\ step = "superior"
  /\ HasHint
  /\ \/ Unanswered /\ AnchoredSkipHint
     \/ /\ NextHint \in endpoints
        /\ superior' = Configuration(NextHint)
        /\ step' = "statement"
        /\ UNCHANGED <<worldVars, anchors, target, stack, visited, chain, result>>
     \/ /\ NextHint \notin endpoints
        /\ Fails(<< >>)
        /\ UNCHANGED <<worldVars, anchors, target, superior, visited>>

\* A Superior without a fetch endpoint ends the whole call, not only the hint.
AnchoredAskSuperior ==
  /\ step = "superior"
  /\ HasHint
  /\ \/ Unanswered /\ AnchoredSkipHint
     \/ /\ NextHint \in endpoints
        /\ superior' = Configuration(NextHint)
        /\ step' = "statement"
        /\ UNCHANGED <<worldVars, anchors, target, stack, visited, chain, result>>
     \/ /\ NextHint \notin endpoints
        /\ Fails(Front(stack))
        /\ UNCHANGED <<worldVars, anchors, target, superior, visited>>

AnchoredAskStatement ==
  /\ step = "statement"
  /\ \/ Unanswered /\ AnchoredSkipHint
     \/ ~StatementVerifies(superior, Frame.entity) /\ AnchoredSkipHint /\ UNCHANGED worldVars
     \/ /\ StatementVerifies(superior, Frame.entity)
        /\ chain' = Append(chain, Statement(superior.sub, Frame.entity))
        /\ stack' = [stack EXCEPT ![Len(stack)].base = Len(chain)]
        /\ target' = superior.sub
        /\ step' = "enter"
        /\ UNCHANGED <<worldVars, anchors, superior, visited, result>>

NoHintLeft ==
  /\ step = "superior"
  /\ ~HasHint
  /\ Fails(Front(stack))
  /\ UNCHANGED <<worldVars, anchors, target, superior, visited>>

\* Mistake: what the walk put together is returned as it is.
AuthenticateNothing ==
  /\ step = "found"
  /\ step' = "done"
  /\ result' = "chain"
  /\ UNCHANGED <<worldVars, anchors, target, stack, superior, visited, chain>>

\* The first path to an anchor is the only one that try_new is asked about.
Authenticate ==
  /\ step = "found"
  /\ step' = "done"
  /\ result' = IF Authenticates(chain) THEN "chain" ELSE "rejected"
  /\ UNCHANGED <<worldVars, anchors, target, stack, superior, visited, chain>>

AnchoredWalk ==
  \/ Begin \/ AnchoredEnter \/ AnchoredEnterLoop
  \/ AnchoredAskSuperior \/ AnchoredAskStatement \/ NoHintLeft
  \/ Authenticate

AnchoredNext ==
  \/ AnchoredWalk
  \/ step # "done" /\ WorldNext /\ UNCHANGED anchoredWalkVars

AnchoredSpec == AnchoredInit /\ [][AnchoredNext]_anchoredVars

-----------------------------------------------------------------------------
(* Properties.                                                             *)

\* Every variable has its type, and no call waits for an answer that its place
\* in the list of hints does not explain.
AnchoredTypeOK ==
  /\ FederationTypeOK
  /\ anchors \in (SUBSET Entities) \cup {NoAnchors}
  /\ step \in {"start", "enter", "superior", "statement", "found", "done"}
  /\ target \in Entities
  /\ stack \in Seq([entity : Entities, next : Nat, base : Nat])
  /\ superior \in Jwts
  /\ visited \subseteq Entities
  /\ chain \in Seq(Jwts)
  /\ result \in {"none", "chain", "rejected", "failed"}
  /\ step = "statement" => HasHint /\ superior.sub = NextHint

\* The chain that is returned is authentic and leads from the start entity to a
\* trusted anchor, although keys were replaced while it was put together and a
\* Superior's configuration is fetched again after its statement.
FoundIsAuthentic ==
  result = "chain" =>
    /\ Authenticates(chain)
    /\ chain[1].sub = Start
    /\ Last(chain).sub \in anchors

\* Branches that failed leave nothing behind: at every moment the chain is the
\* start entity's configuration and one statement about each entity that is
\* being walked, up to the innermost call.
ChainFollowsCalls ==
  stack # << >> /\ step # "done" =>
    /\ chain[1].sub = stack[1].entity
    /\ \A i \in 2..Len(stack) :
         chain[i].iss = stack[i].entity /\ chain[i].sub = stack[i - 1].entity
    /\ step \in {"superior", "statement"} => Len(chain) = Len(stack)

\* When nothing goes wrong the walk fails only if no anchor can be reached: an
\* entity is never visited twice, not even on another branch, and a Superior
\* without a fetch endpoint hides the ones named after it and nothing else.
ReachableIsFound ==
  result = "failed" /\ Undisturbed =>
    \/ anchors = NoAnchors
    \/ ReachableOver(FetchableInOrder, Start) \cap anchors = {}

\* "discover_trust_chain walks authority_hints towards a given set of Trust
\* Anchors and returns the first chain that authenticates."
FirstAuthenticIsFound ==
  step = "done" /\ Undisturbed /\ endpoints = Entities /\ anchors # NoAnchors
  /\ ReachableOver(Endorsing, Start) \cap anchors # {}
  => result = "chain"
=============================================================================
