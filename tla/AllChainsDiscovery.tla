------------------------- MODULE AllChainsDiscovery -------------------------
(***************************************************************************)
(* FederationClient::discover_all_trust_chains_with_failures (utils.rs): a *)
(* walk over every branch above an entity.  Every Superior ends a chain,   *)
(* and whatever cannot be followed is recorded and skipped.  The recursion *)
(* of discover_all_recursive is a stack with a frame per call, and the     *)
(* federation moves on at every request.                                   *)
(***************************************************************************)
EXTENDS DiscoveryWalk

VARIABLES
  chains,   \* TrustChainDiscovery.chains
  failures  \* TrustChainDiscovery.failures, and the calls each was met in

walkVars == <<step, target, stack, superior, visited, chain, chains, failures, result>>
vars == <<worldVars, walkVars>>

Init ==
  /\ FederationInit
  /\ step = "enter"
  /\ target = Start
  /\ stack = << >>
  /\ superior = Configuration(Start)
  /\ visited = {}
  /\ chain = << >>
  /\ chains = {}
  /\ failures = {}
  /\ result = "none"

-----------------------------------------------------------------------------

EntitiesOf(frames) == [i \in DOMAIN frames |-> frames[i].entity]

\* An entity that the innermost call could not follow, or not authenticate.
Failure(e) == [calls |-> EntitiesOf(stack), entity |-> e]

\* Mistake: a hint that failed is tried again.
SkipHintAgain ==
  /\ step' = "superior"
  /\ failures' = failures \cup {Failure(NextHint)}
  /\ UNCHANGED <<target, stack, superior, visited, chain, chains, result>>

SkipHint ==
  /\ step' = "superior"
  /\ failures' = failures \cup {Failure(NextHint)}
  /\ stack' = Advanced(stack)
  /\ UNCHANGED <<target, superior, visited, chain, chains, result>>

\* Mistake: a caller does not record the failure of a call.
CallFailsUnseen ==
  /\ IF stack = << >>
     THEN /\ step' = "done" /\ result' = "failed"
          /\ UNCHANGED <<stack, chain, failures>>
     ELSE /\ step' = "superior" /\ UNCHANGED result
          /\ stack' = Advanced(stack)
          /\ chain' = Front(chain)
          /\ failures' = failures
  /\ UNCHANGED <<target, superior, visited, chains>>

\* The call that begins returns an error; a caller records it, drops its
\* statement from the chain and goes on.
CallFails ==
  /\ IF stack = << >>
     THEN /\ step' = "done" /\ result' = "failed"
          /\ UNCHANGED <<stack, chain, failures>>
     ELSE /\ step' = "superior" /\ UNCHANGED result
          /\ stack' = Advanced(stack)
          /\ chain' = Front(chain)
          /\ failures' = failures \cup {Failure(target)}
  /\ UNCHANGED <<target, superior, visited, chains>>

EnterLoop ==
  /\ step = "enter"
  /\ target \in visited
  /\ CallFails
  /\ UNCHANGED worldVars

\* The configuration of the root begins a chain, and that of a Superior ends
\* one: try_new decides, and the walk goes on without it.
BeginCall(config) ==
  /\ visited' = visited \cup {target}
  /\ stack' = Append(stack, [entity |-> target, next |-> 1])
  /\ step' = "superior"
  /\ IF chain = << >>
     THEN chain' = <<config>> /\ UNCHANGED <<chains, failures>>
     ELSE LET ended == Append(chain, config) IN
          /\ UNCHANGED chain
          /\ IF Authenticates(ended)
             THEN chains' = chains \cup {ended} /\ UNCHANGED failures
             ELSE failures' = failures \cup {Failure(target)} /\ UNCHANGED chains
  /\ UNCHANGED <<target, superior, result>>

\* Mistake: a call does not look whether its entity is on the path already.
EnterAgain ==
  /\ step = "enter"
  /\ \/ Unanswered /\ CallFails
     \/ UNCHANGED worldVars /\ BeginCall(Configuration(target))

Enter ==
  /\ step = "enter"
  /\ target \notin visited
  /\ \/ Unanswered /\ CallFails
     \/ UNCHANGED worldVars /\ BeginCall(Configuration(target))

\* The Superior's configuration, which must name a fetch endpoint.
AskSuperior ==
  /\ step = "superior"
  /\ HasHint
  /\ \/ Unanswered /\ SkipHint
     \/ NextHint \notin endpoints /\ SkipHint /\ UNCHANGED worldVars
     \/ /\ NextHint \in endpoints
        /\ superior' = Configuration(NextHint)
        /\ step' = "statement"
        /\ UNCHANGED <<worldVars, target, stack, visited, chain, chains, failures, result>>

AskStatement ==
  /\ step = "statement"
  /\ \/ Unanswered /\ SkipHint
     \/ ~StatementVerifies(superior, Frame.entity) /\ SkipHint /\ UNCHANGED worldVars
     \/ /\ StatementVerifies(superior, Frame.entity)
        /\ chain' = Append(chain, Statement(superior.sub, Frame.entity))
        /\ target' = superior.sub
        /\ step' = "enter"
        /\ UNCHANGED <<worldVars, stack, superior, visited, chains, failures, result>>

\* Mistakes: the entity stays visited, or its statement stays in the chain.
ReturnStillVisited ==
  /\ step = "superior"
  /\ ~HasHint
  /\ chain' = Front(chain)
  /\ IF Len(stack) = 1
     THEN stack' = << >> /\ step' = "done" /\ result' = "ok"
     ELSE stack' = Advanced(Front(stack)) /\ UNCHANGED <<step, result>>
  /\ UNCHANGED <<worldVars, target, superior, visited, chains, failures>>

ReturnKeepingStatement ==
  /\ step = "superior"
  /\ ~HasHint
  /\ visited' = visited \ {Frame.entity}
  /\ IF Len(stack) = 1
     THEN stack' = << >> /\ step' = "done" /\ result' = "ok" /\ chain' = << >>
     ELSE stack' = Advanced(Front(stack)) /\ UNCHANGED <<chain, step, result>>
  /\ UNCHANGED <<worldVars, target, superior, chains, failures>>

\* A call whose hints were all tried returns: the root drops its configuration,
\* and a caller the statement it had added for the call.
Return ==
  /\ step = "superior"
  /\ ~HasHint
  /\ visited' = visited \ {Frame.entity}
  /\ chain' = Front(chain)
  /\ IF Len(stack) = 1
     THEN stack' = << >> /\ step' = "done" /\ result' = "ok"
     ELSE stack' = Advanced(Front(stack)) /\ UNCHANGED <<step, result>>
  /\ UNCHANGED <<worldVars, target, superior, chains, failures>>

Walk == EnterLoop \/ Enter \/ AskSuperior \/ AskStatement \/ Return

Next ==
  \/ Walk
  \/ step # "done" /\ WorldNext /\ UNCHANGED walkVars

\* Every request ends, with an answer or a failure.
Spec == Init /\ [][Next]_vars /\ WF_vars(Walk)

-----------------------------------------------------------------------------
(* Properties.                                                             *)

\* Every variable has its type; the chain and the visited entities belong to
\* the calls on the stack, so whatever a branch did is undone when it is left.
TypeOK ==
  /\ FederationTypeOK
  /\ step \in {"enter", "superior", "statement", "done"}
  /\ target \in Entities
  /\ stack \in Seq([entity : Entities, next : Nat])
  /\ superior \in Jwts
  /\ chain \in Seq(Jwts)
  /\ chains \subseteq Seq(Jwts)
  /\ failures \subseteq [calls : Seq(Entities), entity : Entities]
  /\ result \in {"none", "ok", "failed"}
  /\ visited = Range(EntitiesOf(stack))
  /\ Len(chain) = Len(stack) + (IF step = "enter" /\ stack # << >> THEN 1 ELSE 0)

\* The entities a chain leads through.
Path(c) == [i \in 1..(Len(c) - 1) |-> IF i = 1 THEN c[1].sub ELSE c[i].iss]

Simple(p) == \A i, j \in DOMAIN p : p[i] = p[j] => i = j

\* Every chain that is reported is authentic, begins with the start entity and
\* meets no entity twice, although keys were replaced during the walk.
ChainsAreAuthentic ==
  \A c \in chains : Authenticates(c) /\ c[1].sub = Start /\ Simple(Path(c))

\* Every hint of a call that was passed over is reported: as a chain that ends
\* there, or as a failure, whatever went wrong further up.
NoBranchIsDropped ==
  \A n \in DOMAIN stack : \A i \in 1..(stack[n].next - 1) :
    LET calls == SubSeq(EntitiesOf(stack), 1, n)
        hint == hints[stack[n].entity][i]
    IN \/ [calls |-> calls, entity |-> hint] \in failures
       \/ \E c \in chains : Path(c) = Append(calls, hint)

\* The paths a walk is to find: simple ones over Superiors that can be asked
\* and whose statement lists the key their subordinate has.
Paths ==
  {p \in UNION {[1..n -> Entities] : n \in 2..Cardinality(Entities)} :
     /\ p[1] = Start
     /\ Simple(p)
     /\ \A i \in 1..(Len(p) - 1) : p[i + 1] \in endpoints \cap Endorsing[p[i]]}

\* When nothing goes wrong, the chains that are reported are those along such a
\* path, each of them, over branches that meet and in spite of loops.
ChainsAreComplete ==
  step = "done" /\ Undisturbed => {Path(c) : c \in chains} = Paths

\* The walk ends, in federations with loops too.
Terminates == <>(step = "done")
=============================================================================
