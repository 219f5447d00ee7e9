--------------------------- MODULE DiscoveryProofs --------------------------
(***************************************************************************)
(* The two walks, for any federation of finitely many entities, any number *)
(* of hints and any changes while it is walked.  Over every branch: chains *)
(* are simple paths from the start entity, no branch is passed over in     *)
(* silence, and while nothing goes wrong exactly the paths are found.      *)
(* Towards an anchor: the chain that is returned is authentic, and an      *)
(* anchor that can be reached is found.  Either way the recursion is no    *)
(* deeper than there are entities, and no step leads back.                 *)
(***************************************************************************)
EXTENDS AllChainsDiscovery, AnchoredDiscovery,
        SequenceTheorems, FiniteSetTheorems, TLAPS

Frames == [entity : Entities, next : Nat]

LEMMA EntitiesOfFrames ==
  ASSUME NEW s \in Seq(Frames)
  PROVE  /\ EntitiesOf(s) \in Seq(Entities)
         /\ Len(EntitiesOf(s)) = Len(s)
         /\ \A i \in 1..Len(s) : EntitiesOf(s)[i] = s[i].entity
<1>1. DOMAIN s = 1..Len(s) /\ Len(s) \in Nat
  BY LenProperties
<1>2. ASSUME NEW i \in 1..Len(s) PROVE s[i].entity \in Entities
  <2>1. s[i] \in Frames
    BY ElementOfSeq
  <2> QED
    BY <2>1 DEF Frames
<1>3. EntitiesOf(s) \in [1..Len(s) -> Entities]
  BY <1>1, <1>2 DEF EntitiesOf
<1>4. EntitiesOf(s) \in Seq(Entities)
  BY <1>1, <1>3, SeqDef
<1>5. Len(EntitiesOf(s)) = Len(s)
  BY <1>1, <1>3, <1>4, LenProperties
<1> QED
  BY <1>1, <1>4, <1>5 DEF EntitiesOf

LEMMA AdvancedFrames ==
  ASSUME NEW s \in Seq(Frames), s # << >>
  PROVE  /\ Advanced(s) \in Seq(Frames)
         /\ Len(Advanced(s)) = Len(s)
         /\ \A i \in 1..(Len(s) - 1) : Advanced(s)[i] = s[i]
         /\ Advanced(s)[Len(s)].entity = s[Len(s)].entity
         /\ Advanced(s)[Len(s)].next = s[Len(s)].next + 1
<1>1. Len(s) \in 1..Len(s) /\ Len(s) \in Nat
  BY EmptySeq
<1>2. s[Len(s)] \in Frames
  BY <1>1, ElementOfSeq
<1> DEFINE f == [s[Len(s)] EXCEPT !.next = @ + 1]
<1>3. f \in Frames /\ f.entity = s[Len(s)].entity /\ f.next = s[Len(s)].next + 1
  BY <1>2 DEF Frames
<1>4. Advanced(s) = [s EXCEPT ![Len(s)] = f]
  BY DEF Advanced
<1> HIDE DEF f
<1> QED
  BY <1>1, <1>3, <1>4, ExceptSeq

LEMMA FrontOf ==
  ASSUME NEW S, NEW s \in Seq(S), s # << >>
  PROVE  /\ Front(s) \in Seq(S)
         /\ Len(Front(s)) = Len(s) - 1
         /\ \A i \in 1..(Len(s) - 1) : Front(s)[i] = s[i]
<1>1. Len(s) \in Nat \ {0}
  BY EmptySeq
<1>2. \A i \in 1..(Len(s) - 1) : s[i] \in S
  BY ElementOfSeq
<1> DEFINE n == Len(s) - 1
<1>3. n \in Nat /\ n - 1 + 1 = n
  BY <1>1
<1>4. /\ SubSeq(s, 1, n) \in Seq(S)
      /\ Len(SubSeq(s, 1, n)) = IF 1 <= n THEN n - 1 + 1 ELSE 0
      /\ \A i \in 1..(n - 1 + 1) : SubSeq(s, 1, n)[i] = s[1 + i - 1]
  BY <1>2, <1>3, SubSeqProperties
<1>5. Front(s) = SubSeq(s, 1, n)
  BY DEF Front
<1> HIDE DEF n
<1>6. Len(SubSeq(s, 1, n)) = n /\ \A i \in 1..n : SubSeq(s, 1, n)[i] = s[i]
  BY <1>3, <1>4
<1> QED
  BY <1>4, <1>5, <1>6 DEF n

\* Two stacks are the same calls as far as their frames are at the same entities.
LEMMA SameCalls ==
  ASSUME NEW s \in Seq(Frames), NEW t \in Seq(Frames), NEW n \in Nat,
         n <= Len(s), n <= Len(t),
         \A i \in 1..n : s[i].entity = t[i].entity
  PROVE  SubSeq(EntitiesOf(s), 1, n) = SubSeq(EntitiesOf(t), 1, n)
<1>1. /\ \A i \in 1..n : EntitiesOf(s)[i] \in Entities /\ EntitiesOf(t)[i] \in Entities
      /\ \A i \in 1..n : EntitiesOf(s)[i] = EntitiesOf(t)[i]
  BY EntitiesOfFrames, ElementOfSeq
<1> DEFINE u == SubSeq(EntitiesOf(s), 1, n)
           v == SubSeq(EntitiesOf(t), 1, n)
<1>2. /\ u \in Seq(Entities) /\ v \in Seq(Entities)
      /\ Len(u) = n /\ Len(v) = n
      /\ \A i \in 1..n : u[i] = EntitiesOf(s)[i] /\ v[i] = EntitiesOf(t)[i]
  BY <1>1, SubSeqProperties
<1> HIDE DEF u, v
<1>3. u = v
  BY <1>1, <1>2, SeqEqual
<1> QED
  BY <1>3 DEF u, v

\* All the calls of a stack.
LEMMA AllCalls ==
  ASSUME NEW s \in Seq(Frames)
  PROVE  SubSeq(EntitiesOf(s), 1, Len(s)) = EntitiesOf(s)
  BY EntitiesOfFrames, SubSeqFull

-----------------------------------------------------------------------------

\* A hint of some calls that is in the result: as a chain, or as a failure.
Reported(calls, e) ==
  \/ [calls |-> calls, entity |-> e] \in failures
  \/ \E c \in chains : Path(c) = Append(calls, e)

CallsTo(n) == SubSeq(EntitiesOf(stack), 1, n)

\* The calls follow the hints from the start entity, never to the same entity
\* twice, and each was reported when it began.
CallsInv ==
  /\ stack # << >> => stack[1].entity = Start
  /\ stack = << >> /\ step = "enter" => target = Start
  /\ step \in {"superior", "statement"} => stack # << >>
  /\ step = "done" => stack = << >>
  /\ \A n \in 1..Len(stack) : stack[n].next >= 1
  /\ \A n \in 1..(Len(stack) - 1) :
       stack[n + 1].entity = hints[stack[n].entity][stack[n].next]
  /\ step = "statement" => superior.sub = NextHint
  /\ step = "enter" /\ stack # << >> => target = NextHint
  /\ \A i, j \in 1..Len(stack) : stack[i].entity = stack[j].entity => i = j
  /\ \A n \in 1..(Len(stack) - 1) : Reported(CallsTo(n), stack[n + 1].entity)

\* The chain holds the start entity's configuration and a statement by each
\* entity the calls went to.
ChainInv ==
  /\ chain # << >> => chain[1].sub = Start
  /\ \A i \in 2..Len(stack) : chain[i].iss = stack[i].entity
  /\ step = "enter" /\ stack # << >> => chain[Len(stack) + 1].iss = target

Inv == TypeOK /\ CallsInv /\ ChainInv /\ ChainsAreAuthentic /\ NoBranchIsDropped

LEMMA InvInit == Init => Inv
<1> SUFFICES ASSUME Init PROVE Inv
  OBVIOUS
<1>1. FederationTypeOK
  BY FederationAssumption DEF Init, FederationInit, FederationTypeOK
<1>2. superior \in Jwts
  BY StartAssumption, <1>1 DEF Init, FederationTypeOK, Configuration, Jwts
<1>3. EntitiesOf(stack) = << >> /\ Len(stack) = 0 /\ Len(chain) = 0
  BY DEF Init, EntitiesOf
<1>4. stack \in Seq([entity : Entities, next : Nat]) /\ chain \in Seq(Jwts)
  BY EmptySeq DEF Init
<1>5. visited = Range(EntitiesOf(stack))
  BY <1>3 DEF Init, Range
<1>6. TypeOK
  BY <1>1, <1>2, <1>3, <1>4, <1>5, StartAssumption DEF Init, TypeOK
<1> QED
  BY <1>3, <1>6 DEF Init, Inv, CallsInv, ChainInv, ChainsAreAuthentic, NoBranchIsDropped

\* A step of the walk or of the federation keeps the federation's types.
LEMMA WorldKept ==
  ASSUME FederationTypeOK, [Next]_vars
  PROVE  FederationTypeOK' /\ hints' = hints
<1> USE FederationAssumption DEF FederationTypeOK
<1>1. CASE UNCHANGED worldVars
  BY <1>1 DEF worldVars
<1>2. CASE Unanswered
  BY <1>2 DEF Unanswered
<1>3. ASSUME NEW e \in Entities, ReplaceKey(e) PROVE FederationTypeOK' /\ hints' = hints
  BY <1>3 DEF ReplaceKey
<1>4. ASSUME NEW s \in Entities, NEW e \in Entities, Endorse(s, e)
      PROVE  FederationTypeOK' /\ hints' = hints
  <2>1. endorsed' \in Endorsements
    BY <1>4 DEF Endorse, Endorsements
  <2> QED
    BY <1>4, <2>1 DEF Endorse
<1>5. CASE Walk
  BY <1>1, <1>2, <1>5 DEF Walk, EnterLoop, Enter, AskSuperior, AskStatement, Return
<1>6. CASE UNCHANGED vars
  BY <1>1, <1>6 DEF vars
<1> QED
  BY <1>3, <1>4, <1>5, <1>6 DEF Next, WorldNext
-----------------------------------------------------------------------------

\* What the invariant says of the innermost call.
LEMMA InnermostCall ==
  ASSUME Inv
  PROVE  /\ stack \in Seq(Frames) /\ Len(stack) \in Nat
         /\ chain \in Seq(Jwts)
         /\ \A i \in 1..Len(stack) : stack[i].entity \in Entities /\ stack[i].next \in Nat
         /\ stack # << >> =>
              /\ Len(stack) \in 1..Len(stack)
              /\ Frame = stack[Len(stack)]
              /\ hints[Frame.entity] \in Seq(Entities)
              /\ HasHint => NextHint \in Entities
<1> USE DEF Inv, TypeOK
<1>1. stack \in Seq(Frames)
  BY DEF Frames
<1>2. ASSUME NEW i \in 1..Len(stack)
      PROVE  stack[i].entity \in Entities /\ stack[i].next \in Nat
  <2>1. stack[i] \in Frames
    BY <1>1, ElementOfSeq
  <2> QED
    BY <2>1 DEF Frames
<1>3. ASSUME stack # << >>
      PROVE  /\ Len(stack) \in 1..Len(stack)
             /\ Frame = stack[Len(stack)]
             /\ hints[Frame.entity] \in Seq(Entities)
             /\ HasHint => NextHint \in Entities
  <2>1. Len(stack) \in 1..Len(stack) /\ Frame = stack[Len(stack)]
    BY <1>1, <1>3, EmptySeq DEF Frame, Last
  <2>2. hints[Frame.entity] \in Seq(Entities)
    BY <1>2, <2>1 DEF FederationTypeOK
  <2>3. HasHint => Frame.next \in 1..Len(hints[Frame.entity])
    BY <1>2, <2>1, <2>2 DEF HasHint, CallsInv
  <2> QED
    BY <2>1, <2>2, <2>3, ElementOfSeq DEF NextHint
<1> QED
  BY <1>1, <1>2, <1>3, LenProperties

\* What was reported stays reported, for the calls that stay on the stack.
LEMMA ReportsKept ==
  ASSUME Inv, stack' \in Seq(Frames),
         failures \subseteq failures', chains \subseteq chains',
         NEW n \in 1..Len(stack), n <= Len(stack'),
         \A i \in 1..n : stack'[i].entity = stack[i].entity,
         NEW e, Reported(CallsTo(n), e)
  PROVE  Reported(CallsTo(n), e)'
<1>1. /\ stack \in Seq(Frames) /\ Len(stack) \in Nat
      /\ n \in Nat /\ n <= Len(stack)
  BY InnermostCall
<1>2. SubSeq(EntitiesOf(stack'), 1, n) = SubSeq(EntitiesOf(stack), 1, n)
  BY <1>1, SameCalls
<1>3. CallsTo(n)' = CallsTo(n)
  BY <1>2 DEF CallsTo, EntitiesOf
<1> QED
  BY <1>3 DEF Reported

\* The calls up to the m-th are left, and that one goes on to its next hint: its
\* present one was reported.
LEMMA AdvancedCalls ==
  ASSUME Inv, hints' = hints, NEW m \in 1..Len(stack),
         step' = "superior", stack' \in Seq(Frames), Len(stack') = m,
         \A i \in 1..(m - 1) : stack'[i] = stack[i],
         stack'[m].entity = stack[m].entity,
         stack'[m].next = stack[m].next + 1,
         failures \subseteq failures', chains \subseteq chains',
         NEW hint, hint = hints[stack[m].entity][stack[m].next],
         Reported(CallsTo(m), hint)'
  PROVE  /\ CallsInv' /\ NoBranchIsDropped'
         /\ \A i \in 1..m : stack'[i].entity = stack[i].entity
<1>1. /\ stack \in Seq(Frames) /\ Len(stack) \in Nat /\ m \in Nat /\ 1 <= m /\ m <= Len(stack)
      /\ \A i \in 1..Len(stack) : stack[i].next \in Nat
  BY InnermostCall
<1>2. \A i \in 1..m : stack'[i].entity = stack[i].entity
  <2> TAKE i \in 1..m
  <2>1. i = m \/ i \in 1..(m - 1)
    BY <1>1
  <2> QED
    BY <2>1
<1>3. DOMAIN stack = 1..Len(stack) /\ DOMAIN stack' = 1..m
  BY <1>1, LenProperties
<1>4. ASSUME NEW n \in 1..m, NEW e, Reported(CallsTo(n), e)
      PROVE  Reported(CallsTo(n), e)'
  <2>1. n \in 1..Len(stack) /\ \A j \in 1..n : stack'[j].entity = stack[j].entity
    BY <1>1, <1>2
  <2> QED
    BY <1>4, <2>1, ReportsKept
<1>5. CallsInv'
  <2>1. stack' # << >>
    BY <1>1
  <2>2. \A n \in 1..m : stack'[n].next >= 1
    BY <1>1 DEF Inv, CallsInv
  <2>3. ASSUME NEW n \in 1..(m - 1)
        PROVE  /\ stack'[n + 1].entity = hints[stack'[n].entity][stack'[n].next]
               /\ Reported(CallsTo(n), stack[n + 1].entity)'
    <3>1. /\ n \in 1..(Len(stack) - 1) /\ n \in 1..m
          /\ stack'[n] = stack[n] /\ stack'[n + 1].entity = stack[n + 1].entity
      BY <1>1, <1>2
    <3>2. PICK e : e = stack[n + 1].entity
      OBVIOUS
    <3>3. Reported(CallsTo(n), e)
      BY <3>1, <3>2 DEF Inv, CallsInv
    <3>4. Reported(CallsTo(n), e)'
      BY <1>4, <3>1, <3>3
    <3> QED
      BY <3>1, <3>2, <3>4 DEF Inv, CallsInv
  <2>4. \A i, j \in 1..m : stack'[i].entity = stack'[j].entity => i = j
    BY <1>1, <1>2 DEF Inv, CallsInv
  <2>5. stack'[1].entity = Start
    BY <1>1, <1>2 DEF Inv, CallsInv
  <2> QED
    BY <2>1, <2>2, <2>3, <2>4, <2>5 DEF CallsInv
<1>6. NoBranchIsDropped'
  <2> SUFFICES ASSUME NEW n \in 1..m, NEW i \in 1..(stack'[n].next - 1)
               PROVE  Reported(CallsTo(n), hints[stack[n].entity][i])'
    BY <1>3 DEF NoBranchIsDropped, Reported, CallsTo
  <2>1. PICK e : e = hints[stack[n].entity][i]
    OBVIOUS
  <2>2. e = hints[stack[n].entity][i]'
    BY <1>2, <2>1
  <2>3. CASE i <= stack[n].next - 1
    <3>1. n \in 1..Len(stack) /\ i \in 1..(stack[n].next - 1)
      BY <1>1, <2>3
    <3>2. Reported(CallsTo(n), e)
      BY <1>3, <2>1, <3>1 DEF Inv, NoBranchIsDropped, Reported, CallsTo
    <3>3. Reported(CallsTo(n), e)'
      BY <1>4, <3>2
    <3> QED
      BY <2>2, <3>3 DEF Reported, CallsTo
  <2>4. CASE i > stack[n].next - 1
    <3>1. n = m /\ i = stack[m].next
      BY <1>1, <2>4
    <3> QED
      BY <2>1, <2>2, <3>1 DEF Reported, CallsTo
  <2> QED
    BY <1>1, <2>3, <2>4
<1> QED
  BY <1>2, <1>5, <1>6

\* The innermost call goes on to its next hint and has recorded this one.
LEMMA AdvanceKeepsInv ==
  ASSUME Inv, FederationTypeOK', hints' = hints,
         stack # << >>, NEW hint \in Entities, hint = NextHint,
         step' = "superior", stack' = Advanced(stack),
         chain' \in Seq(Jwts), Len(chain') = Len(stack),
         \A i \in 1..Len(stack) : chain'[i] = chain[i],
         failures' = failures \cup {Failure(hint)},
         UNCHANGED <<target, superior, visited, chains, result>>
  PROVE  Inv'
<1> DEFINE last == Len(stack)
<1>1. /\ stack \in Seq(Frames) /\ last \in Nat /\ last \in 1..last /\ last >= 1
      /\ Frame = stack[last]
  BY InnermostCall
<1>2. /\ stack' \in Seq(Frames) /\ Len(stack') = last
      /\ \A i \in 1..(last - 1) : stack'[i] = stack[i]
      /\ stack'[last].entity = stack[last].entity
      /\ stack'[last].next = stack[last].next + 1
  BY <1>1, AdvancedFrames
<1>3. \A i \in 1..last : stack'[i].entity = stack[i].entity
  <2> TAKE i \in 1..last
  <2>1. i = last \/ i \in 1..(last - 1)
    BY <1>1
  <2> QED
    BY <1>2, <2>1
<1>4. EntitiesOf(stack') = EntitiesOf(stack)
  <2>1. PICK n \in Nat : n = last
    BY <1>1
  <2>2. n <= Len(stack) /\ n <= Len(stack') /\ \A i \in 1..n : stack'[i].entity = stack[i].entity
    BY <1>2, <1>3, <2>1
  <2>3. SubSeq(EntitiesOf(stack'), 1, n) = SubSeq(EntitiesOf(stack), 1, n)
    BY <1>1, <1>2, <2>2, SameCalls
  <2> QED
    BY <1>1, <1>2, <2>1, <2>3, AllCalls
<1>5. TypeOK'
  <2>1. Failure(hint) \in [calls : Seq(Entities), entity : Entities]
    BY <1>1, EntitiesOfFrames DEF Failure
  <2>2. Len(chain') = Len(stack')
    BY <1>2
  <2>3. visited' = Range(EntitiesOf(stack'))
    BY <1>4 DEF Inv, TypeOK
  <2> QED
    BY <1>2, <2>1, <2>2, <2>3 DEF Inv, TypeOK, Frames
<1>6. Reported(CallsTo(last), hint)'
  <2>1. CallsTo(last)' = EntitiesOf(stack)
    BY <1>1, <1>2, <1>4, AllCalls DEF CallsTo
  <2>2. [calls |-> EntitiesOf(stack), entity |-> hint] \in failures'
    BY DEF Failure
  <2> QED
    BY <2>1, <2>2 DEF Reported
<1>7. CallsInv' /\ NoBranchIsDropped'
  <2>1. PICK m : m = last
    OBVIOUS
  <2>2. Reported(CallsTo(m), hint)'
    BY <1>2, <1>6, <2>1 DEF Reported, CallsTo
  <2>3. m \in 1..Len(stack) /\ hint = hints[stack[m].entity][stack[m].next]
    BY <1>1, <2>1 DEF NextHint
  <2> QED
    BY <1>2, <2>1, <2>2, <2>3, AdvancedCalls
<1>8. ChainInv'
  <2>1. chain # << >> /\ chain'[1] = chain[1]
    BY <1>1 DEF Inv, TypeOK
  <2>2. \A i \in 2..last : chain'[i].iss = stack'[i].entity
    <3> TAKE i \in 2..last
    <3>1. i \in 1..last
      BY <1>1
    <3> QED
      BY <1>3, <3>1 DEF Inv, ChainInv
  <2> QED
    BY <1>2, <2>1, <2>2 DEF Inv, ChainInv
<1>9. ChainsAreAuthentic'
  BY DEF Inv, ChainsAreAuthentic
<1> QED
  BY <1>5, <1>7, <1>8, <1>9 DEF Inv

\* A hint that cannot be followed is recorded and passed over.
LEMMA SkipKeepsInv ==
  ASSUME Inv, FederationTypeOK', hints' = hints,
         step \in {"superior", "statement"}, NextHint \in Entities, SkipHint
  PROVE  Inv'
<1>1. PICK hint \in Entities : hint = NextHint
  OBVIOUS
<1>2. stack # << >> /\ Len(chain) = Len(stack) /\ chain \in Seq(Jwts)
  BY InnermostCall DEF Inv, TypeOK, CallsInv
<1> QED
  BY <1>1, <1>2, AdvanceKeepsInv DEF SkipHint

\* A call that fails is recorded by its caller, which goes on.
LEMMA CallFailsKeepsInv ==
  ASSUME Inv, FederationTypeOK', hints' = hints, step = "enter", CallFails
  PROVE  Inv'
<1>1. CASE stack = << >>
  <2>1. /\ step' = "done" /\ result' = "failed"
        /\ UNCHANGED <<target, stack, superior, visited, chain, chains, failures>>
    BY <1>1 DEF CallFails
  <2>2. TypeOK'
    BY <1>1, <2>1 DEF Inv, TypeOK, EntitiesOf
  <2>3. CallsInv' /\ ChainInv'
    BY <1>1, <2>1, InnermostCall, EmptySeq DEF Inv, CallsInv, ChainInv
  <2>4. ChainsAreAuthentic' /\ NoBranchIsDropped'
    BY <1>1, <2>1 DEF Inv, ChainsAreAuthentic, NoBranchIsDropped
  <2> QED
    BY <2>2, <2>3, <2>4 DEF Inv
<1>2. CASE stack # << >>
  <2>1. PICK hint \in Entities : hint = target
    BY DEF Inv, TypeOK
  <2>2. hint = NextHint
    BY <1>2, <2>1 DEF Inv, CallsInv
  <2>3. chain \in Seq(Jwts) /\ Len(chain) = Len(stack) + 1 /\ Len(stack) \in Nat
    BY <1>2, InnermostCall DEF Inv, TypeOK
  <2>4. /\ Front(chain) \in Seq(Jwts) /\ Len(Front(chain)) = Len(stack)
        /\ \A i \in 1..Len(stack) : Front(chain)[i] = chain[i]
    BY <2>3, FrontOf
  <2> QED
    BY <1>2, <2>1, <2>2, <2>4, AdvanceKeepsInv DEF CallFails
<1> QED
  BY <1>1, <1>2

\* The path of the chain that ends with the entity whose call begins.
LEMMA PathOfEnded ==
  ASSUME Inv, step = "enter", stack # << >>, NEW config \in Jwts
  PROVE  Path(Append(chain, config)) = Append(EntitiesOf(stack), target)
<1> DEFINE last == Len(stack)
           ended == Append(chain, config)
           calls == EntitiesOf(stack)
<1>1. /\ stack \in Seq(Frames) /\ last \in Nat /\ last >= 1
      /\ chain \in Seq(Jwts) /\ Len(chain) = last + 1
      /\ target \in Entities
  BY InnermostCall DEF Inv, TypeOK
<1>2. /\ calls \in Seq(Entities) /\ Len(calls) = last
      /\ \A i \in 1..last : calls[i] = stack[i].entity
  BY <1>1, EntitiesOfFrames
<1>3. /\ Len(ended) = last + 2
      /\ \A i \in 1..(last + 1) : ended[i] = chain[i]
  BY <1>1, AppendProperties
<1>4. /\ Append(calls, target) \in Seq(Entities)
      /\ Len(Append(calls, target)) = last + 1
      /\ \A i \in 1..last : Append(calls, target)[i] = calls[i]
      /\ Append(calls, target)[last + 1] = target
  BY <1>1, <1>2, AppendProperties
<1> HIDE DEF ended, calls, last
<1>5. ASSUME NEW i \in 1..(last + 1)
      PROVE  (IF i = 1 THEN ended[1].sub ELSE ended[i].iss) = Append(calls, target)[i]
  <2>1. CASE i = 1
    BY <1>1, <1>2, <1>3, <1>4, <2>1 DEF Inv, CallsInv, ChainInv
  <2>2. CASE i \in 2..last
    BY <1>1, <1>2, <1>3, <1>4, <2>2 DEF Inv, ChainInv, last
  <2>3. CASE i = last + 1
    BY <1>1, <1>3, <1>4, <2>3 DEF Inv, ChainInv, last
  <2>4. i = 1 \/ i \in 2..last \/ i = last + 1
    BY <1>1
  <2> QED
    BY <2>1, <2>2, <2>3, <2>4
<1>6. Path(ended) = [i \in 1..(last + 1) |-> Append(calls, target)[i]]
  <2>1. Len(ended) - 1 = last + 1
    BY <1>1, <1>3
  <2>2. Path(ended) = [i \in 1..(last + 1) |-> IF i = 1 THEN ended[1].sub ELSE ended[i].iss]
    BY <2>1 DEF Path
  <2> QED
    BY <1>5, <2>2
<1>7. Append(calls, target) = [i \in 1..(last + 1) |-> Append(calls, target)[i]]
  BY <1>4, LenProperties
<1> QED
  BY <1>6, <1>7 DEF ended, calls

\* A call that begins is on the stack, and in the result unless it is the root.
LEMMA BeginCallKeepsInv ==
  ASSUME Inv, FederationTypeOK', hints' = hints, step = "enter", target \notin visited,
         NEW config \in Jwts, config.sub = target, BeginCall(config)
  PROVE  Inv'
<1> DEFINE last == Len(stack)
           frame == [entity |-> target, next |-> 1]
           ended == Append(chain, config)
<1>1. /\ stack \in Seq(Frames) /\ last \in Nat
      /\ chain \in Seq(Jwts) /\ target \in Entities
      /\ chain = << >> <=> stack = << >>
      /\ stack # << >> => last >= 1 /\ Len(chain) = last + 1
      /\ stack = << >> => last = 0
  BY InnermostCall, EmptySeq DEF Inv, TypeOK
<1>2. frame \in Frames /\ frame.entity = target /\ frame.next = 1
  BY <1>1 DEF Frames
<1>3. stack' = Append(stack, frame) /\ step' = "superior" /\ visited' = visited \cup {target}
  BY DEF BeginCall
<1> HIDE DEF frame
<1>4. /\ stack' \in Seq(Frames) /\ Len(stack') = last + 1
      /\ \A i \in 1..last : stack'[i] = stack[i]
      /\ stack'[last + 1].entity = target /\ stack'[last + 1].next = 1
  BY <1>1, <1>2, <1>3, AppendProperties
<1>5. \A i \in 1..last : stack[i].entity # target
  <2>1. EntitiesOf(stack) \in Seq(Entities) /\ Len(EntitiesOf(stack)) = last
        /\ \A i \in 1..last : EntitiesOf(stack)[i] = stack[i].entity
    BY <1>1, EntitiesOfFrames
  <2>2. Range(EntitiesOf(stack)) = {EntitiesOf(stack)[i] : i \in 1..last}
    BY <2>1, RangeEquality
  <2> QED
    BY <2>1, <2>2 DEF Inv, TypeOK
<1>6. visited' = Range(EntitiesOf(stack'))
  <2>1. /\ EntitiesOf(stack) \in Seq(Entities) /\ Len(EntitiesOf(stack)) = last
        /\ \A i \in 1..last : EntitiesOf(stack)[i] = stack[i].entity
        /\ EntitiesOf(stack') \in Seq(Entities) /\ Len(EntitiesOf(stack')) = last + 1
        /\ \A i \in 1..(last + 1) : EntitiesOf(stack')[i] = stack'[i].entity
    BY <1>1, <1>4, EntitiesOfFrames
  <2>2. /\ Range(EntitiesOf(stack)) = {EntitiesOf(stack)[i] : i \in 1..last}
        /\ Range(EntitiesOf(stack')) = {EntitiesOf(stack')[i] : i \in 1..(last + 1)}
    BY <2>1, RangeEquality
  <2>3. /\ \A i \in 1..last : EntitiesOf(stack')[i] = EntitiesOf(stack)[i]
        /\ EntitiesOf(stack')[last + 1] = target
    BY <1>1, <1>4, <2>1
  <2>4. {EntitiesOf(stack')[i] : i \in 1..(last + 1)}
          = {EntitiesOf(stack)[i] : i \in 1..last} \cup {target}
    BY <1>1, <2>3
  <2> QED
    BY <1>3, <2>2, <2>4 DEF Inv, TypeOK
\* What becomes of the chain and the result.
<1>7. CASE stack = << >>
  <2>1. chain' = <<config>> /\ UNCHANGED <<chains, failures, target, superior, result>>
    BY <1>1, <1>7 DEF BeginCall
  <2>2. target = Start
    BY <1>7 DEF Inv, CallsInv
  <2>3. chain' \in Seq(Jwts) /\ Len(chain') = 1 /\ chain'[1].sub = Start
    BY <2>1, <2>2
  <2>4. TypeOK'
    BY <1>1, <1>3, <1>4, <1>6, <1>7, <2>1, <2>3 DEF Inv, TypeOK, Frames
  <2>5. CallsInv' /\ ChainInv'
    BY <1>1, <1>3, <1>4, <1>7, <2>2, <2>3 DEF CallsInv, ChainInv
  <2>6. NoBranchIsDropped'
    <3>1. DOMAIN stack' = {1} /\ stack'[1].next = 1
      BY <1>1, <1>4, <1>7, LenProperties
    <3> QED
      BY <3>1 DEF NoBranchIsDropped
  <2>7. ChainsAreAuthentic'
    BY <2>1 DEF Inv, ChainsAreAuthentic
  <2> QED
    BY <2>4, <2>5, <2>6, <2>7 DEF Inv
<1>8. CASE stack # << >>
  <2>1. /\ UNCHANGED <<chain, target, superior, result>>
        /\ IF Authenticates(ended)
           THEN chains' = chains \cup {ended} /\ UNCHANGED failures
           ELSE failures' = failures \cup {Failure(target)} /\ UNCHANGED chains
    BY <1>1, <1>8 DEF BeginCall
  <2>2. Path(ended) = Append(EntitiesOf(stack), target)
    BY <1>8, PathOfEnded
  <2>3. failures \subseteq failures' /\ chains \subseteq chains'
    BY <2>1
  <2>4. ended \in Seq(Jwts) /\ ended[1] = chain[1]
    BY <1>1, <1>8, AppendProperties
  <2> HIDE DEF ended
  <2>5. TypeOK'
    <3>1. Failure(target) \in [calls : Seq(Entities), entity : Entities]
      BY <1>1, EntitiesOfFrames DEF Failure
    <3> QED
      BY <1>1, <1>3, <1>4, <1>6, <1>8, <2>1, <2>4, <3>1 DEF Inv, TypeOK, Frames
  <2>12. PICK m \in Nat : m = last
    BY <1>1
  <2>6. Reported(CallsTo(m), target)'
    <3>1. SubSeq(EntitiesOf(stack'), 1, m) = EntitiesOf(stack)
      <4>1. m <= Len(stack') /\ \A i \in 1..m : stack'[i].entity = stack[i].entity
        BY <1>1, <1>4, <2>12
      <4>2. SubSeq(EntitiesOf(stack'), 1, m) = SubSeq(EntitiesOf(stack), 1, m)
        BY <1>1, <1>4, <2>12, <4>1, SameCalls
      <4> QED
        BY <1>1, <2>12, <4>2, AllCalls
    <3>2. \/ [calls |-> EntitiesOf(stack), entity |-> target] \in failures'
          \/ ended \in chains'
      BY <2>1 DEF Failure
    <3> QED
      BY <2>1, <2>2, <3>1, <3>2 DEF Reported, CallsTo, EntitiesOf
  <2>7. ASSUME NEW n \in 1..last, NEW e, Reported(CallsTo(n), e)
        PROVE  Reported(CallsTo(n), e)'
    <3>1. n <= Len(stack') /\ \A i \in 1..n : stack'[i].entity = stack[i].entity
      BY <1>1, <1>4
    <3> QED
      BY <1>4, <2>3, <2>7, <3>1, ReportsKept
  <2>8. CallsInv'
    <3>1. ASSUME NEW n \in 1..last
          PROVE  /\ stack'[n + 1].entity = hints[stack'[n].entity][stack'[n].next]
                 /\ Reported(CallsTo(n), stack[n + 1].entity)'
      <4>1. CASE n = last
        <5>1. target = hints[stack[n].entity][stack[n].next]
          BY <1>8, <4>1, InnermostCall DEF Inv, CallsInv, NextHint
        <5>2. stack'[n] = stack[n] /\ stack'[n + 1].entity = target
          BY <1>1, <1>4, <4>1
        <5>3. m = n /\ target' = target
          BY <2>12, <2>1, <4>1
        <5> QED
          BY <2>6, <5>1, <5>2, <5>3 DEF Reported, CallsTo
      <4>2. CASE n \in 1..(last - 1)
        <5>1. PICK e : e = stack[n + 1].entity
          OBVIOUS
        <5>2. Reported(CallsTo(n), e)
          BY <4>2, <5>1 DEF Inv, CallsInv
        <5>3. Reported(CallsTo(n), e)'
          BY <2>7, <5>2
        <5>4. stack'[n] = stack[n] /\ stack'[n + 1] = stack[n + 1]
          BY <1>1, <1>4, <4>2
        <5> QED
          BY <4>2, <5>1, <5>3, <5>4 DEF Inv, CallsInv
      <4> QED
        BY <1>1, <4>1, <4>2
    <3>2. \A i, j \in 1..(last + 1) : stack'[i].entity = stack'[j].entity => i = j
      <4> TAKE i \in 1..(last + 1), j \in 1..(last + 1)
      <4>1. CASE i \in 1..last /\ j \in 1..last
        BY <1>4, <4>1 DEF Inv, CallsInv
      <4>2. CASE i = last + 1 \/ j = last + 1
        BY <1>1, <1>4, <1>5, <4>2
      <4> QED
        BY <1>1, <4>1, <4>2
    <3>3. \A n \in 1..(last + 1) : stack'[n].next >= 1
      BY <1>1, <1>4 DEF Inv, CallsInv
    <3>4. stack' # << >> /\ stack'[1].entity = Start
      BY <1>1, <1>4, <1>8 DEF Inv, CallsInv
    <3> QED
      BY <1>3, <1>4, <3>1, <3>2, <3>3, <3>4 DEF CallsInv
  <2>9. ChainInv'
    <3>1. ASSUME NEW i \in 2..(last + 1) PROVE chain'[i].iss = stack'[i].entity
      BY <1>1, <1>4, <1>8, <2>1, <3>1 DEF Inv, ChainInv
    <3> QED
      BY <1>3, <1>4, <2>1, <3>1 DEF Inv, ChainInv
  <2>10. NoBranchIsDropped'
    <3>1. DOMAIN stack = 1..last /\ DOMAIN stack' = 1..(last + 1)
      BY <1>1, <1>4, LenProperties
    <3> SUFFICES ASSUME NEW n \in 1..(last + 1), NEW i \in 1..(stack'[n].next - 1)
                 PROVE  Reported(CallsTo(n), hints[stack[n].entity][i])'
      BY <3>1 DEF NoBranchIsDropped, Reported, CallsTo
    <3>2. n \in 1..last /\ stack'[n] = stack[n]
      BY <1>1, <1>4
    <3>3. PICK e : e = hints[stack[n].entity][i]
      OBVIOUS
    <3>4. Reported(CallsTo(n), e)
      BY <3>1, <3>2, <3>3 DEF Inv, NoBranchIsDropped, Reported, CallsTo
    <3>5. Reported(CallsTo(n), e)'
      BY <2>7, <3>2, <3>4
    <3> QED
      BY <3>2, <3>3, <3>5 DEF Reported, CallsTo
  <2>11. ChainsAreAuthentic'
    <3>1. ended[1].sub = Start
      BY <1>1, <1>8, <2>4 DEF Inv, ChainInv
    <3>2. Simple(Path(ended))
      <4>1. /\ Len(Append(EntitiesOf(stack), target)) = last + 1
            /\ DOMAIN Append(EntitiesOf(stack), target) = 1..(last + 1)
            /\ \A i \in 1..(last + 1) : Append(EntitiesOf(stack), target)[i] = stack'[i].entity
        <5>1. /\ EntitiesOf(stack) \in Seq(Entities) /\ Len(EntitiesOf(stack)) = last
              /\ \A i \in 1..last : EntitiesOf(stack)[i] = stack[i].entity
          BY <1>1, EntitiesOfFrames
        <5>2. /\ Append(EntitiesOf(stack), target) \in Seq(Entities)
              /\ Len(Append(EntitiesOf(stack), target)) = last + 1
              /\ \A i \in 1..last :
                   Append(EntitiesOf(stack), target)[i] = EntitiesOf(stack)[i]
              /\ Append(EntitiesOf(stack), target)[last + 1] = target
          BY <1>1, <5>1, AppendProperties
        <5>3. ASSUME NEW i \in 1..(last + 1)
              PROVE  Append(EntitiesOf(stack), target)[i] = stack'[i].entity
          <6>1. i \in 1..last \/ i = last + 1
            BY <1>1
          <6> QED
            BY <1>4, <5>1, <5>2, <6>1
        <5> QED
          BY <5>2, <5>3, LenProperties
      <4>2. \A i, j \in 1..(last + 1) : stack'[i].entity = stack'[j].entity => i = j
        BY <1>4, <2>8 DEF CallsInv
      <4> QED
        BY <2>2, <4>1, <4>2 DEF Simple
    <3> QED
      BY <2>1, <3>1, <3>2 DEF Inv, ChainsAreAuthentic
  <2> QED
    BY <2>5, <2>8, <2>9, <2>10, <2>11 DEF Inv
<1> QED
  BY <1>7, <1>8

\* A call whose hints were all tried leaves the stack, the path and the chain.
LEMMA ReturnKeepsInv ==
  ASSUME Inv, FederationTypeOK', hints' = hints, Return
  PROVE  Inv'
<1> DEFINE last == Len(stack)
<1>1. /\ stack \in Seq(Frames) /\ last \in Nat /\ last >= 1 /\ stack # << >>
      /\ Frame = stack[last]
      /\ step = "superior"
      /\ chain \in Seq(Jwts) /\ Len(chain) = last /\ chain # << >>
  <2>1. step = "superior" /\ stack # << >>
    BY DEF Return, Inv, CallsInv
  <2>2. chain \in Seq(Jwts) /\ Len(chain) = last
    BY <2>1 DEF Inv, TypeOK
  <2> QED
    BY <2>1, <2>2, InnermostCall
<1>2. /\ chain' = Front(chain) /\ visited' = visited \ {Frame.entity}
      /\ UNCHANGED <<target, superior, chains, failures>>
  BY DEF Return
<1>3. /\ chain' \in Seq(Jwts) /\ Len(chain') = last - 1
      /\ \A i \in 1..(last - 1) : chain'[i] = chain[i]
  BY <1>1, <1>2, FrontOf
<1>4. ChainsAreAuthentic'
  BY <1>2 DEF Inv, ChainsAreAuthentic
<1>5. visited = {stack[i].entity : i \in 1..last}
  <2>1. /\ EntitiesOf(stack) \in Seq(Entities) /\ Len(EntitiesOf(stack)) = last
        /\ \A i \in 1..last : EntitiesOf(stack)[i] = stack[i].entity
    BY <1>1, EntitiesOfFrames
  <2>2. Range(EntitiesOf(stack)) = {EntitiesOf(stack)[i] : i \in 1..last}
    BY <2>1, RangeEquality
  <2> QED
    BY <2>1, <2>2 DEF Inv, TypeOK
<1>6. CASE last = 1
  <2>1. stack' = << >> /\ step' = "done" /\ result' = "ok"
    BY <1>6 DEF Return
  <2>2. Len(stack') = 0 /\ stack' \in Seq(Frames) /\ EntitiesOf(stack') = << >>
    BY <2>1, EmptySeq DEF EntitiesOf
  <2>3. visited' = Range(EntitiesOf(stack'))
    <3>1. visited' = {}
      BY <1>1, <1>2, <1>5, <1>6
    <3> QED
      BY <2>2, <3>1 DEF Range
  <2>4. TypeOK'
    BY <1>2, <1>3, <1>6, <2>1, <2>2, <2>3 DEF Inv, TypeOK, Frames
  <2>5. CallsInv' /\ ChainInv'
    <3>1. chain' = << >>
      BY <1>3, <1>6, EmptySeq
    <3> QED
      BY <2>1, <2>2, <3>1 DEF CallsInv, ChainInv
  <2>6. NoBranchIsDropped'
    BY <2>1 DEF NoBranchIsDropped
  <2> QED
    BY <1>4, <2>4, <2>5, <2>6 DEF Inv
<1>7. CASE last # 1
  <2>1. stack' = Advanced(Front(stack)) /\ step' = "superior" /\ result' = result
    BY <1>1, <1>7 DEF Return
  <2>2. PICK m \in Nat : m = last - 1
    BY <1>1
  <2>3. m \in 1..Len(stack) /\ m >= 1 /\ last = m + 1
    BY <1>1, <1>7, <2>2
  <2>4. /\ Front(stack) \in Seq(Frames) /\ Len(Front(stack)) = m
        /\ \A i \in 1..m : Front(stack)[i] = stack[i]
        /\ Front(stack) # << >>
    BY <1>1, <2>2, <2>3, FrontOf
  <2>5. /\ stack' \in Seq(Frames) /\ Len(stack') = m
        /\ \A i \in 1..(m - 1) : stack'[i] = Front(stack)[i]
        /\ stack'[m].entity = Front(stack)[m].entity
        /\ stack'[m].next = Front(stack)[m].next + 1
    BY <2>1, <2>4, AdvancedFrames
  <2>6. /\ \A i \in 1..(m - 1) : stack'[i] = stack[i]
        /\ stack'[m].entity = stack[m].entity
        /\ stack'[m].next = stack[m].next + 1
    BY <2>3, <2>4, <2>5
  <2>7. PICK hint : hint = stack[m + 1].entity
    OBVIOUS
  <2>8. /\ hint = hints[stack[m].entity][stack[m].next]
        /\ Reported(CallsTo(m), hint)
    BY <2>3, <2>7 DEF Inv, CallsInv
  <2>9. /\ failures \subseteq failures' /\ chains \subseteq chains'
        /\ m <= Len(stack')
        /\ \A i \in 1..m : stack'[i].entity = stack[i].entity
    <3>1. ASSUME NEW i \in 1..m PROVE stack'[i].entity = stack[i].entity
      <4>1. i = m \/ i \in 1..(m - 1)
        BY <2>3
      <4> QED
        BY <2>6, <4>1
    <3> QED
      BY <1>2, <2>5, <3>1
  <2>10. Reported(CallsTo(m), hint)'
    BY <2>3, <2>5, <2>8, <2>9, ReportsKept
  <2>11. CallsInv' /\ NoBranchIsDropped'
    BY <2>1, <2>3, <2>5, <2>6, <2>8, <2>9, <2>10, AdvancedCalls
  <2>12. ChainInv'
    <3>1. chain'[1] = chain[1]
      BY <1>3, <2>3
    <3>2. ASSUME NEW i \in 2..m PROVE chain'[i].iss = stack'[i].entity
      <4>1. i \in 1..m /\ i \in 1..(last - 1) /\ i \in 2..last
        BY <2>3
      <4> QED
        BY <1>3, <2>9, <4>1 DEF Inv, ChainInv
    <3> QED
      BY <1>1, <2>1, <2>5, <3>1, <3>2 DEF Inv, ChainInv
  <2>13. visited' = Range(EntitiesOf(stack'))
    <3>1. /\ EntitiesOf(stack') \in Seq(Entities) /\ Len(EntitiesOf(stack')) = m
          /\ \A i \in 1..m : EntitiesOf(stack')[i] = stack'[i].entity
      BY <2>5, EntitiesOfFrames
    <3>2. Range(EntitiesOf(stack')) = {EntitiesOf(stack')[i] : i \in 1..m}
      BY <3>1, RangeEquality
    <3>3. {EntitiesOf(stack')[i] : i \in 1..m} = {stack[i].entity : i \in 1..m}
      BY <2>9, <3>1
    <3>4. \A i, j \in 1..last : stack[i].entity = stack[j].entity => i = j
      BY DEF Inv, CallsInv
    <3>5. {stack[i].entity : i \in 1..last} \ {stack[last].entity}
            = {stack[i].entity : i \in 1..m}
      BY <2>3, <3>4
    <3> QED
      BY <1>1, <1>2, <1>5, <3>2, <3>3, <3>5
  <2>14. TypeOK'
    BY <1>2, <1>3, <2>1, <2>2, <2>5, <2>13 DEF Inv, TypeOK, Frames
  <2> QED
    BY <1>4, <2>11, <2>12, <2>14 DEF Inv
<1> QED
  BY <1>6, <1>7

-----------------------------------------------------------------------------

\* The Superior answers, or its statement does, or the federation changes: the
\* calls and what was reported stay as they are.
LEMMA CallsUnchanged ==
  ASSUME Inv, UNCHANGED <<hints, stack, chains, failures>>
  PROVE  /\ ChainsAreAuthentic' /\ NoBranchIsDropped'
         /\ \A n \in 1..(Len(stack) - 1) : Reported(CallsTo(n), stack[n + 1].entity)'
<1>1. ChainsAreAuthentic'
  BY DEF Inv, ChainsAreAuthentic
<1>2. EntitiesOf(stack)' = EntitiesOf(stack)
  BY DEF EntitiesOf
<1>3. NoBranchIsDropped'
  <2>1. NoBranchIsDropped /\ stack' = stack
    BY DEF Inv
  <2> QED
    BY <1>2, <2>1 DEF NoBranchIsDropped
<1>4. ASSUME NEW n \in 1..(Len(stack) - 1)
      PROVE  Reported(CallsTo(n), stack[n + 1].entity)'
  <2>1. Reported(CallsTo(n), stack[n + 1].entity)
    BY DEF Inv, CallsInv
  <2> QED
    BY <1>2, <2>1 DEF Reported, CallsTo
<1> QED
  BY <1>1, <1>3, <1>4

LEMMA AskSuperiorKeepsInv ==
  ASSUME Inv, FederationTypeOK', hints' = hints, AskSuperior
  PROVE  Inv'
<1>1. stack # << >> /\ step = "superior" /\ NextHint \in Entities
  BY InnermostCall DEF AskSuperior, Inv, CallsInv
<1>2. CASE SkipHint
  BY <1>1, <1>2, SkipKeepsInv
<1>3. CASE ~SkipHint
  <2>1. /\ superior' = Configuration(NextHint) /\ step' = "statement"
        /\ UNCHANGED <<key, target, stack, visited, chain, chains, failures, result>>
    BY <1>3 DEF AskSuperior, worldVars
  <2>2. superior' \in Jwts /\ superior'.sub = NextHint
    BY <1>1, <2>1 DEF Configuration, Jwts, Inv, TypeOK, FederationTypeOK
  <2>3. NextHint' = NextHint
    BY <2>1 DEF NextHint, Frame
  <2>4. TypeOK'
    BY <1>1, <2>1, <2>2 DEF Inv, TypeOK, EntitiesOf
  <2>5. CallsInv'
    BY <1>1, <2>1, <2>2, <2>3, CallsUnchanged DEF Inv, CallsInv
  <2>6. ChainInv'
    BY <1>1, <2>1 DEF Inv, ChainInv
  <2> QED
    BY <2>1, <2>4, <2>5, <2>6, CallsUnchanged DEF Inv
<1> QED
  BY <1>2, <1>3

LEMMA AskStatementKeepsInv ==
  ASSUME Inv, FederationTypeOK', hints' = hints, AskStatement
  PROVE  Inv'
<1>1. /\ stack # << >> /\ step = "statement"
      /\ superior.sub = NextHint /\ NextHint \in Entities
  BY DEF AskStatement, Inv, CallsInv, TypeOK, Jwts
<1>2. CASE SkipHint
  BY <1>1, <1>2, SkipKeepsInv
<1>3. CASE ~SkipHint
  <2> DEFINE statement == Statement(superior.sub, Frame.entity)
  <2>1. /\ StatementVerifies(superior, Frame.entity)
        /\ chain' = Append(chain, statement)
        /\ target' = superior.sub /\ step' = "enter"
        /\ UNCHANGED <<stack, superior, visited, chains, failures, result>>
    BY <1>3 DEF AskStatement
  <2>2. Frame.entity \in Entities /\ Len(stack) \in Nat /\ Len(stack) >= 1
        /\ chain \in Seq(Jwts) /\ Len(chain) = Len(stack)
    BY <1>1, InnermostCall DEF Inv, TypeOK
  <2>3. statement \in Jwts /\ statement.iss = superior.sub
    <3>1. superior.sub \in Entities /\ key[superior.sub] \in Nat
      BY <1>1 DEF Inv, TypeOK, FederationTypeOK
    <3>2. endorsed[superior.sub][Frame.entity] \in Nat
      <4>1. endorsed \in Endorsements
        BY DEF Inv, TypeOK, FederationTypeOK
      <4>2. endorsed[superior.sub][Frame.entity] \in Nat \cup {NoKey}
        BY <2>2, <3>1, <4>1 DEF Endorsements
      <4>3. endorsed[superior.sub][Frame.entity] # NoKey
        BY <2>1 DEF StatementVerifies
      <4> QED
        BY <4>2, <4>3
    <3> QED
      BY <2>2, <3>1, <3>2 DEF Statement, Jwts
  <2> HIDE DEF statement
  <2>4. /\ chain' \in Seq(Jwts) /\ Len(chain') = Len(stack) + 1 /\ chain' # << >>
        /\ \A i \in 1..Len(stack) : chain'[i] = chain[i]
        /\ chain'[Len(stack) + 1] = statement
    BY <2>1, <2>2, <2>3, AppendProperties
  <2>5. NextHint' = NextHint
    BY <2>1 DEF NextHint, Frame
  <2>6. TypeOK'
    BY <1>1, <2>1, <2>4 DEF Inv, TypeOK, EntitiesOf
  <2>7. CallsInv'
    BY <1>1, <2>1, <2>5, CallsUnchanged DEF Inv, CallsInv
  <2>8. ChainInv'
    <3>1. chain # << >>
      BY <2>2
    <3>2. ASSUME NEW i \in 2..Len(stack) PROVE chain'[i].iss = stack[i].entity
      BY <2>2, <2>4 DEF Inv, ChainInv
    <3> QED
      BY <2>1, <2>2, <2>3, <2>4, <3>1, <3>2 DEF Inv, ChainInv
  <2> QED
    BY <2>1, <2>6, <2>7, <2>8, CallsUnchanged DEF Inv
<1> QED
  BY <1>2, <1>3

LEMMA InvNext == Inv /\ [Next]_vars => Inv'
<1> SUFFICES ASSUME Inv, [Next]_vars PROVE Inv'
  OBVIOUS
<1>1. FederationTypeOK' /\ hints' = hints
  BY WorldKept DEF Inv, TypeOK
<1>2. CASE EnterLoop
  BY <1>1, <1>2, CallFailsKeepsInv DEF EnterLoop
<1>3. CASE Enter
  <2>1. CASE CallFails
    BY <1>1, <1>3, <2>1, CallFailsKeepsInv DEF Enter
  <2>2. CASE BeginCall(Configuration(target))
    <3>1. PICK config : config = Configuration(target)
      OBVIOUS
    <3>2. config \in Jwts /\ config.sub = target
      BY <3>1 DEF Configuration, Jwts, Inv, TypeOK, FederationTypeOK
    <3>3. BeginCall(config)
      BY <2>2, <3>1
    <3> QED
      BY <1>1, <1>3, <3>2, <3>3, BeginCallKeepsInv DEF Enter
  <2> QED
    BY <1>3, <2>1, <2>2 DEF Enter
<1>4. CASE AskSuperior
  BY <1>1, <1>4, AskSuperiorKeepsInv
<1>5. CASE AskStatement
  BY <1>1, <1>5, AskStatementKeepsInv
<1>6. CASE Return
  BY <1>1, <1>6, ReturnKeepsInv
<1>7. CASE UNCHANGED walkVars
  <2>1. TypeOK'
    BY <1>1, <1>7 DEF walkVars, Inv, TypeOK, EntitiesOf
  <2>2. NextHint' = NextHint
    BY <1>1, <1>7 DEF walkVars, NextHint, Frame
  <2>3. CallsInv'
    BY <1>1, <1>7, <2>2, CallsUnchanged DEF walkVars, Inv, CallsInv
  <2>4. ChainInv'
    BY <1>7 DEF walkVars, Inv, ChainInv
  <2> QED
    BY <1>1, <1>7, <2>1, <2>3, <2>4, CallsUnchanged DEF walkVars, Inv
<1> QED
  BY <1>2, <1>3, <1>4, <1>5, <1>6, <1>7 DEF Next, Walk, vars

LEMMA InvCorrect == Spec => []Inv
  BY InvInit, InvNext, PTL DEF Spec

\* Every variable has its type, and what a branch did to the path and the chain
\* is undone when it is left.
THEOREM TypeCorrect == Spec => []TypeOK
<1>1. Inv => TypeOK
  BY DEF Inv
<1> QED
  BY <1>1, InvCorrect, PTL

\* Every chain that is reported is authentic and a simple path from the start
\* entity, whatever changes while it is put together.
THEOREM OnlyAuthenticChains == Spec => []ChainsAreAuthentic
<1>1. Inv => ChainsAreAuthentic
  BY DEF Inv
<1> QED
  BY <1>1, InvCorrect, PTL

\* Every hint that was passed over ends a chain that is reported, or is reported
\* as a failure.
THEOREM NothingDropped == Spec => []NoBranchIsDropped
<1>1. Inv => NoBranchIsDropped
  BY DEF Inv
<1> QED
  BY <1>1, InvCorrect, PTL

-----------------------------------------------------------------------------
(* Every path is found.                                                    *)

\* The calls follow hints that are there, to Superiors that can be asked, and
\* the chain holds what they said of the calls before.
FollowedInv ==
  /\ \A n \in 1..(Len(stack) - 1) : stack[n].next <= Len(hints[stack[n].entity])
  /\ step \in {"enter", "statement"} /\ stack # << >> => HasHint
  /\ \A n \in 2..Len(stack) :
       /\ stack[n].entity \in endpoints
       /\ chain[n].sub = stack[n - 1].entity
  /\ step = "statement" => superior.sub \in endpoints
  /\ step = "enter" /\ stack # << >> =>
       target \in endpoints /\ chain[Len(stack) + 1].sub = Frame.entity

Found(p) == \E c \in chains : Path(c) = p

\* The path goes along the first `n` calls.
Along(p, n) == Len(p) >= n /\ \A i \in 1..n : p[i] = stack[i].entity

\* While nothing goes wrong: what was found are paths, and every path over a
\* hint that was passed over, or that ends at a call, was found.
SearchedInv ==
  changes = 0 =>
    /\ step = "statement" => superior.lists = key[superior.sub]
    /\ chain # << >> => chain[1] = Configuration(Start)
    /\ \A i \in 2..Len(chain) : chain[i] = Statement(chain[i].iss, chain[i].sub)
    /\ \A c \in chains : Path(c) \in Paths
    /\ \A p \in Paths :
         /\ \A n \in 1..Len(stack) :
              /\ Along(p, n) /\ Len(p) > n =>
                   \A i \in 1..(stack[n].next - 1) :
                     p[n + 1] = hints[stack[n].entity][i] => Found(p)
              /\ Along(p, n) /\ Len(p) = n => Found(p)
         /\ step = "done" => Found(p)

-----------------------------------------------------------------------------

LEMMA PathsAreFollowed ==
  ASSUME FederationTypeOK, NEW p \in Paths
  PROVE  /\ p \in Seq(Entities) /\ Len(p) \in Nat /\ Len(p) >= 2
         /\ p[1] = Start
         /\ \A i, j \in 1..Len(p) : p[i] = p[j] => i = j
         /\ \A i \in 1..(Len(p) - 1) :
              /\ p[i] \in Entities /\ p[i + 1] \in Entities
              /\ p[i + 1] \in endpoints
              /\ \E j \in 1..Len(hints[p[i]]) : hints[p[i]][j] = p[i + 1]
              /\ endorsed[p[i + 1]][p[i]] = key[p[i]]
<1>1. PICK n \in 2..Cardinality(Entities) : p \in [1..n -> Entities]
  BY DEF Paths
<1>2. /\ p \in Seq(Entities) /\ Len(p) = n /\ n \in Nat /\ n >= 2
  BY <1>1, SeqDef, LenProperties, FS_CardinalityType, EntitiesAreFinite
<1>3. /\ p[1] = Start /\ Simple(p)
      /\ \A i \in 1..(Len(p) - 1) : p[i + 1] \in endpoints \cap Endorsing[p[i]]
  BY DEF Paths
<1>4. \A i, j \in 1..Len(p) : p[i] = p[j] => i = j
  BY <1>1, <1>2, <1>3 DEF Simple
<1>5. ASSUME NEW i \in 1..(Len(p) - 1)
      PROVE  /\ p[i] \in Entities /\ p[i + 1] \in Entities
             /\ p[i + 1] \in endpoints
             /\ \E j \in 1..Len(hints[p[i]]) : hints[p[i]][j] = p[i + 1]
             /\ endorsed[p[i + 1]][p[i]] = key[p[i]]
  <2>1. p[i] \in Entities /\ p[i + 1] \in Entities
    BY <1>1, <1>2
  <2>2. p[i + 1] \in endpoints /\ p[i + 1] \in Endorsing[p[i]]
    BY <1>3
  <2>3. p[i + 1] \in ToSet(hints[p[i]]) /\ endorsed[p[i + 1]][p[i]] = key[p[i]]
    BY <2>1, <2>2 DEF Endorsing
  <2>4. hints[p[i]] \in Seq(Entities) /\ DOMAIN hints[p[i]] = 1..Len(hints[p[i]])
    BY <2>1, LenProperties DEF FederationTypeOK
  <2> QED
    BY <2>1, <2>2, <2>3, <2>4 DEF ToSet
<1> QED
  BY <1>2, <1>3, <1>4, <1>5

\* Over finitely many entities a simple path is no longer than there are entities.
LEMMA FollowedIsPath ==
  ASSUME FederationTypeOK, NEW p \in Seq(Entities), Len(p) >= 2,
         p[1] = Start,
         \A i, j \in 1..Len(p) : p[i] = p[j] => i = j,
         \A i \in 1..(Len(p) - 1) :
           /\ p[i + 1] \in endpoints
           /\ \E j \in 1..Len(hints[p[i]]) : hints[p[i]][j] = p[i + 1]
           /\ endorsed[p[i + 1]][p[i]] = key[p[i]]
  PROVE  p \in Paths
<1>1. PICK n \in Nat : n = Len(p)
  BY LenProperties
<1>2. p \in [1..n -> Entities] /\ DOMAIN p = 1..n
  BY <1>1, LenProperties
<1>3. p \in Injection(1..n, Entities)
  BY <1>1, <1>2 DEF Injection, IsInjective
<1>4. n <= Cardinality(Entities)
  <2>1. Cardinality(1..n) <= Cardinality(Entities)
    BY <1>3, EntitiesAreFinite, FS_Injection
  <2>2. Cardinality(1..n) = IF 1 > n THEN 0 ELSE n - 1 + 1
    BY <1>1, FS_Interval
  <2> QED
    BY <1>1, <2>1, <2>2
<1>5. n \in 2..Cardinality(Entities)
  BY <1>1, <1>4, FS_CardinalityType, EntitiesAreFinite
<1>6. Simple(p)
  BY <1>1, <1>2 DEF Simple
<1>7. ASSUME NEW i \in 1..(Len(p) - 1) PROVE p[i + 1] \in endpoints \cap Endorsing[p[i]]
  <2>1. p[i] \in Entities /\ p[i + 1] \in Entities
    BY <1>1, <1>2
  <2>2. hints[p[i]] \in Seq(Entities) /\ DOMAIN hints[p[i]] = 1..Len(hints[p[i]])
    BY <2>1, LenProperties DEF FederationTypeOK
  <2>3. /\ p[i + 1] \in endpoints /\ endorsed[p[i + 1]][p[i]] = key[p[i]]
        /\ \E j \in 1..Len(hints[p[i]]) : hints[p[i]][j] = p[i + 1]
    OBVIOUS
  <2>4. p[i + 1] \in ToSet(hints[p[i]])
    BY <2>2, <2>3 DEF ToSet
  <2> QED
    BY <2>1, <2>3, <2>4 DEF Endorsing
<1> QED
  BY <1>2, <1>5, <1>6, <1>7 DEF Paths

\* The walk with all that is known of it.
SearchInv == Inv /\ FollowedInv /\ SearchedInv

LEMMA VisitedAreCalls ==
  ASSUME Inv
  PROVE  visited = {stack[i].entity : i \in 1..Len(stack)}
<1>1. /\ EntitiesOf(stack) \in Seq(Entities) /\ Len(EntitiesOf(stack)) = Len(stack)
      /\ \A i \in 1..Len(stack) : EntitiesOf(stack)[i] = stack[i].entity
  BY InnermostCall, EntitiesOfFrames
<1>2. Range(EntitiesOf(stack)) = {EntitiesOf(stack)[i] : i \in 1..Len(stack)}
  BY <1>1, RangeEquality
<1> QED
  BY <1>1, <1>2 DEF Inv, TypeOK

\* Every path along the innermost call was found when its hints were all tried.
LEMMA AllHintsTried ==
  ASSUME SearchInv, changes = 0, stack # << >>, ~HasHint,
         NEW p \in Paths, Along(p, Len(stack))
  PROVE  Found(p)
<1> DEFINE last == Len(stack)
<1>1. /\ last \in Nat /\ last >= 1 /\ last \in 1..last /\ Frame = stack[last]
      /\ Frame.next \in Nat /\ hints[Frame.entity] \in Seq(Entities)
  BY InnermostCall DEF SearchInv
<1>2. /\ p \in Seq(Entities) /\ Len(p) \in Nat /\ Len(p) >= last
      /\ p[last] = Frame.entity
  <2>1. FederationTypeOK
    BY DEF SearchInv, Inv, TypeOK
  <2>2. p \in Seq(Entities) /\ Len(p) \in Nat
    BY <2>1, PathsAreFollowed
  <2> QED
    BY <1>1, <2>2 DEF Along
<1>3. CASE Len(p) = last
  BY <1>1, <1>3 DEF SearchInv, SearchedInv
<1>4. CASE Len(p) > last
  <2>1. last \in 1..(Len(p) - 1)
    BY <1>1, <1>2, <1>4
  <2>2. PICK j \in 1..Len(hints[Frame.entity]) : hints[Frame.entity][j] = p[last + 1]
    <3>1. \E j \in 1..Len(hints[p[last]]) : hints[p[last]][j] = p[last + 1]
      <4>1. FederationTypeOK
        BY DEF SearchInv, Inv, TypeOK
      <4> HIDE DEF last
      <4> QED
        BY <2>1, <4>1, PathsAreFollowed
    <3> QED
      BY <1>2, <3>1
  <2>3. j \in 1..(stack[last].next - 1)
    BY <1>1, LenProperties DEF HasHint
  <2> QED
    BY <1>1, <1>4, <2>2, <2>3 DEF SearchInv, SearchedInv
<1> QED
  BY <1>2, <1>3, <1>4

\* The calls up to the m-th are left, and that one goes on to its next hint:
\* the paths over its present one were found.
LEMMA SearchGoesOn ==
  ASSUME SearchInv, FederationTypeOK', hints' = hints, endpoints' = endpoints,
         changes' = 0 => UNCHANGED worldVars,
         NEW m \in 1..Len(stack),
         step' = "superior", stack' \in Seq(Frames), Len(stack') = m,
         \A i \in 1..(m - 1) : stack'[i] = stack[i],
         stack'[m].entity = stack[m].entity,
         stack'[m].next = stack[m].next + 1,
         Len(chain) >= m, chain' \in Seq(Jwts), Len(chain') = m,
         \A i \in 1..m : chain'[i] = chain[i],
         chains' = chains,
         changes' = 0 =>
           \A p \in Paths :
             Along(p, m) /\ Len(p) > m /\ p[m + 1] = hints[stack[m].entity][stack[m].next]
             => Found(p)
  PROVE  FollowedInv' /\ SearchedInv'
<1>1. /\ Len(stack) \in Nat /\ m \in Nat /\ 1 <= m /\ m <= Len(stack)
      /\ stack' # << >> /\ chain # << >> /\ Len(chain) \in Nat /\ chain \in Seq(Jwts)
      /\ \A i \in 1..Len(stack) : stack[i].next \in Nat
  BY InnermostCall, EmptySeq, LenProperties DEF SearchInv
<1>2. \A i \in 1..m : stack'[i].entity = stack[i].entity
  <2> TAKE i \in 1..m
  <2>1. i = m \/ i \in 1..(m - 1)
    BY <1>1
  <2> QED
    BY <2>1
<1>3. FollowedInv'
  <2>1. \A n \in 1..(m - 1) : stack'[n].next <= Len(hints[stack'[n].entity])
    BY <1>1 DEF SearchInv, FollowedInv
  <2>2. ASSUME NEW n \in 2..m
        PROVE  stack'[n].entity \in endpoints /\ chain'[n].sub = stack'[n - 1].entity
    <3>1. n \in 2..Len(stack) /\ n \in 1..m /\ n - 1 \in 1..m
      BY <1>1
    <3> QED
      BY <1>2, <3>1 DEF SearchInv, FollowedInv
  <2> QED
    BY <2>1, <2>2 DEF FollowedInv
<1>4. SearchedInv'
  <2> SUFFICES ASSUME changes' = 0 PROVE SearchedInv'
    BY DEF SearchedInv
  <2>1. UNCHANGED <<hints, endpoints, key, endorsed, changes>>
    BY DEF worldVars
  <2>2. Paths' = Paths /\ \A p : Found(p)' = Found(p)
    BY <2>1 DEF Paths, Endorsing, Found
  <2>3. chain'[1] = Configuration(Start)'
    BY <1>1, <2>1 DEF SearchInv, SearchedInv, Configuration
  <2>4. \A i \in 2..m : chain'[i] = Statement(chain[i].iss, chain[i].sub)'
    <3> TAKE i \in 2..m
    <3>1. i \in 2..Len(chain) /\ i \in 1..m
      BY <1>1
    <3> QED
      BY <2>1, <3>1 DEF SearchInv, SearchedInv, Statement
  <2>5. ASSUME NEW p \in Paths, NEW n \in 1..m, Along(p, n)'
        PROVE  /\ Len(p) > n =>
                    \A i \in 1..(stack'[n].next - 1) :
                      p[n + 1] = hints[stack'[n].entity][i] => Found(p)
               /\ Len(p) = n => Found(p)
    <3>1. Along(p, n) /\ n \in 1..Len(stack) /\ n \in Nat
      BY <1>1, <1>2, <2>5 DEF Along
    <3>2. Len(p) = n => Found(p)
      BY <2>1, <3>1 DEF SearchInv, SearchedInv
    <3>3. ASSUME Len(p) > n, NEW i \in 1..(stack'[n].next - 1),
                 p[n + 1] = hints[stack'[n].entity][i]
          PROVE  Found(p)
      <4>1. CASE n = m /\ i = stack[m].next
        BY <1>2, <2>1, <3>1, <3>3, <4>1
      <4>2. CASE ~(n = m /\ i = stack[m].next)
        <5>1. i \in 1..(stack[n].next - 1)
          <6>1. n = m \/ n \in 1..(m - 1)
            BY <1>1
          <6> QED
            BY <1>1, <4>2, <6>1
        <5> QED
          BY <1>2, <2>1, <3>1, <3>3, <5>1 DEF SearchInv, SearchedInv
      <4> QED
        BY <4>1, <4>2
    <3> QED
      BY <3>2, <3>3
  <2>6. \A c \in chains : Path(c) \in Paths
    BY <2>1 DEF SearchInv, SearchedInv
  <2> QED
    BY <2>1, <2>2, <2>3, <2>4, <2>5, <2>6 DEF SearchedInv
<1> QED
  BY <1>3, <1>4

\* A hint that no path goes over is passed over.
LEMMA SkipKeepsSearch ==
  ASSUME SearchInv, FederationTypeOK', hints' = hints, endpoints' = endpoints,
         changes' = 0 => UNCHANGED worldVars,
         step \in {"superior", "statement"}, SkipHint,
         changes' = 0 =>
           NextHint \notin endpoints \/ endorsed[NextHint][Frame.entity] # key[Frame.entity]
  PROVE  FollowedInv' /\ SearchedInv'
<1>1. PICK m \in Nat : m = Len(stack)
  BY InnermostCall DEF SearchInv
<1>2. stack # << >> /\ Len(chain) = m /\ chain \in Seq(Jwts)
  BY <1>1 DEF SearchInv, Inv, TypeOK, CallsInv
<1>3. m \in 1..Len(stack) /\ Frame = stack[m] /\ stack \in Seq(Frames)
  BY <1>1, <1>2, InnermostCall DEF SearchInv
<1>4. /\ stack' \in Seq(Frames) /\ Len(stack') = m
      /\ \A i \in 1..(m - 1) : stack'[i] = stack[i]
      /\ stack'[m].entity = stack[m].entity
      /\ stack'[m].next = stack[m].next + 1
  BY <1>1, <1>2, <1>3, AdvancedFrames DEF SkipHint
<1>5. ASSUME changes' = 0, NEW p \in Paths, Along(p, m), Len(p) > m,
             p[m + 1] = hints[stack[m].entity][stack[m].next]
      PROVE  FALSE
  <2>1. m \in 1..(Len(p) - 1) /\ p[m] = Frame.entity /\ p[m + 1] = NextHint
    <3>1. FederationTypeOK
      BY DEF SearchInv, Inv, TypeOK
    <3>2. Len(p) \in Nat
      BY <3>1, PathsAreFollowed
    <3>3. m \in 1..m /\ p[m] = stack[m].entity
      BY <1>1, <1>3, <1>5 DEF Along
    <3> QED
      BY <1>1, <1>3, <1>5, <3>2, <3>3 DEF NextHint
  <2> QED
    BY <1>5, <2>1, PathsAreFollowed DEF SearchInv, Inv, TypeOK
<1>6. step' = "superior" /\ chain' = chain /\ chains' = chains
  BY DEF SkipHint
<1> QED
  BY <1>2, <1>3, <1>4, <1>5, <1>6, SearchGoesOn

\* The call that begins fails: an entity that is on the path already, or a
\* request that went unanswered.
LEMMA CallFailsKeepsSearch ==
  ASSUME SearchInv, FederationTypeOK', hints' = hints, endpoints' = endpoints,
         changes' = 0 => UNCHANGED worldVars,
         step = "enter", CallFails,
         changes' = 0 => target \in visited
  PROVE  FollowedInv' /\ SearchedInv'
<1> DEFINE last == Len(stack)
<1>1. CASE stack = << >>
  <2>1. visited = {}
    <3>1. 1..Len(stack) = {}
      BY <1>1
    <3> QED
      BY <3>1, VisitedAreCalls DEF SearchInv
  <2>2. changes' # 0
    BY <2>1
  <2>3. stack' = << >> /\ step' = "done" /\ Len(stack') = 0
    BY <1>1 DEF CallFails
  <2> QED
    BY <2>2, <2>3 DEF FollowedInv, SearchedInv
<1>2. CASE stack # << >>
  <2>1. /\ step' = "superior" /\ stack' = Advanced(stack)
        /\ chain' = Front(chain) /\ chains' = chains
    BY <1>2 DEF CallFails
  <2>2. PICK m \in Nat : m = Len(stack)
    BY InnermostCall DEF SearchInv
  <2>3. /\ m \in 1..Len(stack) /\ Frame = stack[m] /\ stack \in Seq(Frames)
        /\ chain \in Seq(Jwts) /\ Len(chain) = m + 1 /\ chain # << >>
        /\ target = NextHint
    BY <1>2, <2>2, InnermostCall DEF SearchInv, Inv, TypeOK, CallsInv
  <2>4. /\ stack' \in Seq(Frames) /\ Len(stack') = m
        /\ \A i \in 1..(m - 1) : stack'[i] = stack[i]
        /\ stack'[m].entity = stack[m].entity
        /\ stack'[m].next = stack[m].next + 1
    BY <1>2, <2>1, <2>2, <2>3, AdvancedFrames
  <2>5. /\ chain' \in Seq(Jwts) /\ Len(chain') = m
        /\ \A i \in 1..m : chain'[i] = chain[i]
    BY <2>1, <2>3, FrontOf
  <2>6. ASSUME changes' = 0, NEW p \in Paths, Along(p, m), Len(p) > m,
               p[m + 1] = hints[stack[m].entity][stack[m].next]
        PROVE  FALSE
    <3>1. PICK j \in 1..m : stack[j].entity = target
      BY <2>2, <2>6, VisitedAreCalls DEF SearchInv
    <3>2. /\ \A i, k \in 1..Len(p) : p[i] = p[k] => i = k
          /\ Len(p) \in Nat
      BY PathsAreFollowed DEF SearchInv, Inv, TypeOK
    <3>3. j \in 1..Len(p) /\ m + 1 \in 1..Len(p) /\ j # m + 1
      BY <2>6, <3>2
    <3>4. p[j] = target /\ p[m + 1] = target
      BY <2>3, <2>6, <3>1 DEF Along, NextHint
    <3> QED
      BY <3>2, <3>3, <3>4
  <2>7. Len(chain) >= m
    BY <2>3
  <2> QED
    BY <2>1, <2>3, <2>4, <2>5, <2>6, <2>7, SearchGoesOn
<1> QED
  BY <1>1, <1>2

LEMMA ReturnKeepsSearch ==
  ASSUME SearchInv, FederationTypeOK', hints' = hints, endpoints' = endpoints,
         changes' = 0 => UNCHANGED worldVars, Return
  PROVE  FollowedInv' /\ SearchedInv'
<1> DEFINE last == Len(stack)
<1>1. /\ stack \in Seq(Frames) /\ last \in Nat /\ last >= 1 /\ stack # << >>
      /\ Frame = stack[last] /\ step = "superior" /\ ~HasHint
      /\ chain \in Seq(Jwts) /\ Len(chain) = last /\ chain # << >>
      /\ chain' = Front(chain) /\ chains' = chains
  BY InnermostCall DEF Return, SearchInv, Inv, TypeOK, CallsInv
<1>2. CASE last = 1
  <2>1. stack' = << >> /\ Len(stack') = 0 /\ step' = "done"
    BY <1>2 DEF Return
  <2>2. FollowedInv'
    BY <2>1 DEF FollowedInv
  <2>3. SearchedInv'
    <3> SUFFICES ASSUME changes' = 0 PROVE SearchedInv'
      BY DEF SearchedInv
    <3>1. UNCHANGED <<hints, endpoints, key, endorsed, changes>>
      BY DEF worldVars
    <3>2. Paths' = Paths /\ \A p : Found(p)' = Found(p)
      BY <1>1, <3>1 DEF Paths, Endorsing, Found
    <3>3. Len(chain') = 0 /\ chain' = << >>
      BY <1>1, <1>2, FrontOf, EmptySeq
    <3>4. ASSUME NEW p \in Paths PROVE Found(p)
      <4>1. Along(p, last)
        <5>1. Len(p) \in Nat /\ Len(p) >= 2 /\ p[1] = Start
          BY PathsAreFollowed DEF SearchInv, Inv, TypeOK
        <5>2. stack[1].entity = Start
          BY <1>1 DEF SearchInv, Inv, CallsInv
        <5> QED
          BY <1>2, <5>1, <5>2 DEF Along
      <4> QED
        BY <1>1, <3>1, <4>1, AllHintsTried
    <3>5. \A c \in chains : Path(c) \in Paths
      BY <3>1 DEF SearchInv, SearchedInv
    <3> QED
      BY <1>1, <2>1, <3>1, <3>2, <3>3, <3>4, <3>5 DEF SearchedInv
  <2> QED
    BY <2>2, <2>3
<1>3. CASE last # 1
  <2>1. PICK m \in Nat : m = last - 1
    BY <1>1
  <2>2. m \in 1..Len(stack) /\ m >= 1 /\ last = m + 1 /\ m \in 1..(last - 1)
    BY <1>1, <1>3, <2>1
  <2>3. /\ Front(stack) \in Seq(Frames) /\ Len(Front(stack)) = m
        /\ \A i \in 1..m : Front(stack)[i] = stack[i]
        /\ Front(stack) # << >>
    BY <1>1, <2>1, <2>2, FrontOf
  <2>4. stack' = Advanced(Front(stack)) /\ step' = "superior"
    BY <1>1, <1>3 DEF Return
  <2>5. /\ stack' \in Seq(Frames) /\ Len(stack') = m
        /\ \A i \in 1..(m - 1) : stack'[i] = Front(stack)[i]
        /\ stack'[m].entity = Front(stack)[m].entity
        /\ stack'[m].next = Front(stack)[m].next + 1
    BY <2>3, <2>4, AdvancedFrames
  <2>6. /\ \A i \in 1..(m - 1) : stack'[i] = stack[i]
        /\ stack'[m].entity = stack[m].entity
        /\ stack'[m].next = stack[m].next + 1
    BY <2>2, <2>3, <2>5
  <2>7. /\ chain' \in Seq(Jwts) /\ Len(chain') = m
        /\ \A i \in 1..m : chain'[i] = chain[i]
    BY <1>1, <2>1, FrontOf
  <2>8. ASSUME changes' = 0, NEW p \in Paths, Along(p, m), Len(p) > m,
               p[m + 1] = hints[stack[m].entity][stack[m].next]
        PROVE  Found(p)
    <3>1. p[last] = stack[last].entity
      BY <2>2, <2>8 DEF SearchInv, Inv, CallsInv
    <3>2. Len(p) \in Nat /\ Len(p) >= last
      BY <2>2, <2>8, PathsAreFollowed DEF SearchInv, Inv, TypeOK
    <3>3. ASSUME NEW i \in 1..last PROVE p[i] = stack[i].entity
      <4>1. i \in 1..m \/ i = last
        BY <2>2
      <4> QED
        BY <2>8, <3>1, <4>1 DEF Along
    <3>4. Along(p, last)
      BY <3>2, <3>3 DEF Along
    <3>5. changes = 0
      BY <2>8 DEF worldVars
    <3> QED
      BY <1>1, <3>4, <3>5, AllHintsTried
  <2>9. Len(chain) >= m
    BY <1>1, <2>2
  <2> QED
    BY <1>1, <2>2, <2>4, <2>5, <2>6, <2>7, <2>8, <2>9, SearchGoesOn
<1> QED
  BY <1>2, <1>3

\* While nothing goes wrong, try_new accepts a chain when its Superiors list the
\* keys that their subordinates have: when it goes along a path.
LEMMA EndedAlongPath ==
  ASSUME SearchInv, changes = 0, step = "enter", stack # << >>, target \notin visited
  PROVE  Authenticates(Append(chain, Configuration(target)))
           <=> Append(EntitiesOf(stack), target) \in Paths
<1> DEFINE last == Len(stack)
           ended == Append(chain, Configuration(target))
           p == Append(EntitiesOf(stack), target)
<1>1. /\ stack \in Seq(Frames) /\ last \in Nat /\ last >= 1
      /\ chain \in Seq(Jwts) /\ Len(chain) = last + 1 /\ chain # << >>
      /\ target \in Entities /\ Frame = stack[last] /\ FederationTypeOK
      /\ \A i \in 1..last : stack[i].entity \in Entities /\ stack[i].next \in Nat
  BY InnermostCall DEF SearchInv, Inv, TypeOK
<1>2. /\ EntitiesOf(stack) \in Seq(Entities) /\ Len(EntitiesOf(stack)) = last
      /\ \A i \in 1..last : EntitiesOf(stack)[i] = stack[i].entity
  BY <1>1, EntitiesOfFrames
<1>3. /\ p \in Seq(Entities) /\ Len(p) = last + 1
      /\ \A i \in 1..last : p[i] = stack[i].entity
      /\ p[last + 1] = target
  BY <1>1, <1>2, AppendProperties
<1>4. Configuration(target) \in Jwts
  BY <1>1 DEF Configuration, Jwts, FederationTypeOK
<1>5. /\ Len(ended) = last + 2
      /\ \A i \in 1..(last + 1) : ended[i] = chain[i]
      /\ ended[last + 2] = Configuration(target)
  BY <1>1, <1>4, AppendProperties
<1> HIDE DEF last, ended, p
<1>6. p[1] = Start /\ ended[1] = Configuration(Start)
  <2>1. ended[1] = chain[1] /\ p[1] = stack[1].entity
    BY <1>1, <1>3, <1>5
  <2> QED
    BY <1>1, <2>1 DEF SearchInv, Inv, CallsInv, SearchedInv
<1>7. ASSUME NEW i \in 2..(last + 1) PROVE ended[i] = Statement(p[i], p[i - 1])
  <2>1. ended[i] = chain[i] /\ chain[i] = Statement(chain[i].iss, chain[i].sub)
    BY <1>1, <1>5 DEF SearchInv, SearchedInv
  <2>2. CASE i = last + 1
    <3>1. chain[i].iss = target /\ chain[i].sub = stack[last].entity
      BY <1>1, <2>2 DEF SearchInv, Inv, ChainInv, FollowedInv, last
    <3>2. p[i] = target /\ p[i - 1] = stack[last].entity
      BY <1>1, <1>3, <2>2
    <3> QED
      BY <2>1, <3>1, <3>2
  <2>3. CASE i \in 2..last
    <3>1. chain[i].iss = stack[i].entity /\ chain[i].sub = stack[i - 1].entity
      BY <2>3 DEF SearchInv, Inv, ChainInv, FollowedInv, last
    <3>2. p[i] = stack[i].entity /\ p[i - 1] = stack[i - 1].entity
      BY <1>1, <1>3, <2>3
    <3> QED
      BY <2>1, <3>1, <3>2
  <2> QED
    BY <1>1, <2>2, <2>3
<1>8. ASSUME NEW i \in 1..last
      PROVE  /\ ended[i].key = key[p[i]] /\ ended[i].iss = p[i]
             /\ ended[i + 1].lists = endorsed[p[i + 1]][p[i]]
             /\ ended[i + 1].sub = p[i]
  <2>1. ended[i].key = key[p[i]] /\ ended[i].iss = p[i]
    <3>1. CASE i = 1
      BY <1>6, <3>1 DEF Configuration
    <3>2. CASE i \in 2..(last + 1)
      <4>1. ended[i] = Statement(p[i], p[i - 1])
        BY <1>7, <3>2
      <4> QED
        BY <4>1 DEF Statement
    <3> QED
      BY <1>1, <3>1, <3>2
  <2>2. i + 1 \in 2..(last + 1) /\ i + 1 - 1 = i
    BY <1>1
  <2>3. ended[i + 1] = Statement(p[i + 1], p[i])
    BY <1>7, <2>2
  <2> QED
    BY <2>1, <2>3 DEF Statement
<1>9. /\ ended[last + 1].key = key[target] /\ ended[last + 1].iss = target
      /\ ended[last + 2].lists = key[target]
      /\ ended[last + 2].sub = target /\ ended[last + 2].iss = target
  <2>1. PICK n : n = last + 1
    OBVIOUS
  <2>2. n \in 2..(last + 1) /\ p[n] = target
    BY <1>1, <1>3, <2>1
  <2>3. ended[n] = Statement(target, p[n - 1])
    BY <1>7, <2>2
  <2>4. ended[n].key = key[target] /\ ended[n].iss = target
    BY <2>3 DEF Statement
  <2> QED
    BY <1>5, <2>1, <2>4 DEF Configuration
<1>10. Authenticates(ended) <=> \A i \in 1..last : endorsed[p[i + 1]][p[i]] = key[p[i]]
  <2>1. /\ Len(ended) >= 2 /\ ended[1].iss = ended[1].sub
        /\ ended[Len(ended)].iss = ended[Len(ended)].sub
    BY <1>1, <1>5, <1>6, <1>9 DEF Configuration
  <2>2. ended[1].sub = ended[2].sub
    <3>1. ended[2].sub = p[1]
      <4>1. 1 \in 1..last /\ 1 + 1 = 2
        BY <1>1
      <4> QED
        BY <1>8, <4>1
    <3> QED
      BY <1>6, <3>1 DEF Configuration
  <2>3. ASSUME NEW i \in 1..(last + 1) PROVE 1 < i => ended[i].iss = ended[i + 1].sub
    <3>1. CASE i \in 1..last
      BY <1>8, <3>1
    <3>2. CASE i = last + 1
      <4>1. i + 1 = last + 2
        BY <1>1, <3>2
      <4> QED
        BY <1>9, <3>2, <4>1
    <3> QED
      BY <1>1, <3>1, <3>2
  <2>4. ended[last + 1].key = ended[last + 2].lists
    BY <1>9
  <2>5. Len(ended) - 1 = last + 1 /\ last + 1 + 1 = last + 2
    BY <1>1, <1>5
  <2>6. Authenticates(ended) <=> \A i \in 1..(last + 1) : ended[i].key = ended[i + 1].lists
    BY <2>1, <2>2, <2>3, <2>5 DEF Authenticates
  <2>7. (\A i \in 1..(last + 1) : ended[i].key = ended[i + 1].lists)
          <=> \A i \in 1..last : ended[i].key = ended[i + 1].lists
    <3>1. \A i \in 1..(last + 1) : i \in 1..last \/ i = last + 1
      BY <1>1
    <3>2. \A i \in 1..last : i \in 1..(last + 1)
      BY <1>1
    <3> QED
      BY <2>4, <2>5, <3>1, <3>2
  <2> QED
    BY <1>8, <2>6, <2>7
<1>11. (\A i \in 1..last : endorsed[p[i + 1]][p[i]] = key[p[i]]) <=> p \in Paths
  <2>1. ASSUME p \in Paths PROVE \A i \in 1..last : endorsed[p[i + 1]][p[i]] = key[p[i]]
    <3>1. Len(p) - 1 = last
      BY <1>1, <1>3
    <3> QED
      BY <1>1, <2>1, <3>1, PathsAreFollowed
  <2>2. ASSUME \A i \in 1..last : endorsed[p[i + 1]][p[i]] = key[p[i]] PROVE p \in Paths
    <3>1. \A i, j \in 1..(last + 1) : p[i] = p[j] => i = j
      <4>1. \A i \in 1..last : stack[i].entity # target
        BY VisitedAreCalls DEF SearchInv, last
      <4>2. \A i, j \in 1..last : stack[i].entity = stack[j].entity => i = j
        BY DEF SearchInv, Inv, CallsInv, last
      <4>3. \A i \in 1..(last + 1) : i \in 1..last \/ i = last + 1
        BY <1>1
      <4> QED
        BY <1>3, <4>1, <4>2, <4>3
    <3>2. ASSUME NEW i \in 1..last
          PROVE  /\ p[i + 1] \in endpoints
                 /\ \E j \in 1..Len(hints[p[i]]) : hints[p[i]][j] = p[i + 1]
      <4>1. p[i + 1] \in endpoints
        <5>1. CASE i = last
          BY <1>3, <5>1 DEF SearchInv, FollowedInv
        <5>2. CASE i # last
          <6>1. i + 1 \in 2..last /\ i + 1 \in 1..last
            BY <1>1, <5>2
          <6> QED
            BY <1>3, <6>1 DEF SearchInv, FollowedInv, last
        <5> QED
          BY <5>1, <5>2
      <4>2. p[i + 1] = hints[stack[i].entity][stack[i].next]
            /\ stack[i].next <= Len(hints[stack[i].entity])
        <5>1. CASE i = last
          BY <1>1, <1>3, <5>1
          DEF SearchInv, Inv, CallsInv, FollowedInv, NextHint, HasHint
        <5>2. CASE i # last
          <6>1. i \in 1..(last - 1) /\ i + 1 \in 1..last
            BY <1>1, <5>2
          <6> QED
            BY <1>3, <6>1 DEF SearchInv, Inv, CallsInv, FollowedInv, last
        <5> QED
          BY <5>1, <5>2
      <4>3. stack[i].next \in Nat /\ stack[i].next >= 1
        BY <1>1 DEF SearchInv, Inv, CallsInv, last
      <4>4. hints[stack[i].entity] \in Seq(Entities)
        BY <1>1 DEF FederationTypeOK
      <4>5. stack[i].next \in 1..Len(hints[stack[i].entity])
        BY <4>2, <4>3, <4>4, LenProperties
      <4> QED
        BY <1>3, <4>1, <4>2, <4>5
    <3>3. Len(p) >= 2 /\ Len(p) - 1 = last
      BY <1>1, <1>3
    <3> QED
      BY <1>1, <1>3, <1>6, <2>2, <3>1, <3>2, <3>3, FollowedIsPath
  <2> QED
    BY <2>1, <2>2
<1> QED
  BY <1>10, <1>11 DEF ended, p

LEMMA BeginCallKeepsSearch ==
  ASSUME SearchInv, Inv', hints' = hints, endpoints' = endpoints,
         changes' = 0 => UNCHANGED worldVars,
         step = "enter", target \notin visited, BeginCall(Configuration(target))
  PROVE  FollowedInv' /\ SearchedInv'
<1> DEFINE last == Len(stack)
           frame == [entity |-> target, next |-> 1]
           ended == Append(chain, Configuration(target))
<1>1. /\ stack \in Seq(Frames) /\ last \in Nat
      /\ chain \in Seq(Jwts) /\ target \in Entities
      /\ stack # << >> => last >= 1 /\ Len(chain) = last + 1 /\ chain # << >>
                          /\ Frame = stack[last]
      /\ stack = << >> => last = 0 /\ chain = << >> /\ target = Start
      /\ FederationTypeOK
  BY InnermostCall, EmptySeq DEF SearchInv, Inv, TypeOK, CallsInv
<1>2. frame \in Frames /\ frame.entity = target /\ frame.next = 1
  BY <1>1 DEF Frames
<1>3. stack' = Append(stack, frame) /\ step' = "superior"
  BY DEF BeginCall
<1>4. Configuration(target) \in Jwts
  BY <1>1 DEF Configuration, Jwts, FederationTypeOK
<1> HIDE DEF frame, last
<1>5. /\ stack' \in Seq(Frames) /\ Len(stack') = last + 1 /\ stack' # << >>
      /\ \A i \in 1..last : stack'[i] = stack[i]
      /\ stack'[last + 1].entity = target /\ stack'[last + 1].next = 1
  BY <1>1, <1>2, <1>3, AppendProperties DEF last
<1>6. CASE stack = << >>
  <2>1. /\ chain' = <<Configuration(target)>> /\ chains' = chains
        /\ last = 0 /\ Len(stack') = 1 /\ Len(chain') = 1 /\ chain'[1] = Configuration(Start)
    BY <1>1, <1>5, <1>6 DEF BeginCall
  <2>2. FollowedInv'
    BY <1>3, <1>5, <2>1 DEF FollowedInv
  <2>3. SearchedInv'
    <3> SUFFICES ASSUME changes' = 0 PROVE SearchedInv'
      BY DEF SearchedInv
    <3>1. UNCHANGED <<hints, endpoints, key, endorsed, changes>>
      BY DEF worldVars
    <3>2. Paths' = Paths /\ \A p : Found(p)' = Found(p)
      BY <2>1, <3>1 DEF Paths, Endorsing, Found
    <3>3. chain'[1] = Configuration(Start)'
      BY <2>1, <3>1 DEF Configuration
    <3>4. \A c \in chains : Path(c) \in Paths
      BY <3>1 DEF SearchInv, SearchedInv
    <3>5. stack'[1].next - 1 = 0 /\ \A p \in Paths : Len(p) # 1
      BY <1>1, <1>5, <2>1, PathsAreFollowed
    <3> QED
      BY <1>3, <2>1, <3>1, <3>2, <3>3, <3>4, <3>5 DEF SearchedInv
  <2> QED
    BY <2>2, <2>3
<1>7. CASE stack # << >>
  <2>1. /\ chain' = chain
        /\ IF Authenticates(ended) THEN chains' = chains \cup {ended} ELSE chains' = chains
    BY <1>1, <1>7 DEF BeginCall
  <2>2. last >= 1 /\ Len(chain) = last + 1 /\ chain # << >> /\ Frame = stack[last]
    BY <1>1, <1>7
  <2>3. FollowedInv'
    <3>1. ASSUME NEW n \in 1..last PROVE stack'[n].next <= Len(hints[stack'[n].entity])
      <4>1. CASE n = last
        BY <1>5, <1>7, <2>2, <4>1 DEF SearchInv, FollowedInv, HasHint
      <4>2. CASE n # last
        <5>1. n \in 1..(last - 1)
          BY <1>1, <4>2
        <5> QED
          BY <1>5, <5>1 DEF SearchInv, FollowedInv, last
      <4> QED
        BY <4>1, <4>2
    <3>2. ASSUME NEW n \in 2..(last + 1)
          PROVE  stack'[n].entity \in endpoints /\ chain[n].sub = stack'[n - 1].entity
      <4>1. CASE n = last + 1
        <5>1. target \in endpoints /\ chain[last + 1].sub = Frame.entity
          BY <1>7 DEF SearchInv, FollowedInv, last
        <5> QED
          BY <1>1, <1>5, <2>2, <4>1, <5>1
      <4>2. CASE n # last + 1
        <5>1. n \in 2..last /\ n \in 1..last /\ n - 1 \in 1..last
          BY <1>1, <4>2
        <5> QED
          BY <1>5, <5>1 DEF SearchInv, FollowedInv, last
      <4> QED
        BY <4>1, <4>2
    <3>3. Len(stack') - 1 = last
      BY <1>1, <1>5
    <3> QED
      BY <1>3, <1>5, <2>1, <3>1, <3>2, <3>3 DEF FollowedInv
  <2>4. SearchedInv'
    <3> SUFFICES ASSUME changes' = 0 PROVE SearchedInv'
      BY DEF SearchedInv
    <3>1. UNCHANGED <<hints, endpoints, key, endorsed, changes>> /\ changes = 0
      BY DEF worldVars
    <3>2. Paths' = Paths
      BY <3>1 DEF Paths, Endorsing
    <3>3. ASSUME NEW p, Found(p) PROVE Found(p)'
      BY <2>1, <3>3 DEF Found
    <3>4. Path(ended) = Append(EntitiesOf(stack), target)
      BY <1>4, <1>7, PathOfEnded DEF SearchInv
    <3>5. Authenticates(ended) <=> Path(ended) \in Paths
      BY <1>7, <3>1, <3>4, EndedAlongPath
    <3>6. ASSUME NEW c \in chains' PROVE Path(c) \in Paths
      <4>1. c \in chains \/ (c = ended /\ Authenticates(ended))
        BY <2>1
      <4> QED
        BY <3>1, <3>5, <4>1 DEF SearchInv, SearchedInv
    <3>7. chain'[1] = Configuration(Start)' /\ chain' # << >>
      BY <2>1, <2>2, <3>1 DEF SearchInv, SearchedInv, Configuration
    <3>8. \A i \in 2..Len(chain') : chain'[i] = Statement(chain[i].iss, chain[i].sub)'
      <4> TAKE i \in 2..Len(chain')
      <4>1. chain[i] = Statement(chain[i].iss, chain[i].sub)
        BY <2>1, <3>1 DEF SearchInv, SearchedInv
      <4> QED
        BY <2>1, <3>1, <4>1 DEF Statement
    <3>9. ASSUME NEW p \in Paths, NEW n \in 1..(last + 1), Along(p, n)'
          PROVE  /\ Len(p) > n =>
                      \A i \in 1..(stack'[n].next - 1) :
                        p[n + 1] = hints[stack'[n].entity][i] => Found(p)'
                 /\ Len(p) = n => Found(p)'
      <4>1. CASE n \in 1..last
        <5>1. Along(p, n) /\ stack'[n] = stack[n]
          BY <1>1, <1>5, <3>9, <4>1 DEF Along
        <5> QED
          BY <3>1, <3>3, <4>1, <5>1 DEF SearchInv, SearchedInv, last
      <4>2. CASE n = last + 1
        <5>1. stack'[n].next - 1 = 0
          BY <1>5, <4>2
        <5>2. ASSUME Len(p) = n PROVE Found(p)'
          <6>1. /\ p \in Seq(Entities)
                /\ \A i \in 1..(last + 1) : p[i] = stack'[i].entity
            BY <1>1, <3>9, <4>2, PathsAreFollowed DEF Along
          <6>2. /\ EntitiesOf(stack) \in Seq(Entities) /\ Len(EntitiesOf(stack)) = last
                /\ \A i \in 1..last : EntitiesOf(stack)[i] = stack[i].entity
            BY <1>1, EntitiesOfFrames DEF last
          <6> DEFINE q == Append(EntitiesOf(stack), target)
          <6>3. /\ q \in Seq(Entities) /\ Len(q) = last + 1
                /\ \A i \in 1..last : q[i] = EntitiesOf(stack)[i]
                /\ q[last + 1] = target
            BY <1>1, <6>2, AppendProperties
          <6> HIDE DEF q
          <6>4. ASSUME NEW i \in 1..(last + 1) PROVE p[i] = q[i]
            <7>1. i \in 1..last \/ i = last + 1
              BY <1>1
            <7> QED
              BY <1>5, <6>1, <6>2, <6>3, <7>1
          <6>5. p = q
            BY <1>1, <4>2, <5>2, <6>1, <6>3, <6>4, SeqEqual
          <6>6. Path(ended) = p
            BY <3>4, <6>5 DEF q
          <6>7. ended \in chains'
            BY <2>1, <3>5, <6>6
          <6> QED
            BY <6>6, <6>7 DEF Found
        <5> QED
          BY <5>1, <5>2
      <4> QED
        BY <1>1, <4>1, <4>2
    <3>10. \A c \in chains' : Path(c) \in Paths'
      BY <3>2, <3>6
    <3>11. \A p \in Paths' : \A n \in 1..Len(stack') :
             /\ Along(p, n)' /\ Len(p) > n =>
                  \A i \in 1..(stack'[n].next - 1) :
                    p[n + 1] = hints'[stack'[n].entity][i] => Found(p)'
             /\ Along(p, n)' /\ Len(p) = n => Found(p)'
      BY <1>5, <3>1, <3>2, <3>9
    <3>12. step' # "done" /\ step' # "statement"
      BY <1>3
    <3> HIDE DEF ended
    <3> QED
      BY <2>1, <3>7, <3>8, <3>10, <3>11, <3>12 DEF SearchedInv
  <2> QED
    BY <2>3, <2>4
<1> QED
  BY <1>6, <1>7

-----------------------------------------------------------------------------

\* While nothing goes wrong a step of the walk leaves the federation as it is.
LEMMA UndisturbedWorld ==
  ASSUME FederationTypeOK, [Next]_vars
  PROVE  /\ FederationTypeOK' /\ hints' = hints /\ endpoints' = endpoints
         /\ changes' = 0 => UNCHANGED worldVars
<1>1. FederationTypeOK' /\ hints' = hints
  BY WorldKept
<1> USE FederationAssumption DEF FederationTypeOK, worldVars
<1>2. CASE UNCHANGED worldVars
  BY <1>1, <1>2
<1>3. CASE Unanswered
  BY <1>1, <1>3 DEF Unanswered
<1>4. CASE WorldNext
  BY <1>1, <1>4 DEF WorldNext, ReplaceKey, Endorse
<1>5. CASE Walk
  BY <1>2, <1>3, <1>5 DEF Walk, EnterLoop, Enter, AskSuperior, AskStatement, Return
<1>6. CASE UNCHANGED vars
  BY <1>2, <1>6 DEF vars
<1> QED
  BY <1>4, <1>5, <1>6 DEF Next

\* The calls, the chain and what was found stay as they are.
LEMMA SearchUnchanged ==
  ASSUME SearchInv, hints' = hints, endpoints' = endpoints,
         changes' = 0 => UNCHANGED worldVars, UNCHANGED <<stack, chain, chains>>,
         step' # "done" \/ step' = step,
         step' = "statement" => superior'.sub \in endpoints /\ HasHint
                                /\ (changes' = 0 => superior'.lists = key[superior'.sub]),
         step' = "enter" => step = "enter" /\ target' = target
  PROVE  FollowedInv' /\ SearchedInv'
<1>1. Frame' = Frame /\ HasHint' = HasHint
  BY DEF Frame, HasHint
<1>2. FollowedInv'
  BY <1>1 DEF SearchInv, FollowedInv
<1>3. SearchedInv'
  <2> SUFFICES ASSUME changes' = 0 PROVE SearchedInv'
    BY DEF SearchedInv
  <2>1. UNCHANGED <<hints, endpoints, key, endorsed, changes>>
    BY DEF worldVars
  <2>2. Paths' = Paths /\ Configuration(Start)' = Configuration(Start)
    BY <2>1 DEF Paths, Endorsing, Configuration
  <2>3. \A i \in 2..Len(chain') : chain'[i] = Statement(chain[i].iss, chain[i].sub)'
    BY <2>1 DEF SearchInv, SearchedInv, Statement
  <2>4. \A p : Found(p)' = Found(p) /\ \A n : Along(p, n)' = Along(p, n)
    BY DEF Found, Along
  <2>5. \A p \in Paths' :
          /\ \A n \in 1..Len(stack') :
               /\ Along(p, n)' /\ Len(p) > n =>
                    \A i \in 1..(stack'[n].next - 1) :
                      p[n + 1] = hints'[stack'[n].entity][i] => Found(p)'
               /\ Along(p, n)' /\ Len(p) = n => Found(p)'
          /\ step' = "done" => Found(p)'
    BY <2>1, <2>2, <2>4 DEF SearchInv, SearchedInv
  <2>6. /\ \A c \in chains' : Path(c) \in Paths'
        /\ chain' # << >> => chain'[1] = Configuration(Start)'
    BY <2>1, <2>2 DEF SearchInv, SearchedInv
  <2>7. step' = "statement" => superior'.lists = key'[superior'.sub]
    BY <2>1
  <2> QED
    BY <2>3, <2>5, <2>6, <2>7 DEF SearchedInv
<1> QED
  BY <1>2, <1>3

LEMMA AskSuperiorKeepsSearch ==
  ASSUME SearchInv, FederationTypeOK', hints' = hints, endpoints' = endpoints,
         changes' = 0 => UNCHANGED worldVars, AskSuperior
  PROVE  FollowedInv' /\ SearchedInv'
<1>1. /\ step = "superior" /\ stack # << >> /\ HasHint /\ NextHint \in Entities
      /\ changes \in Nat
  <2>1. Inv /\ FederationTypeOK
    BY DEF SearchInv, Inv, TypeOK
  <2>2. step = "superior" /\ HasHint /\ stack # << >>
    BY <2>1 DEF AskSuperior, Inv, CallsInv
  <2>3. NextHint \in Entities
    BY <2>1, <2>2, InnermostCall
  <2>4. changes \in Nat
    BY <2>1, FederationAssumption DEF FederationTypeOK
  <2> QED
    BY <2>2, <2>3, <2>4
<1>2. CASE Unanswered /\ SkipHint
  <2>1. changes' # 0
    BY <1>1, <1>2 DEF Unanswered
  <2> QED
    BY <1>1, <1>2, <2>1, SkipKeepsSearch
<1>3. CASE NextHint \notin endpoints /\ SkipHint
  BY <1>1, <1>3, SkipKeepsSearch
<1>4. CASE /\ NextHint \in endpoints
           /\ superior' = Configuration(NextHint)
           /\ step' = "statement"
           /\ UNCHANGED <<worldVars, target, stack, visited, chain, chains, failures, result>>
  <2>1. superior'.sub = NextHint /\ superior'.lists = key[NextHint]
    BY <1>4 DEF Configuration
  <2> QED
    BY <1>1, <1>4, <2>1, SearchUnchanged
<1> QED
  BY <1>2, <1>3, <1>4 DEF AskSuperior

LEMMA AskStatementKeepsSearch ==
  ASSUME SearchInv, FederationTypeOK', hints' = hints, endpoints' = endpoints,
         changes' = 0 => UNCHANGED worldVars, AskStatement
  PROVE  FollowedInv' /\ SearchedInv'
<1> DEFINE last == Len(stack)
<1>1. /\ step = "statement" /\ stack # << >>
      /\ superior.sub = NextHint /\ HasHint /\ NextHint \in Entities
      /\ superior.sub \in endpoints
      /\ stack \in Seq(Frames) /\ last \in Nat /\ last \in 1..last /\ last >= 1
      /\ Frame = stack[last] /\ Frame.entity \in Entities
      /\ chain \in Seq(Jwts) /\ Len(chain) = last /\ chain # << >>
      /\ changes \in Nat
  <2>1. /\ step = "statement" /\ stack # << >> /\ superior.sub = NextHint /\ HasHint
        /\ superior.sub \in endpoints /\ Len(chain) = last /\ changes \in Nat
    BY DEF AskStatement, SearchInv, Inv, CallsInv, TypeOK, FollowedInv, FederationTypeOK
  <2> QED
    BY <2>1, InnermostCall DEF SearchInv
<1>2. CASE Unanswered /\ SkipHint
  <2>1. changes' # 0
    BY <1>1, <1>2 DEF Unanswered
  <2> QED
    BY <1>1, <1>2, <2>1, SkipKeepsSearch
<1>3. CASE ~StatementVerifies(superior, Frame.entity) /\ SkipHint
  <2>1. ASSUME changes' = 0 PROVE endorsed[NextHint][Frame.entity] # key[Frame.entity]
    <3>1. superior.lists = key[superior.sub]
      BY <1>1, <2>1 DEF SearchInv, SearchedInv, worldVars
    <3>2. endorsed[NextHint][Frame.entity] = NoKey
      BY <1>1, <1>3, <3>1 DEF StatementVerifies, Statement
    <3>3. key[Frame.entity] \in Nat
      BY <1>1 DEF SearchInv, Inv, TypeOK, FederationTypeOK
    <3> QED
      BY <3>2, <3>3, FederationAssumption
  <2> QED
    BY <1>1, <1>3, <2>1, SkipKeepsSearch
<1>4. CASE /\ StatementVerifies(superior, Frame.entity)
           /\ chain' = Append(chain, Statement(superior.sub, Frame.entity))
           /\ target' = superior.sub
           /\ step' = "enter"
           /\ UNCHANGED <<worldVars, stack, superior, visited, chains, failures, result>>
  <2> DEFINE statement == Statement(superior.sub, Frame.entity)
  <2>1. /\ Len(chain') = last + 1 /\ chain' # << >>
        /\ \A i \in 1..last : chain'[i] = chain[i]
        /\ chain'[last + 1] = statement
    <3>1. statement \in {statement} \cup Jwts /\ chain \in Seq({statement} \cup Jwts)
      <4>1. \A i \in 1..Len(chain) : chain[i] \in {statement} \cup Jwts
        BY <1>1, ElementOfSeq
      <4> HIDE DEF statement
      <4> QED
        BY <1>1, <4>1, SeqDef, LenProperties
    <3>2. chain' = Append(chain, statement)
      BY <1>4
    <3> HIDE DEF statement
    <3> QED
      BY <1>1, <3>1, <3>2, AppendProperties
  <2>2. statement.iss = superior.sub /\ statement.sub = Frame.entity
    BY DEF Statement
  <2>3. UNCHANGED <<hints, endpoints, key, endorsed, changes>>
    BY <1>4 DEF worldVars
  <2>4. Frame' = Frame /\ HasHint' = HasHint
    BY <1>4, <2>3 DEF Frame, HasHint
  <2>5. FollowedInv'
    <3>1. ASSUME NEW n \in 2..last PROVE chain'[n].sub = stack[n - 1].entity
      <4>1. n \in 1..last
        BY <1>1
      <4> QED
        BY <2>1, <4>1 DEF SearchInv, FollowedInv
    <3> HIDE DEF statement
    <3> QED
      BY <1>1, <1>4, <2>1, <2>2, <2>3, <2>4, <3>1 DEF SearchInv, FollowedInv
  <2>6. SearchedInv'
    <3> SUFFICES ASSUME changes' = 0 PROVE SearchedInv'
      BY DEF SearchedInv
    <3>1. Paths' = Paths /\ Configuration(Start)' = Configuration(Start)
      BY <2>3 DEF Paths, Endorsing, Configuration
    <3>2. chain'[1] = Configuration(Start)
      BY <1>1, <2>1, <2>3 DEF SearchInv, SearchedInv
    <3>3. ASSUME NEW i \in 2..Len(chain')
          PROVE  chain'[i] = Statement(chain[i].iss, chain[i].sub)'
      <4>1. chain'[i] = Statement(chain'[i].iss, chain'[i].sub)
        <5>1. CASE i = last + 1
          BY <2>1, <2>2, <5>1
        <5>2. CASE i # last + 1
          <6>1. i \in 2..Len(chain) /\ i \in 1..last
            BY <1>1, <2>1, <5>2
          <6> QED
            BY <2>1, <2>3, <6>1 DEF SearchInv, SearchedInv
        <5> QED
          BY <5>1, <5>2
      <4> QED
        BY <2>3, <4>1 DEF Statement
    <3>4. \A c \in chains' : Path(c) \in Paths'
      BY <1>4, <2>3, <3>1 DEF SearchInv, SearchedInv
    <3>5. \A p \in Paths' : \A n \in 1..Len(stack') :
            /\ Along(p, n)' /\ Len(p) > n =>
                 \A i \in 1..(stack'[n].next - 1) :
                   p[n + 1] = hints'[stack'[n].entity][i] => Found(p)'
            /\ Along(p, n)' /\ Len(p) = n => Found(p)'
      BY <1>4, <2>3, <3>1 DEF SearchInv, SearchedInv, Found, Along
    <3>6. step' = "enter"
      BY <1>4
    <3> HIDE DEF statement
    <3> QED
      BY <3>1, <3>2, <3>3, <3>4, <3>5, <3>6 DEF SearchedInv
  <2> QED
    BY <2>5, <2>6
<1> QED
  BY <1>2, <1>3, <1>4 DEF AskStatement

LEMMA SearchInvInit == Init => SearchInv
<1> SUFFICES ASSUME Init PROVE SearchInv
  OBVIOUS
<1>1. Inv
  BY InvInit
<1>2. /\ stack = << >> /\ Len(stack) = 0 /\ chain = << >> /\ Len(chain) = 0
      /\ step = "enter" /\ chains = {}
  BY DEF Init
<1> QED
  BY <1>1, <1>2 DEF SearchInv, FollowedInv, SearchedInv

LEMMA SearchInvNext == SearchInv /\ [Next]_vars => SearchInv'
<1> SUFFICES ASSUME SearchInv, [Next]_vars PROVE SearchInv'
  OBVIOUS
<1>1. Inv'
  BY InvNext DEF SearchInv
<1>2. /\ FederationTypeOK' /\ hints' = hints /\ endpoints' = endpoints
      /\ changes' = 0 => UNCHANGED worldVars
  BY UndisturbedWorld DEF SearchInv, Inv, TypeOK
<1> SUFFICES FollowedInv' /\ SearchedInv'
  BY <1>1 DEF SearchInv
<1>3. CASE EnterLoop
  BY <1>2, <1>3, CallFailsKeepsSearch DEF EnterLoop
<1>4. CASE Enter
  <2>1. CASE Unanswered /\ CallFails
    <3>1. changes' # 0
      BY <2>1 DEF Unanswered, SearchInv, Inv, TypeOK, FederationTypeOK
    <3> QED
      BY <1>2, <1>4, <2>1, <3>1, CallFailsKeepsSearch DEF Enter
  <2>2. CASE BeginCall(Configuration(target))
    BY <1>1, <1>2, <1>4, <2>2, BeginCallKeepsSearch DEF Enter
  <2> QED
    BY <1>4, <2>1, <2>2 DEF Enter
<1>5. CASE AskSuperior
  BY <1>2, <1>5, AskSuperiorKeepsSearch
<1>6. CASE AskStatement
  BY <1>2, <1>6, AskStatementKeepsSearch
<1>7. CASE Return
  BY <1>2, <1>7, ReturnKeepsSearch
<1>8. CASE UNCHANGED walkVars
  <2>1. step = "statement" /\ changes' = 0 => superior.lists = key[superior.sub]
    BY <1>2 DEF SearchInv, SearchedInv, worldVars
  <2>2. step = "statement" => superior.sub \in endpoints /\ HasHint
    BY DEF SearchInv, Inv, CallsInv, FollowedInv
  <2> QED
    BY <1>2, <1>8, <2>1, <2>2, SearchUnchanged DEF walkVars
<1> QED
  BY <1>3, <1>4, <1>5, <1>6, <1>7, <1>8 DEF Next, Walk, vars

LEMMA SearchInvCorrect == Spec => []SearchInv
  BY SearchInvInit, SearchInvNext, PTL DEF Spec

\* A walk during which nothing goes wrong reports exactly the chains along the
\* simple paths over Superiors that can be asked and list the keys in use, for
\* any federation, with branches that meet and with loops.
THEOREM EveryPathIsFound == Spec => []ChainsAreComplete
<1>1. SearchInv => ChainsAreComplete
  BY DEF SearchInv, SearchedInv, ChainsAreComplete, Undisturbed, Found
<1> QED
  BY <1>1, SearchInvCorrect, PTL

-----------------------------------------------------------------------------
(* The walk towards an anchor.                                             *)

AnchoredFrames == [entity : Entities, next : Nat, base : Nat]

\* The calls follow the hints from the start entity, over entities that were
\* visited, and the chain holds a statement for each of them.
AnchoredCallsInv ==
  /\ result = "none" <=> step # "done"
  /\ result = "failed" => stack = << >>
  /\ step = "start" => stack = << >> /\ visited = {} /\ chain = << >>
  /\ step \in {"superior", "statement"} => stack # << >>
  /\ step \in {"start", "enter"} /\ stack = << >> =>
       target = Start /\ visited = {} /\ chain = << >>
  /\ stack # << >> => stack[1].entity = Start
  /\ \A n \in 1..Len(stack) : stack[n].next >= 1 /\ stack[n].entity \in visited
  /\ \A n \in 1..(Len(stack) - 1) :
       /\ stack[n + 1].entity = hints[stack[n].entity][stack[n].next]
       /\ stack[n].base = n
  /\ step = "enter" /\ stack # << >> =>
       /\ target = NextHint
       /\ Frame.base = Len(stack)

AnchoredChainInv ==
  step # "done" =>
    /\ Len(chain) >= Len(stack)
    /\ stack # << >> => chain[1].sub = Start
    /\ \A i \in 2..Len(stack) :
         chain[i].iss = stack[i].entity /\ chain[i].sub = stack[i - 1].entity
    /\ step \in {"superior", "statement"} => Len(chain) = Len(stack)
    /\ step = "enter" /\ stack # << >> =>
         /\ Len(chain) = Len(stack) + 1
         /\ chain[Len(chain)].iss = target
         /\ chain[Len(chain)].sub = Frame.entity

\* What was put together leads from the start entity to an anchor.
FoundInv ==
  /\ step = "found" \/ result = "chain" =>
       /\ chain # << >>
       /\ chain[1].sub = Start
       /\ Last(chain).sub \in anchors
  /\ result = "chain" => Authenticates(chain)

\* A Superior that can be fetched, at a place of an entity's hints that no
\* Superior without a fetch endpoint hides.
InOrder(e, i) ==
  /\ endorsed[hints[e][i]][e] # NoKey
  /\ \A k \in 1..i : hints[e][k] \in endpoints

\* While nothing goes wrong and no anchor was met, the entities that were
\* visited are closed under such Superiors but for those of the calls that
\* are not over, which were visited up to the hint each call is at.
VisitedInv ==
  /\ changes = 0 /\ step = "statement" => superior.lists = key[superior.sub]
  /\ changes = 0 /\ anchors # NoAnchors
     /\ (step \in {"enter", "superior", "statement"} \/ result = "failed") =>
       /\ stack # << >> \/ step = "done" => Start \in visited
       /\ visited \cap anchors = {}
       /\ \A n \in 1..Len(stack) : \A i \in 1..(stack[n].next - 1) :
            InOrder(stack[n].entity, i) => hints[stack[n].entity][i] \in visited
       /\ \A e \in visited :
            \/ \E n \in 1..Len(stack) : stack[n].entity = e
            \/ FetchableInOrder[e] \subseteq visited

AnchoredInv ==
  AnchoredTypeOK /\ AnchoredCallsInv /\ AnchoredChainInv /\ FoundInv /\ VisitedInv

LEMMA AnchoredInvInit == AnchoredInit => AnchoredInv
<1> SUFFICES ASSUME AnchoredInit PROVE AnchoredInv
  OBVIOUS
<1>1. FederationTypeOK
  BY FederationAssumption DEF AnchoredInit, FederationInit, FederationTypeOK
<1>2. superior \in Jwts
  BY StartAssumption, <1>1 DEF AnchoredInit, FederationTypeOK, Configuration, Jwts
<1>3. stack \in Seq(AnchoredFrames) /\ chain \in Seq(Jwts) /\ Len(stack) = 0 /\ Len(chain) = 0
  BY EmptySeq DEF AnchoredInit
<1>4. AnchoredTypeOK
  BY <1>1, <1>2, <1>3, StartAssumption, AnchoredAssumption
  DEF AnchoredInit, AnchoredTypeOK, AnchoredFrames
<1> QED
  BY <1>3, <1>4
  DEF AnchoredInit, AnchoredInv, AnchoredCallsInv, AnchoredChainInv, FoundInv, VisitedInv

\* A step keeps the federation's types, and while nothing goes wrong it keeps
\* the federation.
LEMMA AnchoredWorldKept ==
  ASSUME FederationTypeOK, [AnchoredNext]_anchoredVars
  PROVE  /\ FederationTypeOK' /\ hints' = hints /\ endpoints' = endpoints
         /\ changes' = 0 => UNCHANGED worldVars
<1> USE FederationAssumption DEF FederationTypeOK, worldVars
<1>1. CASE UNCHANGED worldVars
  BY <1>1
<1>2. CASE Unanswered
  BY <1>2 DEF Unanswered
<1>3. ASSUME NEW e \in Entities, ReplaceKey(e)
      PROVE  /\ FederationTypeOK' /\ hints' = hints /\ endpoints' = endpoints
             /\ changes' = 0 => UNCHANGED worldVars
  BY <1>3 DEF ReplaceKey
<1>4. ASSUME NEW s \in Entities, NEW e \in Entities, Endorse(s, e)
      PROVE  /\ FederationTypeOK' /\ hints' = hints /\ endpoints' = endpoints
             /\ changes' = 0 => UNCHANGED worldVars
  <2>1. endorsed' \in Endorsements
    BY <1>4 DEF Endorse, Endorsements
  <2> QED
    BY <1>4, <2>1 DEF Endorse
<1>5. CASE AnchoredWalk
  BY <1>1, <1>2, <1>5
  DEF AnchoredWalk, Begin, AnchoredEnter, AnchoredEnterLoop, AnchoredAskSuperior,
      AnchoredAskStatement, NoHintLeft, Authenticate
<1>6. CASE UNCHANGED anchoredVars
  BY <1>1, <1>6 DEF anchoredVars
<1> QED
  BY <1>3, <1>4, <1>5, <1>6 DEF AnchoredNext, WorldNext

\* What the invariant says of the innermost call.
LEMMA AnchoredInnermostCall ==
  ASSUME AnchoredInv
  PROVE  /\ stack \in Seq(AnchoredFrames) /\ Len(stack) \in Nat
         /\ chain \in Seq(Jwts) /\ Len(chain) \in Nat
         /\ \A i \in 1..Len(stack) :
              stack[i].entity \in Entities /\ stack[i].next \in Nat /\ stack[i].base \in Nat
         /\ stack # << >> =>
              /\ Len(stack) \in 1..Len(stack) /\ Len(stack) >= 1
              /\ Frame = stack[Len(stack)]
              /\ hints[Frame.entity] \in Seq(Entities)
              /\ Frame.next >= 1
              /\ HasHint => NextHint \in Entities
<1> USE DEF AnchoredInv, AnchoredTypeOK
<1>1. stack \in Seq(AnchoredFrames)
  BY DEF AnchoredFrames
<1>2. ASSUME NEW i \in 1..Len(stack)
      PROVE  stack[i].entity \in Entities /\ stack[i].next \in Nat /\ stack[i].base \in Nat
  <2>1. stack[i] \in AnchoredFrames
    BY <1>1, ElementOfSeq
  <2> QED
    BY <2>1 DEF AnchoredFrames
<1>3. ASSUME stack # << >>
      PROVE  /\ Len(stack) \in 1..Len(stack) /\ Len(stack) >= 1
             /\ Frame = stack[Len(stack)]
             /\ hints[Frame.entity] \in Seq(Entities)
             /\ Frame.next >= 1
             /\ HasHint => NextHint \in Entities
  <2>1. Len(stack) \in 1..Len(stack) /\ Len(stack) >= 1 /\ Frame = stack[Len(stack)]
    BY <1>1, <1>3, EmptySeq DEF Frame, Last
  <2>2. hints[Frame.entity] \in Seq(Entities)
    BY <1>2, <2>1 DEF FederationTypeOK
  <2>3. Frame.next >= 1 /\ (HasHint => Frame.next \in 1..Len(hints[Frame.entity]))
    BY <1>2, <2>1, <2>2 DEF HasHint, AnchoredCallsInv
  <2> QED
    BY <2>1, <2>2, <2>3, ElementOfSeq DEF NextHint
<1> QED
  BY <1>1, <1>2, <1>3, LenProperties

LEMMA AdvancedAnchoredFrames ==
  ASSUME NEW s \in Seq(AnchoredFrames), s # << >>
  PROVE  /\ Advanced(s) \in Seq(AnchoredFrames)
         /\ Len(Advanced(s)) = Len(s)
         /\ \A i \in 1..(Len(s) - 1) : Advanced(s)[i] = s[i]
         /\ Advanced(s)[Len(s)].entity = s[Len(s)].entity
         /\ Advanced(s)[Len(s)].next = s[Len(s)].next + 1
         /\ Advanced(s)[Len(s)].base = s[Len(s)].base
<1>1. Len(s) \in 1..Len(s) /\ Len(s) \in Nat
  BY EmptySeq
<1>2. s[Len(s)] \in AnchoredFrames
  BY <1>1, ElementOfSeq
<1> DEFINE f == [s[Len(s)] EXCEPT !.next = @ + 1]
<1>3. /\ f \in AnchoredFrames /\ f.entity = s[Len(s)].entity
      /\ f.next = s[Len(s)].next + 1 /\ f.base = s[Len(s)].base
  <2>1. PICK g \in AnchoredFrames : g = s[Len(s)]
    BY <1>2
  <2>2. f = [g EXCEPT !.next = g.next + 1]
    BY <2>1
  <2>3. f \in AnchoredFrames /\ f.entity = g.entity /\ f.next = g.next + 1 /\ f.base = g.base
    BY <2>2 DEF AnchoredFrames
  <2> QED
    BY <2>1, <2>3
<1>4. Advanced(s) = [s EXCEPT ![Len(s)] = f]
  BY DEF Advanced
<1> HIDE DEF f
<1> QED
  BY <1>1, <1>3, <1>4, ExceptSeq

\* What the walk is to have visited when the calls up to the m-th go on or when,
\* with m = 0, it fails.
VisitedBy(m) ==
  changes' = 0 /\ anchors # NoAnchors =>
    /\ visited' \cap anchors = {}
    /\ m > 0 /\ InOrder(stack[m].entity, stack[m].next) =>
         hints[stack[m].entity][stack[m].next] \in visited'
    /\ \A e \in visited' :
         \/ \E n \in 1..m : stack[n].entity = e
         \/ FetchableInOrder[e] \subseteq visited'

\* The calls up to the m-th are left, and that one goes on to its next hint.
LEMMA CallsGoOn ==
  ASSUME AnchoredInv, FederationTypeOK', hints' = hints, endpoints' = endpoints,
         changes' = 0 => UNCHANGED worldVars,
         step \in {"enter", "superior", "statement"}, step' = "superior",
         NEW m \in 1..Len(stack),
         stack' \in Seq(AnchoredFrames), Len(stack') = m,
         \A i \in 1..(m - 1) : stack'[i] = stack[i],
         stack'[m].entity = stack[m].entity,
         stack'[m].next = stack[m].next + 1,
         stack'[m].base = stack[m].base,
         chain' \in Seq(Jwts), Len(chain') = m, \A i \in 1..m : chain'[i] = chain[i],
         visited \subseteq visited', visited' \subseteq Entities,
         VisitedBy(m),
         UNCHANGED <<anchors, target, superior, result>>
  PROVE  AnchoredInv'
<1>1. /\ Len(stack) \in Nat /\ m \in Nat /\ 1 <= m /\ m <= Len(stack)
      /\ stack # << >> /\ stack' # << >>
      /\ \A i \in 1..Len(stack) : stack[i].entity \in Entities /\ stack[i].next \in Nat
      /\ stack'[m].next \in Nat
  BY AnchoredInnermostCall, EmptySeq
<1>2. \A i \in 1..m : stack'[i].entity = stack[i].entity /\ stack'[i].base = stack[i].base
  <2> TAKE i \in 1..m
  <2>1. i = m \/ i \in 1..(m - 1)
    BY <1>1
  <2> QED
    BY <2>1
<1>3. result = "none" /\ result' = "none"
  BY DEF AnchoredInv, AnchoredCallsInv
<1>4. AnchoredTypeOK'
  BY <1>1 DEF AnchoredInv, AnchoredTypeOK, AnchoredFrames
<1>5. AnchoredCallsInv'
  <2>1. \A n \in 1..m : stack'[n].next >= 1 /\ stack'[n].entity \in visited'
    <3> TAKE n \in 1..m
    <3>1. n = m \/ n \in 1..(m - 1)
      BY <1>1
    <3>2. stack[n].next >= 1 /\ stack[n].entity \in visited
      BY <1>1 DEF AnchoredInv, AnchoredCallsInv
    <3> QED
      BY <1>1, <1>2, <3>1, <3>2
  <2>2. \A n \in 1..(m - 1) :
          /\ stack'[n + 1].entity = hints[stack'[n].entity][stack'[n].next]
          /\ stack'[n].base = n
    <3> TAKE n \in 1..(m - 1)
    <3>1. n \in 1..(Len(stack) - 1) /\ n \in 1..m /\ n + 1 \in 1..m /\ stack'[n] = stack[n]
      BY <1>1
    <3> QED
      BY <1>2, <3>1 DEF AnchoredInv, AnchoredCallsInv
  <2>3. stack'[1].entity = Start
    BY <1>1, <1>2 DEF AnchoredInv, AnchoredCallsInv
  <2> QED
    BY <1>1, <1>3, <2>1, <2>2, <2>3 DEF AnchoredCallsInv
<1>6. AnchoredChainInv'
  <2>1. chain'[1].sub = Start
    BY <1>1 DEF AnchoredInv, AnchoredChainInv
  <2>2. \A i \in 2..m :
          chain'[i].iss = stack'[i].entity /\ chain'[i].sub = stack'[i - 1].entity
    <3> TAKE i \in 2..m
    <3>1. i \in 2..Len(stack) /\ i \in 1..m /\ i - 1 \in 1..m
      BY <1>1
    <3> QED
      BY <1>2, <3>1 DEF AnchoredInv, AnchoredChainInv
  <2> QED
    BY <1>1, <2>1, <2>2 DEF AnchoredChainInv
<1>7. FoundInv'
  BY <1>3 DEF FoundInv
<1>8. VisitedInv'
  <2> SUFFICES ASSUME changes' = 0, anchors # NoAnchors
               PROVE  /\ Start \in visited'
                      /\ visited' \cap anchors = {}
                      /\ \A n \in 1..m : \A i \in 1..(stack'[n].next - 1) :
                           InOrder(stack[n].entity, i)' =>
                             hints[stack'[n].entity][i] \in visited'
                      /\ \A e \in visited' :
                           \/ \E n \in 1..m : stack'[n].entity = e
                           \/ FetchableInOrder'[e] \subseteq visited'
    BY <1>3 DEF VisitedInv
  <2>1. UNCHANGED worldVars /\ changes = 0
    BY DEF worldVars
  <2>2. FetchableInOrder' = FetchableInOrder
    BY <2>1 DEF FetchableInOrder, worldVars
  <2>3. Start \in visited'
    BY <1>1 DEF AnchoredInv, AnchoredCallsInv
  <2>4. ASSUME NEW n \in 1..m, NEW i \in 1..(stack'[n].next - 1),
               InOrder(stack[n].entity, i)'
        PROVE  hints[stack'[n].entity][i] \in visited'
    <3>1. InOrder(stack[n].entity, i)
      BY <1>2, <2>1, <2>4 DEF InOrder, worldVars
    <3>2. CASE n = m /\ i = stack[m].next
      BY <1>1, <1>2, <3>1, <3>2 DEF VisitedBy
    <3>3. CASE ~(n = m /\ i = stack[m].next)
      <4>1. n \in 1..Len(stack) /\ i \in 1..(stack[n].next - 1)
        <5>1. n = m \/ n \in 1..(m - 1)
          BY <1>1
        <5> QED
          BY <1>1, <3>3, <5>1
      <4>2. hints[stack[n].entity][i] \in visited
        BY <2>1, <3>1, <4>1 DEF AnchoredInv, VisitedInv
      <4> QED
        BY <1>2, <4>2
    <3> QED
      BY <3>2, <3>3
  <2>5. \A e \in visited' :
          \/ \E n \in 1..m : stack'[n].entity = e
          \/ FetchableInOrder[e] \subseteq visited'
    BY <1>2 DEF VisitedBy
  <2> QED
    BY <2>2, <2>3, <2>4, <2>5 DEF VisitedBy
<1> QED
  BY <1>4, <1>5, <1>6, <1>7, <1>8 DEF AnchoredInv

\* The walk is over without a chain.
LEMMA WalkFails ==
  ASSUME AnchoredInv, FederationTypeOK', hints' = hints, endpoints' = endpoints,
         changes' = 0 => UNCHANGED worldVars,
         step' = "done", result' = "failed", stack' = << >>, chain' = chain,
         visited' \subseteq Entities, Start \in visited', VisitedBy(0),
         UNCHANGED <<anchors, target, superior>>
  PROVE  AnchoredInv'
<1>1. Len(stack') = 0 /\ stack' \in Seq(AnchoredFrames)
  BY EmptySeq
<1>2. AnchoredTypeOK'
  BY <1>1 DEF AnchoredInv, AnchoredTypeOK, AnchoredFrames
<1>3. AnchoredCallsInv' /\ AnchoredChainInv' /\ FoundInv'
  BY <1>1 DEF AnchoredCallsInv, AnchoredChainInv, FoundInv
<1>4. VisitedInv'
  <2> SUFFICES ASSUME changes' = 0, anchors # NoAnchors
               PROVE  /\ visited' \cap anchors = {}
                      /\ \A e \in visited' : FetchableInOrder'[e] \subseteq visited'
    BY <1>1 DEF VisitedInv
  <2>1. FetchableInOrder' = FetchableInOrder
    BY DEF FetchableInOrder, worldVars
  <2> QED
    BY <2>1 DEF VisitedBy
<1> QED
  BY <1>2, <1>3, <1>4 DEF AnchoredInv

\* A hint that cannot be followed is passed over.
LEMMA AnchoredSkipKeepsInv ==
  ASSUME AnchoredInv, FederationTypeOK', hints' = hints, endpoints' = endpoints,
         changes' = 0 => UNCHANGED worldVars,
         step \in {"superior", "statement"}, AnchoredSkipHint,
         changes' = 0 => ~InOrder(Frame.entity, Frame.next)
  PROVE  AnchoredInv'
<1>1. PICK m \in Nat : m = Len(stack)
  BY AnchoredInnermostCall
<1>2. stack # << >> /\ step # "done" /\ Len(chain) = m
  BY <1>1 DEF AnchoredInv, AnchoredCallsInv, AnchoredChainInv
<1>3. m \in 1..Len(stack) /\ Frame = stack[m] /\ chain \in Seq(Jwts)
  BY <1>1, <1>2, AnchoredInnermostCall
<1>4. /\ stack' \in Seq(AnchoredFrames) /\ Len(stack') = m
      /\ \A i \in 1..(m - 1) : stack'[i] = stack[i]
      /\ stack'[m].entity = stack[m].entity
      /\ stack'[m].next = stack[m].next + 1
      /\ stack'[m].base = stack[m].base
  BY <1>1, <1>2, AnchoredInnermostCall, AdvancedAnchoredFrames DEF AnchoredSkipHint
<1>5. visited' = visited /\ visited \subseteq Entities
  BY DEF AnchoredSkipHint, AnchoredInv, AnchoredTypeOK
<1>6. VisitedBy(m)
  <2> SUFFICES ASSUME changes' = 0, anchors # NoAnchors
               PROVE  /\ visited \cap anchors = {}
                      /\ \A e \in visited :
                           \/ \E n \in 1..m : stack[n].entity = e
                           \/ FetchableInOrder[e] \subseteq visited
    BY <1>3, <1>5 DEF VisitedBy
  <2>1. changes = 0
    BY DEF worldVars
  <2> QED
    BY <1>1, <2>1 DEF AnchoredInv, VisitedInv
<1> QED
  BY <1>2, <1>3, <1>4, <1>5, <1>6, CallsGoOn DEF AnchoredSkipHint

\* The call that begins returns an error; its entity was visited by then.
LEMMA BeginningCallFailsKeepsInv ==
  ASSUME AnchoredInv, FederationTypeOK', hints' = hints, endpoints' = endpoints,
         changes' = 0 => UNCHANGED worldVars,
         step = "enter", Fails(stack), visited' = visited \cup {target},
         changes' = 0 /\ target \notin visited =>
           target \notin anchors /\ hints[target] = << >>,
         stack = << >> => target \notin visited,
         UNCHANGED <<anchors, target, superior>>
  PROVE  AnchoredInv'
<1>1. PICK m \in Nat : m = Len(stack)
  BY AnchoredInnermostCall
<1>2. visited \subseteq visited' /\ visited' \subseteq Entities /\ target \in Entities
  BY DEF AnchoredInv, AnchoredTypeOK
<1>3. VisitedBy(m)
  <2> SUFFICES ASSUME changes' = 0, anchors # NoAnchors
               PROVE  /\ visited' \cap anchors = {}
                      /\ m > 0 => hints[stack[m].entity][stack[m].next] \in visited'
                      /\ \A e \in visited' :
                           \/ \E n \in 1..m : stack[n].entity = e
                           \/ FetchableInOrder[e] \subseteq visited'
    BY DEF VisitedBy
  <2>1. /\ changes = 0
        /\ visited \cap anchors = {}
        /\ \A e \in visited :
             \/ \E n \in 1..m : stack[n].entity = e
             \/ FetchableInOrder[e] \subseteq visited
    BY <1>1 DEF AnchoredInv, VisitedInv, worldVars
  <2>2. visited' \cap anchors = {}
    BY <2>1
  <2>3. m > 0 => hints[stack[m].entity][stack[m].next] \in visited'
    BY <1>1, EmptySeq, AnchoredInnermostCall DEF AnchoredInv, AnchoredCallsInv, NextHint
  <2>4. target \notin visited => FetchableInOrder[target] = {}
    <3>1. ASSUME target \notin visited PROVE DOMAIN hints[target] = {}
      <4>1. hints[target] = << >> /\ Len(<< >>) = 0
        BY <2>1, <3>1
      <4>2. hints[target] \in Seq(Entities) /\ Len(hints[target]) = 0
        BY <1>2, <4>1 DEF AnchoredInv, AnchoredTypeOK, FederationTypeOK
      <4> QED
        BY <4>2, LenProperties
    <3> QED
      BY <1>2, <3>1 DEF FetchableInOrder
  <2> QED
    BY <1>2, <2>1, <2>2, <2>3, <2>4
<1>4. CASE stack = << >>
  <2>1. m = 0
    BY <1>1, <1>4
  <2>2. Start \in visited'
    BY <1>4 DEF AnchoredInv, AnchoredCallsInv
  <2> QED
    BY <1>2, <1>3, <1>4, <2>1, <2>2, WalkFails DEF Fails
<1>5. CASE stack # << >>
  <2>1. m \in 1..Len(stack) /\ Frame = stack[m] /\ chain \in Seq(Jwts) /\ Len(chain) \in Nat
    BY <1>1, <1>5, AnchoredInnermostCall
  <2>2. /\ step' = "superior" /\ result' = result
        /\ stack' = Advanced(stack) /\ chain' = SubSeq(chain, 1, Frame.base)
    BY <1>5 DEF Fails, Frame
  <2>3. /\ stack' \in Seq(AnchoredFrames) /\ Len(stack') = m
        /\ \A i \in 1..(m - 1) : stack'[i] = stack[i]
        /\ stack'[m].entity = stack[m].entity
        /\ stack'[m].next = stack[m].next + 1
        /\ stack'[m].base = stack[m].base
    BY <1>1, <1>5, <2>2, AnchoredInnermostCall, AdvancedAnchoredFrames
  <2>4. Frame.base = m /\ Len(chain) = m + 1
    BY <1>1, <1>5 DEF AnchoredInv, AnchoredCallsInv, AnchoredChainInv
  <2>5. /\ chain' \in Seq(Jwts) /\ Len(chain') = m
        /\ \A i \in 1..m : chain'[i] = chain[i]
    <3>1. \A i \in 1..m : chain[i] \in Jwts
      BY <2>1, <2>4, ElementOfSeq
    <3> QED
      BY <2>1, <2>2, <2>4, <3>1, SubSeqProperties
  <2> QED
    BY <1>2, <1>3, <2>1, <2>2, <2>3, <2>5, CallsGoOn
<1> QED
  BY <1>4, <1>5

\* The innermost call returns an error when the Superiors that are left cannot
\* be fetched.
LEMMA InnermostCallFailsKeepsInv ==
  ASSUME AnchoredInv, FederationTypeOK', hints' = hints, endpoints' = endpoints,
         changes' = 0 => UNCHANGED worldVars,
         step = "superior", Fails(Front(stack)),
         \A i \in 1..Len(hints[Frame.entity]) : i >= Frame.next => ~InOrder(Frame.entity, i),
         UNCHANGED <<anchors, target, superior, visited>>
  PROVE  AnchoredInv'
<1> DEFINE last == Len(stack)
<1>1. /\ stack # << >> /\ stack \in Seq(AnchoredFrames)
      /\ last \in Nat /\ last \in 1..last /\ Frame = stack[last]
      /\ chain \in Seq(Jwts) /\ Len(chain) = last
      /\ hints[Frame.entity] \in Seq(Entities) /\ Frame.entity \in Entities
      /\ visited' = visited /\ visited \subseteq Entities
      /\ \A i \in 1..last : stack[i].entity \in Entities /\ stack[i].next \in Nat
      /\ Frame.next >= 1
  <2>1. stack # << >> /\ Len(chain) = last /\ visited \subseteq Entities
    BY DEF AnchoredInv, AnchoredCallsInv, AnchoredChainInv, AnchoredTypeOK
  <2>2. /\ stack \in Seq(AnchoredFrames) /\ last \in Nat /\ chain \in Seq(Jwts)
        /\ \A i \in 1..last : stack[i].entity \in Entities /\ stack[i].next \in Nat
    BY AnchoredInnermostCall
  <2>3. /\ last \in 1..last /\ Frame = stack[last]
        /\ hints[Frame.entity] \in Seq(Entities) /\ Frame.next >= 1
    BY <2>1, AnchoredInnermostCall
  <2>4. Frame.entity \in Entities
    BY <2>2, <2>3
  <2> QED
    BY <2>1, <2>2, <2>3, <2>4
<1>2. PICK m \in Nat : m = last - 1
  <2>1. last \in Nat /\ last >= 1
    BY <1>1
  <2>2. last - 1 \in Nat
    BY <2>1
  <2> QED
    BY <2>2
<1>3. /\ Front(stack) \in Seq(AnchoredFrames) /\ Len(Front(stack)) = m
      /\ \A i \in 1..m : Front(stack)[i] = stack[i]
  BY <1>1, <1>2, FrontOf
<1>4. VisitedBy(m)
  <2> SUFFICES ASSUME changes' = 0, anchors # NoAnchors
               PROVE  /\ visited \cap anchors = {}
                      /\ m > 0 => hints[stack[m].entity][stack[m].next] \in visited
                      /\ \A e \in visited :
                           \/ \E n \in 1..m : stack[n].entity = e
                           \/ FetchableInOrder[e] \subseteq visited
    BY <1>1 DEF VisitedBy
  <2>1. /\ visited \cap anchors = {}
        /\ \A n \in 1..last : \A i \in 1..(stack[n].next - 1) :
             InOrder(stack[n].entity, i) => hints[stack[n].entity][i] \in visited
        /\ \A e \in visited :
             \/ \E n \in 1..last : stack[n].entity = e
             \/ FetchableInOrder[e] \subseteq visited
    BY DEF AnchoredInv, VisitedInv, worldVars
  <2>2. m > 0 => hints[stack[m].entity][stack[m].next] \in visited
    <3>1. m > 0 => m \in 1..(last - 1) /\ m + 1 \in 1..last
      BY <1>1, <1>2
    <3> QED
      BY <3>1 DEF AnchoredInv, AnchoredCallsInv
  <2>3. FetchableInOrder[Frame.entity] \subseteq visited
    <3>1. DOMAIN hints[Frame.entity] = 1..Len(hints[Frame.entity])
      BY <1>1, LenProperties
    <3>2. ASSUME NEW i \in 1..Len(hints[Frame.entity]), InOrder(Frame.entity, i)
          PROVE  hints[Frame.entity][i] \in visited
      <4>1. Frame.next \in Nat
        BY <1>1
      <4>2. i \in 1..(Frame.next - 1)
        BY <1>1, <3>2, <4>1
      <4> QED
        BY <1>1, <2>1, <3>2, <4>2
    <3> QED
      BY <1>1, <3>1, <3>2 DEF FetchableInOrder, InOrder
  <2>4. ASSUME NEW e \in visited
        PROVE  \/ \E n \in 1..m : stack[n].entity = e
               \/ FetchableInOrder[e] \subseteq visited
    <3>1. CASE FetchableInOrder[e] \subseteq visited
      BY <3>1
    <3>2. CASE \E n \in 1..last : stack[n].entity = e
      <4>1. PICK n \in 1..last : stack[n].entity = e
        BY <3>2
      <4>2. n = last \/ n \in 1..m
        BY <1>1, <1>2
      <4> QED
        BY <1>1, <2>3, <4>1, <4>2
    <3> QED
      BY <2>1, <3>1, <3>2
  <2> QED
    BY <2>1, <2>2, <2>4
<1>5. CASE Front(stack) = << >>
  <2>1. m = 0
    BY <1>3, <1>5
  <2>2. Start \in visited'
    BY <1>1 DEF AnchoredInv, AnchoredCallsInv
  <2> QED
    BY <1>1, <1>4, <1>5, <2>1, <2>2, WalkFails DEF Fails
<1>6. CASE Front(stack) # << >>
  <2>1. m \in 1..last /\ m >= 1
    BY <1>1, <1>2, <1>3, <1>6, EmptySeq
  <2>2. /\ step' = "superior" /\ result' = result
        /\ stack' = Advanced(Front(stack)) /\ chain' = SubSeq(chain, 1, m)
    <3>1. Last(Front(stack)).base = m
      <4>1. Last(Front(stack)) = stack[m]
        BY <1>3, <2>1 DEF Last
      <4>2. m \in 1..(last - 1)
        BY <1>2, <2>1
      <4> QED
        BY <4>1, <4>2 DEF AnchoredInv, AnchoredCallsInv
    <3> QED
      BY <1>6, <3>1 DEF Fails
  <2>3. /\ stack' \in Seq(AnchoredFrames) /\ Len(stack') = m
        /\ \A i \in 1..(m - 1) : stack'[i] = Front(stack)[i]
        /\ stack'[m].entity = Front(stack)[m].entity
        /\ stack'[m].next = Front(stack)[m].next + 1
        /\ stack'[m].base = Front(stack)[m].base
    BY <1>3, <1>6, <2>2, AdvancedAnchoredFrames
  <2>4. /\ \A i \in 1..(m - 1) : stack'[i] = stack[i]
        /\ stack'[m].entity = stack[m].entity
        /\ stack'[m].next = stack[m].next + 1
        /\ stack'[m].base = stack[m].base
    BY <1>3, <2>1, <2>3
  <2>5. /\ chain' \in Seq(Jwts) /\ Len(chain') = m
        /\ \A i \in 1..m : chain'[i] = chain[i]
    <3>1. \A i \in 1..m : chain[i] \in Jwts
      BY <1>1, <1>2, ElementOfSeq
    <3> QED
      BY <1>1, <1>2, <2>1, <2>2, <3>1, SubSeqProperties
  <2> QED
    BY <1>1, <1>4, <2>1, <2>2, <2>3, <2>4, <2>5, CallsGoOn
<1> QED
  BY <1>5, <1>6

-----------------------------------------------------------------------------

LEMMA BeginKeepsInv ==
  ASSUME AnchoredInv, FederationTypeOK', hints' = hints, endpoints' = endpoints, Begin
  PROVE  AnchoredInv'
<1>1. /\ step = "start" /\ stack = << >> /\ visited = {} /\ chain = << >> /\ target = Start
      /\ result = "none"
      /\ UNCHANGED <<target, stack, superior, visited, chain>>
      /\ Len(stack) = 0 /\ Len(chain) = 0
  BY DEF Begin, AnchoredInv, AnchoredCallsInv
<1>2. \/ /\ step' = "done" /\ result' = "failed" /\ anchors' = anchors
         /\ changes' = 0 => anchors = NoAnchors
      \/ /\ step' = "enter" /\ result' = result
         /\ anchors' = anchors \/ anchors' \in TrustAnchorHints
  <2>1. Unanswered => changes' # 0
    BY FederationAssumption DEF Unanswered, AnchoredInv, AnchoredTypeOK, FederationTypeOK
  <2> QED
    BY <2>1 DEF Begin, BeginFails
<1>3. AnchoredTypeOK'
  BY <1>1, <1>2, AnchoredAssumption DEF AnchoredInv, AnchoredTypeOK
<1>4. AnchoredCallsInv' /\ AnchoredChainInv' /\ FoundInv'
  BY <1>1, <1>2 DEF AnchoredCallsInv, AnchoredChainInv, FoundInv
<1>5. VisitedInv'
  BY <1>1, <1>2 DEF VisitedInv
<1> QED
  BY <1>3, <1>4, <1>5 DEF AnchoredInv

LEMMA EnterLoopKeepsInv ==
  ASSUME AnchoredInv, FederationTypeOK', hints' = hints, endpoints' = endpoints,
         changes' = 0 => UNCHANGED worldVars, AnchoredEnterLoop
  PROVE  AnchoredInv'
<1>1. visited' = visited \cup {target}
  BY DEF AnchoredEnterLoop
<1>2. stack # << >>
  BY DEF AnchoredEnterLoop, AnchoredInv, AnchoredCallsInv
<1> QED
  BY <1>1, <1>2, BeginningCallFailsKeepsInv DEF AnchoredEnterLoop

\* The first anchor that is met ends the chain.
LEMMA MeetsAnchor ==
  ASSUME AnchoredInv, FederationTypeOK', hints' = hints,
         step = "enter", target \in anchors, step' = "found",
         NEW config \in Jwts, config.iss = target, config.sub = target,
         chain' = Append(chain, config), visited' = visited \cup {target},
         UNCHANGED <<anchors, target, superior, stack, result>>
  PROVE  AnchoredInv'
<1>1. /\ stack \in Seq(AnchoredFrames) /\ Len(stack) \in Nat
      /\ chain \in Seq(Jwts) /\ Len(chain) \in Nat
      /\ result = "none" /\ target \in Entities
  BY AnchoredInnermostCall DEF AnchoredInv, AnchoredCallsInv, AnchoredTypeOK
<1>2. /\ chain' \in Seq(Jwts) /\ Len(chain') = Len(chain) + 1 /\ chain' # << >>
      /\ \A i \in 1..Len(chain) : chain'[i] = chain[i]
      /\ chain'[Len(chain) + 1] = config
  BY <1>1, AppendProperties
<1>3. AnchoredTypeOK'
  BY <1>1, <1>2 DEF AnchoredInv, AnchoredTypeOK
<1>4. AnchoredCallsInv'
  BY <1>1 DEF AnchoredInv, AnchoredCallsInv
<1>5. stack # << >> => Len(chain) = Len(stack) + 1 /\ chain[1].sub = Start
  BY <1>1 DEF AnchoredInv, AnchoredChainInv
<1>6. stack = << >> => Len(chain) = 0 /\ target = Start
  BY DEF AnchoredInv, AnchoredCallsInv
<1>7. chain'[1].sub = Start /\ Len(chain') >= Len(stack)
  <2>1. CASE stack = << >>
    BY <1>2, <1>6, <2>1
  <2>2. CASE stack # << >>
    BY <1>1, <1>2, <1>5, <2>2
  <2> QED
    BY <2>1, <2>2
<1>8. AnchoredChainInv'
  <2>1. ASSUME NEW i \in 2..Len(stack)
        PROVE  chain'[i].iss = stack[i].entity /\ chain'[i].sub = stack[i - 1].entity
    <3>1. i \in 1..Len(chain)
      BY <1>1, <1>5, <2>1
    <3> QED
      BY <1>2, <2>1, <3>1 DEF AnchoredInv, AnchoredChainInv
  <2> QED
    BY <1>7, <2>1 DEF AnchoredChainInv
<1>9. FoundInv'
  BY <1>1, <1>2, <1>7 DEF FoundInv, Last
<1>10. VisitedInv'
  BY <1>1 DEF VisitedInv
<1> QED
  BY <1>3, <1>4, <1>8, <1>9, <1>10 DEF AnchoredInv

\* A call begins at an entity that is not an anchor and names Superiors.
LEMMA CallBegins ==
  ASSUME AnchoredInv, FederationTypeOK', hints' = hints, endpoints' = endpoints,
         changes' = 0 => UNCHANGED worldVars,
         step = "enter", target \notin anchors, step' = "superior",
         NEW config \in Jwts, config.iss = target, config.sub = target,
         chain' = IF chain = << >> THEN <<config>> ELSE chain,
         stack' = Append(stack, [entity |-> target, next |-> 1, base |-> 0]),
         visited' = visited \cup {target},
         UNCHANGED <<anchors, target, superior, result>>
  PROVE  AnchoredInv'
<1> DEFINE last == Len(stack)
           frame == [entity |-> target, next |-> 1, base |-> 0]
<1>1. /\ stack \in Seq(AnchoredFrames) /\ last \in Nat
      /\ chain \in Seq(Jwts) /\ Len(chain) \in Nat
      /\ result = "none" /\ target \in Entities
      /\ stack # << >> => last \in 1..last /\ last >= 1 /\ Frame = stack[last]
  BY AnchoredInnermostCall DEF AnchoredInv, AnchoredCallsInv, AnchoredTypeOK
<1>2. frame \in AnchoredFrames /\ frame.entity = target /\ frame.next = 1
  BY <1>1 DEF AnchoredFrames
<1> HIDE DEF frame
<1>3. /\ stack' \in Seq(AnchoredFrames) /\ Len(stack') = last + 1 /\ stack' # << >>
      /\ \A i \in 1..last : stack'[i] = stack[i]
      /\ stack'[last + 1] = frame
  <2>1. stack' = Append(stack, frame)
    BY DEF frame
  <2> QED
    BY <1>1, <1>2, <2>1, AppendProperties
<1>4. CASE stack = << >>
  <2>1. last = 0 /\ target = Start /\ visited = {} /\ chain = << >>
    BY <1>4 DEF AnchoredInv, AnchoredCallsInv
  <2>2. /\ chain' = <<config>> /\ chain' \in Seq(Jwts) /\ Len(chain') = 1
        /\ chain'[1] = config /\ chain' # << >>
    BY <2>1
  <2>3. Len(stack') = 1 /\ stack'[1] = frame
    BY <1>3, <2>1
  <2>4. AnchoredTypeOK'
    BY <1>1, <1>3, <2>2 DEF AnchoredInv, AnchoredTypeOK, AnchoredFrames
  <2>5. AnchoredCallsInv'
    BY <1>1, <1>2, <1>3, <2>1, <2>3 DEF AnchoredCallsInv
  <2>6. AnchoredChainInv'
    BY <1>1, <1>2, <1>3, <2>1, <2>2, <2>3 DEF AnchoredChainInv
  <2>7. FoundInv'
    BY <1>1 DEF FoundInv
  <2>8. VisitedInv'
    <3>1. visited' = {target} /\ Len(stack') = 1 /\ stack'[1].next - 1 = 0
      BY <1>2, <2>1, <2>3
    <3> QED
      BY <1>1, <1>2, <2>1, <2>3, <3>1 DEF VisitedInv
  <2> QED
    BY <2>4, <2>5, <2>6, <2>7, <2>8 DEF AnchoredInv
<1>5. CASE stack # << >>
  <2>1. /\ Len(chain) = last + 1 /\ chain # << >>
        /\ chain[last + 1].iss = target /\ chain[last + 1].sub = stack[last].entity
        /\ chain[1].sub = Start
    BY <1>1, <1>5 DEF AnchoredInv, AnchoredChainInv
  <2>2. chain' = chain
    BY <2>1
  <2>3. target = hints[stack[last].entity][stack[last].next] /\ stack[last].base = last
    BY <1>1, <1>5 DEF AnchoredInv, AnchoredCallsInv, NextHint
  <2>4. AnchoredTypeOK'
    BY <1>1, <1>3, <2>2 DEF AnchoredInv, AnchoredTypeOK, AnchoredFrames
  <2>5. AnchoredCallsInv'
    <3>1. ASSUME NEW n \in 1..(last + 1)
          PROVE  stack'[n].next >= 1 /\ stack'[n].entity \in visited'
      <4>1. n \in 1..last \/ n = last + 1
        BY <1>1
      <4> QED
        BY <1>2, <1>3, <4>1 DEF AnchoredInv, AnchoredCallsInv
    <3>2. ASSUME NEW n \in 1..last
          PROVE  /\ stack'[n + 1].entity = hints[stack'[n].entity][stack'[n].next]
                 /\ stack'[n].base = n
      <4>1. CASE n = last
        BY <1>2, <1>3, <2>3, <4>1
      <4>2. CASE n \in 1..(last - 1)
        <5>1. stack'[n] = stack[n] /\ stack'[n + 1] = stack[n + 1]
          BY <1>1, <1>3, <4>2
        <5> QED
          BY <4>2, <5>1 DEF AnchoredInv, AnchoredCallsInv
      <4> QED
        BY <1>1, <4>1, <4>2
    <3>3. stack'[1].entity = Start
      BY <1>1, <1>3, <1>5 DEF AnchoredInv, AnchoredCallsInv
    <3>4. /\ result' = "none" /\ step' = "superior" /\ stack' # << >>
          /\ Len(stack') = last + 1 /\ last + 1 - 1 = last
          /\ hints' = hints
      BY <1>1, <1>3
    <3> QED
      BY <3>1, <3>2, <3>3, <3>4 DEF AnchoredCallsInv
  <2>6. AnchoredChainInv'
    <3>1. ASSUME NEW i \in 2..(last + 1)
          PROVE  chain[i].iss = stack'[i].entity /\ chain[i].sub = stack'[i - 1].entity
      <4>1. CASE i = last + 1
        BY <1>1, <1>2, <1>3, <1>5, <2>1, <4>1
      <4>2. CASE i \in 2..last
        <5>1. i \in 1..last /\ i - 1 \in 1..last
          BY <1>1, <4>2
        <5> QED
          BY <1>3, <4>2, <5>1 DEF AnchoredInv, AnchoredChainInv
      <4> QED
        BY <1>1, <4>1, <4>2
    <3> QED
      BY <1>1, <1>3, <2>1, <2>2, <3>1 DEF AnchoredChainInv
  <2>7. FoundInv'
    BY <1>1 DEF FoundInv
  <2>8. VisitedInv'
    <3> SUFFICES ASSUME changes' = 0, anchors # NoAnchors
                 PROVE  /\ Start \in visited'
                        /\ visited' \cap anchors = {}
                        /\ \A n \in 1..(last + 1) : \A i \in 1..(stack'[n].next - 1) :
                             InOrder(stack[n].entity, i)' =>
                               hints[stack'[n].entity][i] \in visited'
                        /\ \A e \in visited' :
                             \/ \E n \in 1..(last + 1) : stack'[n].entity = e
                             \/ FetchableInOrder'[e] \subseteq visited'
      BY <1>1, <1>3 DEF VisitedInv
    <3>1. UNCHANGED worldVars /\ changes = 0 /\ FetchableInOrder' = FetchableInOrder
      BY DEF FetchableInOrder, worldVars
    <3>2. /\ Start \in visited
          /\ visited \cap anchors = {}
          /\ \A n \in 1..last : \A i \in 1..(stack[n].next - 1) :
               InOrder(stack[n].entity, i) => hints[stack[n].entity][i] \in visited
          /\ \A e \in visited :
               \/ \E n \in 1..last : stack[n].entity = e
               \/ FetchableInOrder[e] \subseteq visited
      BY <1>5, <3>1 DEF AnchoredInv, VisitedInv
    <3>3. ASSUME NEW n \in 1..(last + 1), NEW i \in 1..(stack'[n].next - 1),
                 InOrder(stack[n].entity, i)'
          PROVE  hints[stack'[n].entity][i] \in visited'
      <4>1. n # last + 1
        BY <1>2, <1>3, <3>3
      <4>2. n \in 1..last /\ stack'[n] = stack[n]
        BY <1>1, <1>3, <4>1
      <4>3. InOrder(stack[n].entity, i)
        BY <3>1, <3>3, <4>2 DEF InOrder, worldVars
      <4> QED
        BY <3>2, <4>2, <4>3
    <3>4. ASSUME NEW e \in visited'
          PROVE  \/ \E n \in 1..(last + 1) : stack'[n].entity = e
                 \/ FetchableInOrder[e] \subseteq visited'
      <4>1. CASE e = target
        <5>1. last + 1 \in 1..(last + 1)
          BY <1>1
        <5> QED
          BY <1>2, <1>3, <4>1, <5>1
      <4>2. CASE e \in visited
        <5>1. \A n \in 1..last : n \in 1..(last + 1)
          BY <1>1
        <5> QED
          BY <1>3, <3>2, <4>2, <5>1
      <4> QED
        BY <4>1, <4>2
    <3> QED
      BY <3>1, <3>2, <3>3, <3>4
  <2> QED
    BY <2>4, <2>5, <2>6, <2>7, <2>8 DEF AnchoredInv
<1> QED
  BY <1>4, <1>5

LEMMA EnterKeepsInv ==
  ASSUME AnchoredInv, FederationTypeOK', hints' = hints, endpoints' = endpoints,
         changes' = 0 => UNCHANGED worldVars, AnchoredEnter
  PROVE  AnchoredInv'
<1>1. PICK config : config = Configuration(target)
  OBVIOUS
<1>2. config \in Jwts /\ config.iss = target /\ config.sub = target
  BY <1>1 DEF Configuration, Jwts, AnchoredInv, AnchoredTypeOK, FederationTypeOK
<1>3. /\ step = "enter" /\ target \notin visited /\ visited' = visited \cup {target}
      /\ UNCHANGED <<anchors, target, superior>>
  BY DEF AnchoredEnter
<1>4. CASE Unanswered /\ Fails(stack)
  <2>1. changes' # 0
    BY <1>4 DEF Unanswered, AnchoredInv, AnchoredTypeOK, FederationTypeOK
  <2> QED
    BY <1>3, <1>4, <2>1, BeginningCallFailsKeepsInv
<1>5. CASE target \notin anchors /\ hints[target] = << >> /\ Fails(stack)
  BY <1>3, <1>5, BeginningCallFailsKeepsInv
<1>6. CASE /\ target \in anchors
           /\ chain' = Append(chain, Configuration(target))
           /\ step' = "found"
           /\ UNCHANGED <<stack, result>>
  BY <1>1, <1>2, <1>3, <1>6, MeetsAnchor
<1>7. CASE /\ target \notin anchors
           /\ hints[target] # << >>
           /\ chain' = IF chain = << >> THEN <<Configuration(target)>> ELSE chain
           /\ stack' = Append(stack, [entity |-> target, next |-> 1, base |-> 0])
           /\ step' = "superior"
           /\ UNCHANGED result
  BY <1>1, <1>2, <1>3, <1>7, CallBegins
<1> QED
  BY <1>4, <1>5, <1>6, <1>7 DEF AnchoredEnter

LEMMA AnchoredAskSuperiorKeepsInv ==
  ASSUME AnchoredInv, FederationTypeOK', hints' = hints, endpoints' = endpoints,
         changes' = 0 => UNCHANGED worldVars, AnchoredAskSuperior
  PROVE  AnchoredInv'
<1>1. /\ step = "superior" /\ stack # << >> /\ HasHint /\ NextHint \in Entities
      /\ Frame.entity \in Entities /\ Frame.next >= 1 /\ Frame.next \in Nat
      /\ hints[Frame.entity] \in Seq(Entities)
      /\ result = "none"
  BY AnchoredInnermostCall DEF AnchoredAskSuperior, AnchoredInv, AnchoredCallsInv
<1>2. CASE Unanswered /\ AnchoredSkipHint
  <2>1. changes' # 0
    BY <1>2 DEF Unanswered, AnchoredInv, AnchoredTypeOK, FederationTypeOK
  <2> QED
    BY <1>1, <1>2, <2>1, AnchoredSkipKeepsInv
<1>3. CASE /\ superior' = Configuration(NextHint)
           /\ step' = "statement"
           /\ UNCHANGED <<worldVars, anchors, target, stack, visited, chain, result>>
  <2>1. /\ superior' \in Jwts /\ superior'.sub = NextHint
        /\ superior'.lists = key[superior'.sub]
    BY <1>1, <1>3 DEF Configuration, Jwts, AnchoredInv, AnchoredTypeOK, FederationTypeOK
  <2>2. NextHint' = NextHint /\ HasHint' = HasHint /\ Frame' = Frame
    BY <1>3 DEF NextHint, HasHint, Frame, worldVars
  <2>3. AnchoredTypeOK'
    BY <1>1, <1>3, <2>1, <2>2 DEF AnchoredInv, AnchoredTypeOK
  <2>4. AnchoredCallsInv'
    BY <1>1, <1>3, <2>2 DEF AnchoredInv, AnchoredCallsInv
  <2>5. AnchoredChainInv' /\ FoundInv'
    BY <1>1, <1>3 DEF AnchoredInv, AnchoredChainInv, FoundInv
  <2>6. VisitedInv'
    <3>1. UNCHANGED <<hints, endpoints, key, endorsed, changes>>
      BY <1>3 DEF worldVars
    <3>2. FetchableInOrder' = FetchableInOrder
      BY <3>1 DEF FetchableInOrder
    <3>3. key' = key
      BY <3>1
    <3> QED
      BY <1>1, <1>3, <2>1, <3>1, <3>2 DEF AnchoredInv, VisitedInv, InOrder
  <2> QED
    BY <2>3, <2>4, <2>5, <2>6 DEF AnchoredInv
<1>4. CASE NextHint \notin endpoints /\ Fails(Front(stack))
  <2>1. ASSUME NEW i \in 1..Len(hints[Frame.entity]), i >= Frame.next
        PROVE  ~InOrder(Frame.entity, i)
    BY <1>1, <1>4, <2>1 DEF InOrder, NextHint
  <2>2. UNCHANGED <<anchors, target, superior, visited>>
    BY <1>1, <1>4 DEF AnchoredAskSuperior, AnchoredSkipHint
  <2> QED
    BY <1>1, <1>4, <2>1, <2>2, InnermostCallFailsKeepsInv
<1> QED
  BY <1>2, <1>3, <1>4 DEF AnchoredAskSuperior

LEMMA AnchoredAskStatementKeepsInv ==
  ASSUME AnchoredInv, FederationTypeOK', hints' = hints, endpoints' = endpoints,
         changes' = 0 => UNCHANGED worldVars, AnchoredAskStatement
  PROVE  AnchoredInv'
<1> DEFINE last == Len(stack)
<1>1. /\ step = "statement" /\ stack # << >> /\ result = "none"
      /\ HasHint /\ superior.sub = NextHint /\ NextHint \in Entities
      /\ stack \in Seq(AnchoredFrames) /\ last \in Nat /\ last \in 1..last /\ last >= 1
      /\ Frame = stack[last] /\ Frame.entity \in Entities
      /\ Frame.next >= 1 /\ Frame.next \in Nat
      /\ chain \in Seq(Jwts) /\ Len(chain) = last /\ chain # << >>
  <2>1. step = "statement" /\ stack # << >> /\ HasHint /\ superior.sub = NextHint
        /\ Len(chain) = last /\ result = "none"
    BY DEF AnchoredAskStatement, AnchoredInv, AnchoredTypeOK, AnchoredCallsInv,
           AnchoredChainInv
  <2> QED
    BY <2>1, AnchoredInnermostCall
<1>2. CASE Unanswered /\ AnchoredSkipHint
  <2>1. changes' # 0
    BY <1>2 DEF Unanswered, AnchoredInv, AnchoredTypeOK, FederationTypeOK
  <2> QED
    BY <1>1, <1>2, <2>1, AnchoredSkipKeepsInv
<1>3. CASE ~StatementVerifies(superior, Frame.entity) /\ AnchoredSkipHint
  <2>1. ASSUME changes' = 0 PROVE ~InOrder(Frame.entity, Frame.next)
    <3>1. superior.lists = key[superior.sub]
      BY <1>1, <2>1 DEF AnchoredInv, VisitedInv, worldVars
    <3>2. endorsed[superior.sub][Frame.entity] = NoKey
      BY <1>1, <1>3, <3>1 DEF StatementVerifies, Statement
    <3> QED
      BY <1>1, <3>2 DEF InOrder, NextHint
  <2> QED
    BY <1>1, <1>3, <2>1, AnchoredSkipKeepsInv
<1>4. CASE /\ StatementVerifies(superior, Frame.entity)
           /\ chain' = Append(chain, Statement(superior.sub, Frame.entity))
           /\ stack' = [stack EXCEPT ![Len(stack)].base = Len(chain)]
           /\ target' = superior.sub
           /\ step' = "enter"
           /\ UNCHANGED <<worldVars, anchors, superior, visited, result>>
  <2> DEFINE statement == Statement(superior.sub, Frame.entity)
             frame == [stack[last] EXCEPT !.base = last]
  <2>1. /\ statement \in Jwts /\ statement.iss = superior.sub
        /\ statement.sub = Frame.entity
    <3>1. superior.sub \in Entities /\ key[superior.sub] \in Nat
      BY <1>1 DEF AnchoredInv, AnchoredTypeOK, FederationTypeOK
    <3>2. endorsed[superior.sub][Frame.entity] \in Nat
      <4>1. endorsed \in Endorsements
        BY DEF AnchoredInv, AnchoredTypeOK, FederationTypeOK
      <4>2. endorsed[superior.sub][Frame.entity] \in Nat \cup {NoKey}
        BY <1>1, <3>1, <4>1 DEF Endorsements
      <4>3. endorsed[superior.sub][Frame.entity] # NoKey
        BY <1>4 DEF StatementVerifies
      <4> QED
        BY <4>2, <4>3
    <3> QED
      BY <1>1, <3>1, <3>2 DEF Statement, Jwts
  <2>2. /\ frame \in AnchoredFrames /\ frame.entity = stack[last].entity
        /\ frame.next = stack[last].next /\ frame.base = last
    <3>1. stack[last] \in AnchoredFrames
      BY <1>1, ElementOfSeq
    <3> QED
      BY <1>1, <3>1 DEF AnchoredFrames
  <2>3. stack' = [stack EXCEPT ![last] = frame]
    BY <1>1, <1>4
  <2>4. chain' = Append(chain, statement)
    BY <1>4
  <2> HIDE DEF statement, frame
  <2>5. /\ stack' \in Seq(AnchoredFrames) /\ Len(stack') = last /\ stack' # << >>
        /\ \A i \in 1..(last - 1) : stack'[i] = stack[i]
        /\ stack'[last] = frame
    BY <1>1, <2>2, <2>3, ExceptSeq
  <2>6. /\ chain' \in Seq(Jwts) /\ Len(chain') = last + 1 /\ chain' # << >>
        /\ \A i \in 1..last : chain'[i] = chain[i]
        /\ chain'[last + 1] = statement
    BY <1>1, <2>1, <2>4, AppendProperties
  <2>7. \A i \in 1..last :
          stack'[i].entity = stack[i].entity /\ stack'[i].next = stack[i].next
    <3> TAKE i \in 1..last
    <3>1. i = last \/ i \in 1..(last - 1)
      BY <1>1
    <3> QED
      BY <2>2, <2>5, <3>1
  <2>8. UNCHANGED <<hints, endpoints, key, endorsed, changes>>
    BY <1>4 DEF worldVars
  <2>9. Frame' = frame /\ NextHint' = NextHint
    <3>1. Frame' = frame
      BY <2>5 DEF Frame, Last
    <3> QED
      BY <1>1, <2>2, <2>8, <3>1 DEF NextHint
  <2>10. AnchoredTypeOK'
    BY <1>1, <1>4, <2>5, <2>6 DEF AnchoredInv, AnchoredTypeOK, AnchoredFrames
  <2>11. AnchoredCallsInv'
    <3>1. \A n \in 1..last : stack'[n].next >= 1 /\ stack'[n].entity \in visited
      BY <2>7 DEF AnchoredInv, AnchoredCallsInv
    <3>2. ASSUME NEW n \in 1..(last - 1)
          PROVE  /\ stack'[n + 1].entity = hints[stack'[n].entity][stack'[n].next]
                 /\ stack'[n].base = n
      <4>1. n \in 1..last /\ n + 1 \in 1..last /\ stack'[n] = stack[n]
        BY <1>1, <2>5
      <4> QED
        BY <2>7, <4>1 DEF AnchoredInv, AnchoredCallsInv
    <3>3. stack'[1].entity = Start
      BY <1>1, <2>7 DEF AnchoredInv, AnchoredCallsInv
    <3>4. /\ result' = "none" /\ step' = "enter" /\ stack' # << >> /\ Len(stack') = last
          /\ target' = NextHint' /\ Frame'.base = last
          /\ hints' = hints /\ visited' = visited
      BY <1>1, <1>4, <2>2, <2>5, <2>9
    <3> QED
      BY <3>1, <3>2, <3>3, <3>4 DEF AnchoredCallsInv
  <2>12. AnchoredChainInv'
    <3>1. chain[1].sub = Start
      BY <1>1 DEF AnchoredInv, AnchoredChainInv
    <3>2. ASSUME NEW i \in 2..last
          PROVE  chain'[i].iss = stack'[i].entity /\ chain'[i].sub = stack'[i - 1].entity
      <4>1. i \in 1..last /\ i - 1 \in 1..last
        BY <1>1
      <4> QED
        BY <1>1, <2>6, <2>7, <4>1 DEF AnchoredInv, AnchoredChainInv
    <3> QED
      BY <1>1, <1>4, <2>1, <2>2, <2>5, <2>6, <2>9, <3>1, <3>2 DEF AnchoredChainInv
  <2>13. FoundInv'
    BY <1>1, <1>4 DEF FoundInv
  <2>14. VisitedInv'
    <3>1. FetchableInOrder' = FetchableInOrder
      BY <2>8 DEF FetchableInOrder
    <3> SUFFICES ASSUME changes' = 0, anchors # NoAnchors
                 PROVE  /\ Start \in visited
                        /\ visited \cap anchors = {}
                        /\ \A n \in 1..last : \A i \in 1..(stack'[n].next - 1) :
                             InOrder(stack[n].entity, i)' =>
                               hints[stack'[n].entity][i] \in visited
                        /\ \A e \in visited :
                             \/ \E n \in 1..last : stack'[n].entity = e
                             \/ FetchableInOrder[e] \subseteq visited
      BY <1>4, <2>5, <2>8, <3>1 DEF VisitedInv
    <3>2. /\ Start \in visited
          /\ visited \cap anchors = {}
          /\ \A n \in 1..last : \A i \in 1..(stack[n].next - 1) :
               InOrder(stack[n].entity, i) => hints[stack[n].entity][i] \in visited
          /\ \A e \in visited :
               \/ \E n \in 1..last : stack[n].entity = e
               \/ FetchableInOrder[e] \subseteq visited
      BY <1>1, <2>8 DEF AnchoredInv, VisitedInv
    <3>3. ASSUME NEW n \in 1..last, NEW i \in 1..(stack'[n].next - 1),
                 InOrder(stack[n].entity, i)'
          PROVE  hints[stack'[n].entity][i] \in visited
      <4>1. i \in 1..(stack[n].next - 1) /\ InOrder(stack[n].entity, i)
        BY <2>7, <2>8, <3>3 DEF InOrder
      <4> QED
        BY <2>7, <3>2, <4>1
    <3> QED
      BY <2>7, <3>2, <3>3
  <2> QED
    BY <2>10, <2>11, <2>12, <2>13, <2>14 DEF AnchoredInv
<1> QED
  BY <1>2, <1>3, <1>4 DEF AnchoredAskStatement

LEMMA NoHintLeftKeepsInv ==
  ASSUME AnchoredInv, FederationTypeOK', hints' = hints, endpoints' = endpoints,
         changes' = 0 => UNCHANGED worldVars, NoHintLeft
  PROVE  AnchoredInv'
<1>1. step = "superior" /\ stack # << >>
  BY DEF NoHintLeft, AnchoredInv, AnchoredCallsInv
<1>2. \A i \in 1..Len(hints[Frame.entity]) : i >= Frame.next => ~InOrder(Frame.entity, i)
  <2>1. Frame.next > Len(hints[Frame.entity]) /\ Len(hints[Frame.entity]) \in Nat
        /\ Frame.next \in Nat
    BY <1>1, AnchoredInnermostCall, LenProperties DEF NoHintLeft, HasHint
  <2> QED
    BY <2>1
<1> QED
  BY <1>1, <1>2, InnermostCallFailsKeepsInv DEF NoHintLeft

LEMMA AuthenticateKeepsInv ==
  ASSUME AnchoredInv, FederationTypeOK', Authenticate
  PROVE  AnchoredInv'
<1>1. /\ step = "found" /\ step' = "done" /\ result = "none"
      /\ result' \in {"chain", "rejected"}
      /\ result' = "chain" => Authenticates(chain)
      /\ UNCHANGED <<anchors, target, stack, superior, visited, chain>>
  BY DEF Authenticate, AnchoredInv, AnchoredCallsInv
<1>2. AnchoredTypeOK'
  BY <1>1 DEF AnchoredInv, AnchoredTypeOK
<1>3. UNCHANGED hints
  BY DEF Authenticate, worldVars
<1>4. AnchoredCallsInv' /\ AnchoredChainInv'
  BY <1>1, <1>3 DEF AnchoredInv, AnchoredCallsInv, AnchoredChainInv
<1>5. FoundInv'
  BY <1>1 DEF AnchoredInv, FoundInv, Authenticates
<1>6. VisitedInv'
  BY <1>1 DEF VisitedInv
<1> QED
  BY <1>2, <1>4, <1>5, <1>6 DEF AnchoredInv

\* The federation changes, or nothing does.
LEMMA WorldKeepsInv ==
  ASSUME AnchoredInv, FederationTypeOK', hints' = hints, endpoints' = endpoints,
         changes' = 0 => UNCHANGED worldVars, UNCHANGED anchoredWalkVars
  PROVE  AnchoredInv'
<1> USE DEF anchoredWalkVars
<1>1. Frame' = Frame /\ NextHint' = NextHint /\ HasHint' = HasHint
  BY DEF Frame, NextHint, HasHint
<1>2. AnchoredTypeOK'
  BY <1>1 DEF AnchoredInv, AnchoredTypeOK
<1>3. AnchoredCallsInv'
  BY <1>1 DEF AnchoredInv, AnchoredCallsInv
<1>4. AnchoredChainInv'
  BY <1>1 DEF AnchoredInv, AnchoredChainInv
<1>5. FoundInv'
  BY DEF AnchoredInv, FoundInv, Authenticates
<1>6. VisitedInv'
  <2>1. CASE changes' = 0
    <3>1. UNCHANGED <<hints, endpoints, key, endorsed, changes>>
      BY <2>1 DEF worldVars
    <3>2. FetchableInOrder' = FetchableInOrder
      BY <3>1 DEF FetchableInOrder
    <3> QED
      BY <3>1, <3>2 DEF AnchoredInv, VisitedInv, InOrder
  <2>2. CASE changes' # 0
    BY <2>2 DEF VisitedInv
  <2> QED
    BY <2>1, <2>2
<1> QED
  BY <1>2, <1>3, <1>4, <1>5, <1>6 DEF AnchoredInv

LEMMA AnchoredInvNext == AnchoredInv /\ [AnchoredNext]_anchoredVars => AnchoredInv'
<1> SUFFICES ASSUME AnchoredInv, [AnchoredNext]_anchoredVars PROVE AnchoredInv'
  OBVIOUS
<1>1. /\ FederationTypeOK' /\ hints' = hints /\ endpoints' = endpoints
      /\ changes' = 0 => UNCHANGED worldVars
  BY AnchoredWorldKept DEF AnchoredInv, AnchoredTypeOK
<1>2. CASE Begin
  BY <1>1, <1>2, BeginKeepsInv
<1>3. CASE AnchoredEnter
  BY <1>1, <1>3, EnterKeepsInv
<1>4. CASE AnchoredEnterLoop
  BY <1>1, <1>4, EnterLoopKeepsInv
<1>5. CASE AnchoredAskSuperior
  BY <1>1, <1>5, AnchoredAskSuperiorKeepsInv
<1>6. CASE AnchoredAskStatement
  BY <1>1, <1>6, AnchoredAskStatementKeepsInv
<1>7. CASE NoHintLeft
  BY <1>1, <1>7, NoHintLeftKeepsInv
<1>8. CASE Authenticate
  BY <1>1, <1>8, AuthenticateKeepsInv
<1>9. CASE UNCHANGED anchoredWalkVars
  BY <1>1, <1>9, WorldKeepsInv
<1> QED
  BY <1>2, <1>3, <1>4, <1>5, <1>6, <1>7, <1>8, <1>9
  DEF AnchoredNext, AnchoredWalk, anchoredVars

LEMMA AnchoredInvCorrect == AnchoredSpec => []AnchoredInv
  BY AnchoredInvInit, AnchoredInvNext, PTL DEF AnchoredSpec

\* The chain that is returned is authentic and leads from the start entity to a
\* trusted anchor, whatever changes while it is put together.
THEOREM OnlyAuthenticIsFound == AnchoredSpec => []FoundIsAuthentic
<1>1. AnchoredInv => FoundIsAuthentic
  BY DEF AnchoredInv, FoundInv, FoundIsAuthentic
<1> QED
  BY <1>1, AnchoredInvCorrect, PTL

\* At every moment the chain is what the calls that are not over added to it.
THEOREM ChainIsOfTheCalls == AnchoredSpec => []ChainFollowsCalls
<1>1. ASSUME AnchoredInv PROVE ChainFollowsCalls
  <2> SUFFICES ASSUME stack # << >>, step # "done"
               PROVE  /\ chain[1].sub = stack[1].entity
                      /\ \A i \in 2..Len(stack) :
                           chain[i].iss = stack[i].entity /\ chain[i].sub = stack[i - 1].entity
                      /\ step \in {"superior", "statement"} => Len(chain) = Len(stack)
    BY DEF ChainFollowsCalls
  <2> QED
    BY <1>1 DEF AnchoredInv, AnchoredCallsInv, AnchoredChainInv
<1> QED
  BY <1>1, AnchoredInvCorrect, PTL

\* A walk during which nothing goes wrong fails only when no trusted anchor can
\* be reached over Superiors that can be fetched in their order.
THEOREM NothingReachableIsMissed == AnchoredSpec => []ReachableIsFound
<1>1. ASSUME AnchoredInv PROVE ReachableIsFound
  <2> SUFFICES ASSUME result = "failed", changes = 0, anchors # NoAnchors,
                      NEW g \in ReachableOver(FetchableInOrder, Start), g \in anchors
               PROVE  FALSE
    BY DEF ReachableIsFound, Undisturbed
  <2>1. step = "done" /\ visited \in SUBSET Entities
    BY <1>1 DEF AnchoredInv, AnchoredCallsInv, AnchoredTypeOK
  <2>2. /\ Start \in visited
        /\ visited \cap anchors = {}
        /\ \A e \in visited : FetchableInOrder[e] \subseteq visited
    <3>1. stack = << >> /\ Len(stack) = 0
      BY <1>1 DEF AnchoredInv, AnchoredCallsInv
    <3> QED
      BY <1>1, <2>1, <3>1 DEF AnchoredInv, VisitedInv
  <2>3. g \in visited
    BY <2>1, <2>2 DEF ReachableOver
  <2> QED
    BY <2>2, <2>3
<1> QED
  BY <1>1, AnchoredInvCorrect, PTL
-----------------------------------------------------------------------------
(* Both walks end, if their requests do: no step leads back to a place the *)
(* walk was at, and there are finitely many places.                        *)

Visit(frame) == <<frame.entity, frame.next>>

\* The calls that a walk is in, and the hint each of them is at.
Place(s) == {<<n, Visit(s[n])>> : n \in 1..Len(s)}

Visits == UNION {{e} \X (1..(Len(hints[e]) + 1)) : e \in Entities}

Places == SUBSET ((1..Cardinality(Entities)) \X Visits)

SamePlace(t, s) == Len(t) = Len(s) /\ \A i \in 1..Len(s) : Visit(t[i]) = Visit(s[i])

\* Along the calls that they share, `t` is a call further than `s` or past its hint.
Later(t, s) ==
  \E n \in 1..Len(t) :
    /\ n <= Len(s) + 1
    /\ \A i \in 1..(n - 1) : Visit(t[i]) = Visit(s[i])
    /\ n <= Len(s) => t[n].entity = s[n].entity /\ t[n].next > s[n].next

Rank == [start |-> 0, superior |-> 1, statement |-> 2, enter |-> 3, found |-> 4, done |-> 5]

\* A walk with the calls `t` that is about to do `q` comes after one with the
\* calls `s` that is about to do `r`.
After(t, q, s, r) ==
  /\ r # "done"
  /\ \/ q = "done"
     \/ Later(t, s)
     \/ SamePlace(t, s) /\ Rank[q] > Rank[r]

AreCalls(s) == Len(s) \in Nat /\ \A n \in 1..Len(s) : s[n].next \in Nat

LEMMA LaterThanLater ==
  ASSUME NEW u, NEW t, NEW s, AreCalls(u), AreCalls(t), AreCalls(s), Later(u, t), Later(t, s)
  PROVE  Later(u, s)
<1>1. PICK n \in 1..Len(u) :
        /\ n <= Len(t) + 1
        /\ \A i \in 1..(n - 1) : Visit(u[i]) = Visit(t[i])
        /\ n <= Len(t) => u[n].entity = t[n].entity /\ u[n].next > t[n].next
  BY Zenon DEF Later
<1>2. PICK m \in 1..Len(t) :
        /\ m <= Len(s) + 1
        /\ \A i \in 1..(m - 1) : Visit(t[i]) = Visit(s[i])
        /\ m <= Len(s) => t[m].entity = s[m].entity /\ t[m].next > s[m].next
  BY Zenon DEF Later
<1>3. /\ Len(u) \in Nat /\ Len(t) \in Nat /\ Len(s) \in Nat
      /\ n \in Nat /\ m \in Nat /\ n >= 1 /\ m >= 1 /\ n <= Len(u) /\ m <= Len(t)
  BY DEF AreCalls
<1>4. CASE n <= m
  <2>1. n <= Len(s) + 1
    BY <1>2, <1>3, <1>4
  <2>3. \A i \in 1..(n - 1) : Visit(u[i]) = Visit(s[i])
    <3> TAKE i \in 1..(n - 1)
    <3>1. i \in 1..(m - 1)
      BY <1>3, <1>4
    <3> QED
      BY <1>1, <1>2, <3>1
  <2>2. ASSUME n <= Len(s) PROVE u[n].entity = s[n].entity /\ u[n].next > s[n].next
    <3>1. /\ u[n].entity = t[n].entity /\ u[n].next > t[n].next
          /\ u[n].next \in Nat /\ t[n].next \in Nat /\ s[n].next \in Nat
      BY <1>1, <1>3, <1>4, <2>2 DEF AreCalls
    <3>2. t[n].entity = s[n].entity /\ (t[n].next > s[n].next \/ t[n].next = s[n].next)
      <4>1. CASE n = m
        BY <1>2, <2>2, <4>1, Zenon
      <4>2. CASE n < m
        <5>1. Visit(t[n]) = Visit(s[n])
          BY <1>2, <1>3, <4>2
        <5> QED
          BY <5>1 DEF Visit
      <4> QED
        BY <1>3, <1>4, <4>1, <4>2
    <3>3. \A a, b, c \in Nat : a > b /\ (b > c \/ b = c) => a > c
      OBVIOUS
    <3>4. u[n].next > s[n].next
      BY <3>1, <3>2, <3>3, Zenon
    <3> QED
      BY <3>1, <3>2, <3>4, Zenon
  <2> QED
    BY <2>1, <2>2, <2>3 DEF Later
<1>5. CASE m < n
  <2>1. m \in 1..Len(u) /\ Visit(u[m]) = Visit(t[m])
    BY <1>1, <1>3, <1>5
  <2>2. \A i \in 1..(m - 1) : Visit(u[i]) = Visit(s[i])
    BY <1>1, <1>2, <1>3, <1>5
  <2>3. m <= Len(s) => u[m].entity = s[m].entity /\ u[m].next > s[m].next
    BY <1>2, <2>1 DEF Visit
  <2> QED
    BY <1>2, <2>1, <2>2, <2>3 DEF Later
<1> QED
  BY <1>3, <1>4, <1>5

\* Walks whose calls are the same as far as they go are equally late.
LEMMA LaterThanSame ==
  ASSUME NEW u, NEW t, NEW s, AreCalls(u), AreCalls(t), AreCalls(s)
  PROVE  /\ Later(u, t) /\ SamePlace(t, s) => Later(u, s)
         /\ SamePlace(u, t) /\ Later(t, s) => Later(u, s)
         /\ SamePlace(u, t) /\ SamePlace(t, s) => SamePlace(u, s)
<1>1. Len(u) \in Nat /\ Len(t) \in Nat /\ Len(s) \in Nat
  BY DEF AreCalls
<1>2. ASSUME Later(u, t), SamePlace(t, s) PROVE Later(u, s)
  <2>1. PICK n \in 1..Len(u) :
          /\ n <= Len(t) + 1
          /\ \A i \in 1..(n - 1) : Visit(u[i]) = Visit(t[i])
          /\ n <= Len(t) => u[n].entity = t[n].entity /\ u[n].next > t[n].next
    BY <1>2, Zenon DEF Later
  <2>2. Len(t) = Len(s) /\ \A i \in 1..Len(s) : Visit(t[i]) = Visit(s[i])
    BY <1>2 DEF SamePlace
  <2>3. \A i \in 1..(n - 1) : Visit(u[i]) = Visit(s[i])
    BY <1>1, <2>1, <2>2
  <2>4. ASSUME n <= Len(s) PROVE u[n].entity = s[n].entity /\ u[n].next > s[n].next
    <3>1. Visit(t[n]) = Visit(s[n])
      BY <1>1, <2>2, <2>4
    <3>2. t[n].entity = s[n].entity /\ t[n].next = s[n].next
      BY <3>1 DEF Visit
    <3> QED
      BY <2>1, <2>2, <2>4, <3>2
  <2> QED
    BY <2>1, <2>2, <2>3, <2>4 DEF Later
<1>3. ASSUME SamePlace(u, t), Later(t, s) PROVE Later(u, s)
  <2>1. PICK n \in 1..Len(t) :
          /\ n <= Len(s) + 1
          /\ \A i \in 1..(n - 1) : Visit(t[i]) = Visit(s[i])
          /\ n <= Len(s) => t[n].entity = s[n].entity /\ t[n].next > s[n].next
    BY <1>3, Zenon DEF Later
  <2>2. Len(u) = Len(t) /\ \A i \in 1..Len(t) : Visit(u[i]) = Visit(t[i])
    BY <1>3 DEF SamePlace
  <2>3. n \in 1..Len(u) /\ \A i \in 1..(n - 1) : Visit(u[i]) = Visit(s[i])
    BY <1>1, <2>1, <2>2
  <2>4. u[n].entity = t[n].entity /\ u[n].next = t[n].next
    BY <2>2, <2>3 DEF Visit
  <2> QED
    BY <2>1, <2>3, <2>4 DEF Later
<1>4. SamePlace(u, t) /\ SamePlace(t, s) => SamePlace(u, s)
  BY DEF SamePlace
<1> QED
  BY <1>2, <1>3, <1>4

\* After is a strict order: a walk that only goes on to later places never
\* comes back to one.
LEMMA AfterIsAStrictOrder ==
  ASSUME NEW u, NEW t, NEW s, AreCalls(u), AreCalls(t), AreCalls(s),
         NEW p \in DOMAIN Rank, NEW q \in DOMAIN Rank, NEW r \in DOMAIN Rank
  PROVE  /\ After(u, p, t, q) /\ After(t, q, s, r) => After(u, p, s, r)
         /\ ~After(s, r, s, r)
<1>1. Rank[p] \in Nat /\ Rank[q] \in Nat /\ Rank[r] \in Nat
  BY DEF Rank
<1>2. ~Later(s, s)
  BY DEF Later, AreCalls
<1> QED
  BY <1>1, <1>2, LaterThanLater, LaterThanSame DEF After

\* There are finitely many places.
LEMMA PlacesAreFinite ==
  ASSUME FederationTypeOK
  PROVE  IsFiniteSet(Places)
<1> DEFINE visits(e) == {e} \X (1..(Len(hints[e]) + 1))
           f == [e \in Entities |-> visits(e)]
           all == {visits(e) : e \in Entities}
<1>1. \A e \in Entities : IsFiniteSet(visits(e))
  <2> TAKE e \in Entities
  <2>1. Len(hints[e]) + 1 \in Int /\ 1 \in Int
    BY LenProperties DEF FederationTypeOK
  <2>2. IsFiniteSet({e}) /\ IsFiniteSet(1..(Len(hints[e]) + 1))
    BY <2>1, FS_Singleton, FS_Interval
  <2> QED
    BY <2>2, FS_Product
<1>2. IsFiniteSet(all)
  <2> HIDE DEF visits
  <2>1. f \in Surjection(Entities, all)
    BY DEF Surjection
  <2> QED
    BY <2>1, EntitiesAreFinite, FS_Surjection
<1>3. IsFiniteSet(UNION all)
  <2>1. \A T \in all : IsFiniteSet(T)
    BY <1>1
  <2> HIDE DEF all
  <2> QED
    BY <1>2, <2>1, FS_UNION
<1>4. IsFiniteSet(Visits)
  BY <1>3 DEF Visits
<1>5. IsFiniteSet(1..Cardinality(Entities))
  BY EntitiesAreFinite, FS_CardinalityType, FS_Interval
<1>6. IsFiniteSet((1..Cardinality(Entities)) \X Visits)
  BY <1>4, <1>5, FS_Product
<1> QED
  BY <1>6, FS_SUBSET DEF Places

\* Calls at different entities, each at one of its hints or past the last, are
\* at one of these places.
LEMMA CallsAreAtAPlace ==
  ASSUME FederationTypeOK, NEW s, Len(s) \in Nat,
         \A n \in 1..Len(s) : /\ s[n].entity \in Entities
                              /\ s[n].next \in 1..(Len(hints[s[n].entity]) + 1),
         \A n, m \in 1..Len(s) : s[n].entity = s[m].entity => n = m
  PROVE  Len(s) <= Cardinality(Entities) /\ Place(s) \in Places
<1> DEFINE f == [n \in 1..Len(s) |-> s[n].entity]
<1>1. f \in Injection(1..Len(s), Entities)
  BY DEF Injection, IsInjective
<1>2. Cardinality(1..Len(s)) <= Cardinality(Entities) /\ Cardinality(Entities) \in Nat
  BY <1>1, EntitiesAreFinite, FS_Injection, FS_CardinalityType
<1>3. Cardinality(1..Len(s)) = Len(s)
  <2>1. 1 \in Int /\ Len(s) \in Int
    OBVIOUS
  <2>2. Cardinality(1..Len(s)) = IF 1 > Len(s) THEN 0 ELSE Len(s) - 1 + 1
    BY <2>1, FS_Interval
  <2> QED
    BY <2>1, <2>2
<1>4. ASSUME NEW n \in 1..Len(s)
      PROVE  <<n, Visit(s[n])>> \in (1..Cardinality(Entities)) \X Visits
  <2>1. n \in 1..Cardinality(Entities)
    BY <1>2, <1>3
  <2>2. Visit(s[n]) \in {s[n].entity} \X (1..(Len(hints[s[n].entity]) + 1))
    BY DEF Visit
  <2>3. Visit(s[n]) \in Visits
    BY <2>2 DEF Visits
  <2> QED
    BY <2>1, <2>3
<1> QED
  BY <1>2, <1>3, <1>4 DEF Place, Places

\* A place says which calls there are.
LEMMA PlaceTellsCalls ==
  ASSUME NEW t, NEW s, Len(t) \in Nat, Len(s) \in Nat, Place(t) = Place(s)
  PROVE  SamePlace(t, s)
<1>1. \A n \in 1..Len(t) : n \in 1..Len(s) /\ Visit(t[n]) = Visit(s[n])
  <2> TAKE n \in 1..Len(t)
  <2>1. <<n, Visit(t[n])>> \in Place(s)
    BY DEF Place
  <2>2. PICK m \in 1..Len(s) : <<n, Visit(t[n])>> = <<m, Visit(s[m])>>
    BY <2>1 DEF Place
  <2> QED
    BY <2>2
<1>2. \A n \in 1..Len(s) : n \in 1..Len(t)
  <2> TAKE n \in 1..Len(s)
  <2>1. <<n, Visit(s[n])>> \in Place(t)
    BY DEF Place
  <2>2. PICK m \in 1..Len(t) : <<n, Visit(s[n])>> = <<m, Visit(t[m])>>
    BY <2>1 DEF Place
  <2> QED
    BY <2>2
<1>3. Len(t) = Len(s)
  BY <1>1, <1>2
<1> QED
  BY <1>1, <1>3 DEF SamePlace
-----------------------------------------------------------------------------

\* The calls inside the m-th are over, and it goes on to its next hint.
Passes(t, s, m) ==
  /\ Len(t) = m
  /\ \A i \in 1..(m - 1) : t[i] = s[i]
  /\ t[m].entity = s[m].entity /\ t[m].next = s[m].next + 1
  /\ s[m].next <= Len(hints[s[m].entity])

Begins(t, s) ==
  /\ Len(t) = Len(s) + 1
  /\ \A i \in 1..Len(s) : t[i] = s[i]
  /\ t[Len(t)].next = 1

\* A step of a walk, of either kind.
GoesOn ==
  /\ step # "done"
  /\ \/ step' = "done" /\ stack' \in {<< >>, stack}
     \/ \E m \in 1..Len(stack) : Passes(stack', stack, m)
     \/ Begins(stack', stack)
     \/ SamePlace(stack', stack) /\ Rank[step'] > Rank[step]

\* Each call is at one of its hints, or past the last.
HintsInv == \A n \in 1..Len(stack) : stack[n].next \in 1..(Len(hints[stack[n].entity]) + 1)

LEMMA GoingOnIsAfter ==
  ASSUME AreCalls(stack), GoesOn
  PROVE  After(stack', step', stack, step)
<1>1. ASSUME NEW m \in 1..Len(stack), Passes(stack', stack, m) PROVE Later(stack', stack)
  <2>1. m \in 1..Len(stack') /\ m <= Len(stack) + 1 /\ stack[m].next \in Nat
    BY <1>1 DEF Passes, AreCalls
  <2>2. \A i \in 1..(m - 1) : Visit(stack'[i]) = Visit(stack[i])
    BY <1>1 DEF Passes
  <2>3. stack'[m].entity = stack[m].entity /\ stack'[m].next > stack[m].next
    BY <1>1, <2>1 DEF Passes
  <2> QED
    BY <2>1, <2>2, <2>3 DEF Later
<1>2. ASSUME Begins(stack', stack) PROVE Later(stack', stack)
  <2> DEFINE n == Len(stack')
  <2>1. n \in 1..Len(stack') /\ n <= Len(stack) + 1 /\ ~(n <= Len(stack))
    BY <1>2 DEF Begins, AreCalls
  <2>2. \A i \in 1..(n - 1) : Visit(stack'[i]) = Visit(stack[i])
    <3> TAKE i \in 1..(n - 1)
    <3>1. i \in 1..Len(stack)
      BY <1>2 DEF Begins, AreCalls
    <3> QED
      BY <1>2, <3>1 DEF Begins
  <2> QED
    BY <2>1, <2>2 DEF Later
<1>3. CASE step' = "done"
  BY <1>3 DEF GoesOn, After
<1>4. CASE \E m \in 1..Len(stack) : Passes(stack', stack, m)
  BY <1>1, <1>4 DEF GoesOn, After
<1>5. CASE Begins(stack', stack)
  BY <1>2, <1>5 DEF GoesOn, After
<1>6. CASE SamePlace(stack', stack) /\ Rank[step'] > Rank[step]
  BY <1>6 DEF GoesOn, After
<1> QED
  BY <1>3, <1>4, <1>5, <1>6 DEF GoesOn

LEMMA GoingOnKeepsHints ==
  ASSUME FederationTypeOK, hints' = hints, AreCalls(stack), HintsInv, GoesOn,
         Len(stack') \in Nat, \A n \in 1..Len(stack') : stack'[n].entity \in Entities
  PROVE  HintsInv'
<1> SUFFICES ASSUME NEW n \in 1..Len(stack')
             PROVE  stack'[n].next \in 1..(Len(hints[stack'[n].entity]) + 1)
  BY DEF HintsInv
<1>1. Len(stack) \in Nat /\ Len(hints[stack'[n].entity]) \in Nat
  BY LenProperties DEF AreCalls, FederationTypeOK
<1>2. CASE stack' \in {<< >>, stack}
  <2>1. stack' = stack
    <3>1. ASSUME stack' = << >> PROVE FALSE
      <4>1. Len(stack') = 0
        BY <3>1, EmptySeq
      <4> QED
        BY <4>1
    <3> QED
      BY <1>2, <3>1
  <2> QED
    BY <2>1 DEF HintsInv
<1>3. ASSUME NEW m \in 1..Len(stack), Passes(stack', stack, m)
      PROVE  stack'[n].next \in 1..(Len(hints[stack'[n].entity]) + 1)
  <2>1. CASE n = m
    <3>1. /\ stack[m].next \in Nat /\ stack[m].next <= Len(hints[stack[m].entity])
          /\ stack'[n].next = stack[m].next + 1 /\ stack'[n].entity = stack[m].entity
      BY <1>3, <2>1 DEF Passes, AreCalls
    <3> QED
      BY <1>1, <3>1
  <2>2. CASE n # m
    <3>1. n \in 1..(m - 1) /\ n \in 1..Len(stack)
      BY <1>1, <1>3, <2>2 DEF Passes
    <3> QED
      BY <1>3, <3>1 DEF Passes, HintsInv
  <2> QED
    BY <2>1, <2>2
<1>4. CASE Begins(stack', stack)
  <2>1. CASE n = Len(stack')
    BY <1>1, <1>4, <2>1 DEF Begins
  <2>2. CASE n # Len(stack')
    <3>1. n \in 1..Len(stack)
      BY <1>1, <1>4, <2>2 DEF Begins
    <3> QED
      BY <1>4, <3>1 DEF Begins, HintsInv
  <2> QED
    BY <2>1, <2>2
<1>5. CASE SamePlace(stack', stack)
  <2>1. n \in 1..Len(stack) /\ stack'[n].entity = stack[n].entity /\ stack'[n].next = stack[n].next
    BY <1>5 DEF SamePlace, Visit
  <2> QED
    BY <2>1 DEF HintsInv
<1> QED
  BY <1>2, <1>3, <1>4, <1>5 DEF GoesOn

\* Nothing moved.
LEMMA StandingStill ==
  ASSUME stack' = stack, hints' = hints, HintsInv
  PROVE  HintsInv'
  BY DEF HintsInv

-----------------------------------------------------------------------------
(* The walk over every branch.                                             *)

LEMMA WalkGoesOn ==
  ASSUME SearchInv, Walk
  PROVE  GoesOn
<1> DEFINE last == Len(stack)
<1>1. /\ stack \in Seq(Frames) /\ last \in Nat
      /\ stack # << >> => last \in 1..last /\ Frame = stack[last]
      /\ step \in {"superior", "statement"} => stack # << >>
      /\ step = "enter" /\ stack # << >> => HasHint
      /\ step = "statement" => HasHint
  BY InnermostCall DEF SearchInv, Inv, CallsInv, FollowedInv
<1>2. ASSUME step # "done", stack # << >>, HasHint, stack' = Advanced(stack) PROVE GoesOn
  <2>1. Passes(stack', stack, last)
    BY <1>1, <1>2, AdvancedFrames DEF Passes, HasHint
  <2> QED
    BY <1>1, <1>2, <2>1 DEF GoesOn
<1>3. ASSUME step = "enter", CallFails PROVE GoesOn
  <2>1. CASE stack = << >>
    BY <1>3, <2>1 DEF CallFails, GoesOn
  <2>2. CASE stack # << >>
    BY <1>1, <1>2, <1>3, <2>2 DEF CallFails
  <2> QED
    BY <2>1, <2>2
<1>4. ASSUME step \in {"superior", "statement"}, HasHint, SkipHint PROVE GoesOn
  BY <1>1, <1>2, <1>4 DEF SkipHint
<1>5. ASSUME stack' = stack, step # "done", Rank[step'] > Rank[step] PROVE GoesOn
  BY <1>5 DEF GoesOn, SamePlace
<1>6. CASE EnterLoop
  BY <1>3, <1>6 DEF EnterLoop
<1>7. CASE Enter
  <2>1. CASE CallFails
    BY <1>3, <1>7, <2>1 DEF Enter
  <2>2. CASE ~CallFails
    <3>1. stack' = Append(stack, [entity |-> target, next |-> 1]) /\ step = "enter"
      BY <1>7, <2>2 DEF Enter, BeginCall
    <3>2. [entity |-> target, next |-> 1] \in Frames
      BY DEF Frames, SearchInv, Inv, TypeOK
    <3>3. Begins(stack', stack)
      BY <1>1, <3>1, <3>2, AppendProperties DEF Begins
    <3> QED
      BY <3>1, <3>3 DEF GoesOn
  <2> QED
    BY <2>1, <2>2
<1>8. CASE AskSuperior
  <2>1. CASE SkipHint
    BY <1>4, <1>8, <2>1 DEF AskSuperior
  <2>2. CASE ~SkipHint
    <3>1. stack' = stack /\ step = "superior" /\ step' = "statement"
      BY <1>8, <2>2 DEF AskSuperior
    <3> QED
      BY <1>5, <3>1 DEF Rank
  <2> QED
    BY <2>1, <2>2
<1>9. CASE AskStatement
  <2>1. CASE SkipHint
    BY <1>1, <1>4, <1>9, <2>1 DEF AskStatement
  <2>2. CASE ~SkipHint
    <3>1. stack' = stack /\ step = "statement" /\ step' = "enter"
      BY <1>9, <2>2 DEF AskStatement
    <3> QED
      BY <1>5, <3>1 DEF Rank
  <2> QED
    BY <2>1, <2>2
<1>10. CASE Return
  <2>1. CASE last = 1
    BY <1>10, <2>1 DEF Return, GoesOn
  <2>2. CASE last # 1
    <3>1. stack' = Advanced(Front(stack)) /\ step = "superior" /\ stack # << >> /\ last \in 1..last
      BY <1>1, <1>10, <2>2 DEF Return
    <3>2. /\ Front(stack) \in Seq(Frames) /\ Len(Front(stack)) = last - 1
          /\ \A i \in 1..(last - 1) : Front(stack)[i] = stack[i]
      BY <1>1, <3>1, FrontOf
    <3>3. last - 1 \in 1..last /\ last - 1 \in 1..(last - 1) /\ Front(stack) # << >>
      BY <1>1, <2>2, <3>1, <3>2, EmptySeq
    <3>4. stack[last - 1].next <= Len(hints[stack[last - 1].entity])
      BY <3>3 DEF SearchInv, FollowedInv
    <3>5. Passes(stack', stack, last - 1)
      <4>1. /\ Len(stack') = last - 1
            /\ \A i \in 1..(last - 1 - 1) : stack'[i] = Front(stack)[i]
            /\ stack'[last - 1].entity = Front(stack)[last - 1].entity
            /\ stack'[last - 1].next = Front(stack)[last - 1].next + 1
        BY <3>1, <3>2, <3>3, AdvancedFrames
      <4>2. \A i \in 1..(last - 1 - 1) : stack'[i] = stack[i]
        BY <1>1, <3>2, <4>1
      <4>3. Front(stack)[last - 1] = stack[last - 1]
        BY <3>2, <3>3
      <4> QED
        BY <3>4, <4>1, <4>2, <4>3 DEF Passes
    <3> QED
      BY <3>1, <3>3, <3>5 DEF GoesOn
  <2> QED
    BY <2>1, <2>2
<1> QED
  BY <1>6, <1>7, <1>8, <1>9, <1>10 DEF Walk

LEMMA SearchedCalls ==
  ASSUME SearchInv
  PROVE  /\ FederationTypeOK /\ AreCalls(stack)
         /\ \A n \in 1..Len(stack) : stack[n].entity \in Entities
         /\ \A n, m \in 1..Len(stack) : stack[n].entity = stack[m].entity => n = m
  BY InnermostCall DEF SearchInv, Inv, TypeOK, CallsInv, AreCalls

LEMMA HintsInvCorrect == Spec => []HintsInv
<1>1. Init => HintsInv
  <2>1. Len(<< >>) = 0
    BY EmptySeq
  <2> QED
    BY <2>1 DEF Init, HintsInv
<1>2. SearchInv /\ SearchInv' /\ HintsInv /\ [Next]_vars => HintsInv'
  <2> SUFFICES ASSUME SearchInv, SearchInv', HintsInv, [Next]_vars PROVE HintsInv'
    OBVIOUS
  <2>1. hints' = hints
    BY SearchedCalls, WorldKept
  <2>2. Len(stack') \in Nat /\ \A n \in 1..Len(stack') : stack'[n].entity \in Entities
    <3>1. stack' \in Seq(Frames)
      BY DEF SearchInv, Inv, TypeOK, Frames
    <3>2. \A n \in 1..Len(stack') : stack'[n] \in Frames
      BY <3>1, ElementOfSeq
    <3> QED
      BY <3>1, <3>2, LenProperties DEF Frames
  <2>3. CASE Walk
    BY <2>1, <2>2, <2>3, WalkGoesOn, SearchedCalls, GoingOnKeepsHints
  <2>4. CASE UNCHANGED walkVars
    BY <2>1, <2>4, StandingStill DEF walkVars
  <2> QED
    BY <2>3, <2>4 DEF Next, vars
<1> QED
  BY <1>1, <1>2, SearchInvCorrect, PTL DEF Spec

\* The recursion of discover_all_recursive is never deeper than there are
\* entities, and there are finitely many places at which it can be.
THEOREM RecursionIsBounded ==
  Spec => [](/\ Len(stack) <= Cardinality(Entities)
             /\ Place(stack) \in Places /\ IsFiniteSet(Places))
<1>1. SearchInv /\ HintsInv => /\ Len(stack) <= Cardinality(Entities)
                               /\ Place(stack) \in Places /\ IsFiniteSet(Places)
  BY SearchedCalls, CallsAreAtAPlace, PlacesAreFinite DEF HintsInv, AreCalls
<1> QED
  BY <1>1, SearchInvCorrect, HintsInvCorrect, PTL

\* No step of it leads back to a place it was at, whatever fails or changes.
THEOREM EveryStepGoesOn == Spec => [][After(stack', step', stack, step)]_walkVars
<1>1. SearchInv /\ [Next]_vars => [After(stack', step', stack, step)]_walkVars
  <2> SUFFICES ASSUME SearchInv, [Next]_vars, ~UNCHANGED walkVars
               PROVE  After(stack', step', stack, step)
    OBVIOUS
  <2>1. Walk
    BY DEF Next, vars
  <2> QED
    BY <2>1, WalkGoesOn, SearchedCalls, GoingOnIsAfter
<1> QED
  BY <1>1, SearchInvCorrect, PTL DEF Spec
-----------------------------------------------------------------------------
(* The walk towards an anchor.                                             *)

\* The calls follow hints that are there, each at an entity of its own.
AnchoredFollowedInv ==
  /\ \A n \in 1..(Len(stack) - 1) : stack[n].next <= Len(hints[stack[n].entity])
  /\ step \in {"enter", "statement"} /\ stack # << >> => HasHint
  /\ \A n, m \in 1..Len(stack) : stack[n].entity = stack[m].entity => n = m

WalkInv == AnchoredInv /\ AnchoredFollowedInv

\* The caller of the innermost of some calls goes on to its next hint.
LEMMA CallersGoOn ==
  ASSUME WalkInv, step # "done", NEW m \in Nat,
         NEW callers \in Seq(AnchoredFrames), Len(callers) = m, m <= Len(stack),
         \A i \in 1..m : callers[i] = stack[i],
         m > 0 => stack[m].next <= Len(hints[stack[m].entity]),
         Fails(callers)
  PROVE  GoesOn
<1>1. CASE callers = << >>
  BY <1>1 DEF Fails, GoesOn
<1>2. CASE callers # << >>
  <2>1. Len(stack) \in Nat
    BY AnchoredInnermostCall DEF WalkInv
  <2>2. m >= 1 /\ m \in 1..m /\ m \in 1..Len(stack) /\ stack' = Advanced(callers)
    BY <1>2, <2>1, EmptySeq DEF Fails
  <2>3. /\ Len(stack') = m
        /\ \A i \in 1..(m - 1) : stack'[i] = callers[i]
        /\ stack'[m].entity = callers[m].entity
        /\ stack'[m].next = callers[m].next + 1
    BY <1>2, <2>2, AdvancedAnchoredFrames
  <2>4. Passes(stack', stack, m)
    <3>1. \A i \in 1..(m - 1) : stack'[i] = stack[i]
      BY <2>2, <2>3
    <3>2. callers[m] = stack[m] /\ stack[m].next <= Len(hints[stack[m].entity])
      BY <2>2
    <3> QED
      BY <2>3, <3>1, <3>2 DEF Passes
  <2> QED
    BY <2>2, <2>4 DEF GoesOn
<1> QED
  BY <1>1, <1>2

LEMMA AnchoredWalkGoesOn ==
  ASSUME WalkInv, AnchoredWalk
  PROVE  GoesOn
<1> DEFINE last == Len(stack)
<1>1. /\ stack \in Seq(AnchoredFrames) /\ last \in Nat
      /\ stack # << >> => last \in 1..last /\ Frame = stack[last]
      /\ step \in {"superior", "statement"} => stack # << >>
      /\ step \in {"enter", "statement"} /\ stack # << >> => HasHint
  BY AnchoredInnermostCall DEF WalkInv, AnchoredInv, AnchoredCallsInv, AnchoredFollowedInv
<1>2. ASSUME step = "enter", Fails(stack) PROVE GoesOn
  <2>1. last > 0 => stack # << >>
    BY EmptySeq
  <2>2. last > 0 => stack[last].next <= Len(hints[stack[last].entity])
    BY <1>1, <1>2, <2>1 DEF HasHint
  <2> QED
    BY <1>1, <1>2, <2>2, CallersGoOn
<1>3. ASSUME step = "superior", Fails(Front(stack)) PROVE GoesOn
  <2>1. stack # << >> /\ last >= 1
    BY <1>1, <1>3
  <2>2. /\ Front(stack) \in Seq(AnchoredFrames) /\ Len(Front(stack)) = last - 1
        /\ \A i \in 1..(last - 1) : Front(stack)[i] = stack[i]
    BY <1>1, <2>1, FrontOf
  <2>3. last - 1 > 0 => stack[last - 1].next <= Len(hints[stack[last - 1].entity])
    <3>1. last - 1 > 0 => last - 1 \in 1..(last - 1)
      BY <1>1
    <3> QED
      BY <3>1 DEF WalkInv, AnchoredFollowedInv
  <2>4. last - 1 \in Nat /\ last - 1 <= last
    BY <1>1, <2>1
  <2> QED
    BY <1>3, <2>2, <2>3, <2>4, CallersGoOn
<1>4. ASSUME step \in {"superior", "statement"}, HasHint, AnchoredSkipHint PROVE GoesOn
  <2>1. stack # << >> /\ stack' = Advanced(stack)
    BY <1>1, <1>4 DEF AnchoredSkipHint
  <2>2. Passes(stack', stack, last)
    BY <1>1, <1>4, <2>1, AdvancedAnchoredFrames DEF Passes, HasHint
  <2> QED
    BY <1>1, <1>4, <2>1, <2>2 DEF GoesOn
<1>5. ASSUME stack' = stack, step # "done", Rank[step'] > Rank[step] PROVE GoesOn
  BY <1>5 DEF GoesOn, SamePlace
<1>6. CASE Begin
  BY <1>5, <1>6 DEF Begin, BeginFails, Rank
<1>7. CASE AnchoredEnter
  <2>1. step = "enter"
    BY <1>7 DEF AnchoredEnter
  <2>2. CASE Fails(stack)
    BY <1>2, <2>1, <2>2
  <2>3. CASE step' = "found" /\ stack' = stack
    BY <1>5, <2>1, <2>3 DEF Rank
  <2>4. CASE stack' = Append(stack, [entity |-> target, next |-> 1, base |-> 0])
    <3>1. [entity |-> target, next |-> 1, base |-> 0] \in AnchoredFrames
      BY DEF AnchoredFrames, WalkInv, AnchoredInv, AnchoredTypeOK
    <3>2. Begins(stack', stack)
      BY <1>1, <2>4, <3>1, AppendProperties DEF Begins
    <3> QED
      BY <2>1, <3>2 DEF GoesOn
  <2> QED
    BY <1>7, <2>2, <2>3, <2>4 DEF AnchoredEnter
<1>8. CASE AnchoredEnterLoop
  BY <1>2, <1>8 DEF AnchoredEnterLoop
<1>9. CASE AnchoredAskSuperior
  <2>1. step = "superior" /\ HasHint
    BY <1>9 DEF AnchoredAskSuperior
  <2>2. CASE AnchoredSkipHint
    BY <1>4, <2>1, <2>2
  <2>3. CASE Fails(Front(stack))
    BY <1>3, <2>1, <2>3
  <2>4. CASE step' = "statement" /\ stack' = stack
    BY <1>5, <2>1, <2>4 DEF Rank
  <2> QED
    BY <1>9, <2>2, <2>3, <2>4 DEF AnchoredAskSuperior
<1>10. CASE AnchoredAskStatement
  <2>1. step = "statement" /\ stack # << >> /\ HasHint
    BY <1>1, <1>10 DEF AnchoredAskStatement
  <2>2. CASE AnchoredSkipHint
    BY <1>4, <2>1, <2>2
  <2>3. CASE ~AnchoredSkipHint
    <3>1. step' = "enter" /\ stack' = [stack EXCEPT ![last].base = Len(chain)]
      BY <1>10, <2>3 DEF AnchoredAskStatement
    <3>2. SamePlace(stack', stack)
      <4> DEFINE f == [stack[last] EXCEPT !.base = Len(chain)]
      <4>1. /\ stack[last] \in AnchoredFrames /\ last \in 1..last
            /\ chain \in Seq(Jwts) /\ Len(chain) \in Nat
        BY <1>1, <2>1, ElementOfSeq, AnchoredInnermostCall DEF WalkInv
      <4>2. f \in AnchoredFrames /\ f.entity = stack[last].entity /\ f.next = stack[last].next
        BY <4>1 DEF AnchoredFrames
      <4>3. stack' = [stack EXCEPT ![last] = f]
        BY <3>1
      <4> HIDE DEF f
      <4>4. /\ Len(stack') = last /\ stack'[last] = f
            /\ \A i \in 1..last : i # last => stack'[i] = stack[i]
        BY <1>1, <4>1, <4>2, <4>3, ExceptSeq
      <4>5. \A i \in 1..last : Visit(stack'[i]) = Visit(stack[i])
        BY <4>2, <4>4 DEF Visit
      <4> QED
        BY <4>4, <4>5 DEF SamePlace
    <3> QED
      BY <2>1, <3>1, <3>2 DEF GoesOn, Rank
  <2> QED
    BY <2>2, <2>3
<1>11. CASE NoHintLeft
  BY <1>3, <1>11 DEF NoHintLeft
<1>12. CASE Authenticate
  BY <1>12 DEF Authenticate, GoesOn
<1> QED
  BY <1>6, <1>7, <1>8, <1>9, <1>10, <1>11, <1>12 DEF AnchoredWalk

\* Calls begin at entities that were not visited, and only then.
LEMMA CallsBeginAfresh ==
  ASSUME WalkInv, AnchoredWalk, Begins(stack', stack)
  PROVE  /\ step = "enter" /\ target \notin visited /\ step' = "superior"
         /\ stack'[Len(stack) + 1].entity = target
<1> USE DEF Begins
<1>1. stack \in Seq(AnchoredFrames) /\ Len(stack) \in Nat
  BY AnchoredInnermostCall DEF WalkInv
<1>2. Len(stack') = Len(stack) + 1
  OBVIOUS
<1>3. stack' # stack /\ stack' # << >>
  <2>1. Len(<< >>) = 0
    BY EmptySeq
  <2> QED
    BY <1>1, <1>2, <2>1
<1>4. ASSUME NEW callers \in Seq(AnchoredFrames), Len(callers) <= Len(stack), Fails(callers)
      PROVE  FALSE
  <2>1. stack' = Advanced(callers) /\ callers # << >>
    BY <1>3, <1>4 DEF Fails
  <2>2. Len(stack') = Len(callers) /\ Len(callers) \in Nat
    BY <1>4, <2>1, AdvancedAnchoredFrames, LenProperties
  <2> QED
    BY <1>1, <1>2, <1>4, <2>2
<1>5. ASSUME Fails(Front(stack)), stack # << >> PROVE FALSE
  <2>1. Front(stack) \in Seq(AnchoredFrames) /\ Len(Front(stack)) = Len(stack) - 1
    BY <1>1, <1>5, FrontOf
  <2> QED
    BY <1>1, <1>4, <1>5, <2>1
<1>6. ASSUME AnchoredSkipHint, stack # << >> PROVE FALSE
  <2>1. Len(stack') = Len(stack)
    BY <1>1, <1>6, AdvancedAnchoredFrames DEF AnchoredSkipHint
  <2> QED
    BY <1>1, <1>2, <2>1
<1>7. step \in {"superior", "statement"} => stack # << >>
  BY DEF WalkInv, AnchoredInv, AnchoredCallsInv
<1>8. ~Begin /\ ~Authenticate
  BY <1>3 DEF Begin, Authenticate
<1>9. ~AnchoredEnterLoop
  BY <1>1, <1>4 DEF AnchoredEnterLoop
<1>10. ~AnchoredAskSuperior /\ ~NoHintLeft
  BY <1>3, <1>5, <1>6, <1>7 DEF AnchoredAskSuperior, NoHintLeft
<1>11. ~AnchoredAskStatement
  <2>1. ASSUME stack' = [stack EXCEPT ![Len(stack)].base = Len(chain)] PROVE FALSE
    <3>1. DOMAIN stack' = DOMAIN stack
      BY <2>1
    <3>2. DOMAIN stack = 1..Len(stack)
      BY <1>1, LenProperties
    <3>3. stack' \in [1..Len(stack) -> {stack'[i] : i \in 1..Len(stack)}]
      BY <2>1, <3>1, <3>2
    <3>4. Len(stack') = Len(stack)
      BY <1>1, <3>3, SeqDef, LenProperties
    <3> QED
      BY <1>1, <1>2, <3>4
  <2> QED
    BY <1>6, <1>7, <2>1 DEF AnchoredAskStatement
<1>12. AnchoredEnter
  BY <1>8, <1>9, <1>10, <1>11 DEF AnchoredWalk
<1>13. ~Fails(stack)
  BY <1>1, <1>4
<1>14. /\ step = "enter" /\ target \notin visited /\ step' = "superior"
       /\ stack' = Append(stack, [entity |-> target, next |-> 1, base |-> 0])
  BY <1>3, <1>12, <1>13 DEF AnchoredEnter
<1> QED
  BY <1>1, <1>14, AppendProperties
LEMMA WalkKeepsFollowed ==
  ASSUME WalkInv, AnchoredInv', hints' = hints, AnchoredWalk
  PROVE  AnchoredFollowedInv'
<1> DEFINE last == Len(stack)
<1>1. /\ stack \in Seq(AnchoredFrames) /\ last \in Nat
      /\ stack # << >> => last \in 1..last /\ Frame = stack[last]
      /\ step \in {"enter", "statement"} /\ stack # << >> => HasHint
      /\ \A n \in 1..(last - 1) : stack[n].next <= Len(hints[stack[n].entity])
      /\ \A n, k \in 1..last : stack[n].entity = stack[k].entity => n = k
  BY AnchoredInnermostCall DEF WalkInv, AnchoredFollowedInv
<1>2. GoesOn
  BY AnchoredWalkGoesOn
<1>3. stack' \in Seq(AnchoredFrames) /\ Len(stack') \in Nat
  BY LenProperties DEF AnchoredInv, AnchoredTypeOK, AnchoredFrames
<1>4. CASE stack' = << >>
  <2>1. Len(stack') = 0
    BY <1>4, EmptySeq
  <2> QED
    BY <1>4, <2>1 DEF AnchoredFollowedInv
<1>5. ASSUME NEW m \in 1..last, Passes(stack', stack, m), step' \notin {"enter", "statement"}
      PROVE  AnchoredFollowedInv'
  <2>1. m \in Nat /\ m <= last /\ Len(stack') = m
    BY <1>1, <1>5 DEF Passes
  <2>2. \A n \in 1..m : n \in 1..last /\ stack'[n].entity = stack[n].entity
    <3> TAKE n \in 1..m
    <3>1. n = m \/ n \in 1..(m - 1)
      BY <2>1
    <3> QED
      BY <1>1, <1>5, <2>1, <3>1 DEF Passes
  <2>3. \A n \in 1..(m - 1) : stack'[n] = stack[n] /\ n \in 1..(last - 1)
    BY <1>1, <1>5, <2>1 DEF Passes
  <2> QED
    BY <1>1, <1>5, <2>1, <2>2, <2>3 DEF AnchoredFollowedInv
<1>6. CASE Begins(stack', stack)
  <2>1. /\ step = "enter" /\ target \notin visited /\ step' = "superior"
        /\ stack'[last + 1].entity = target
    BY <1>6, CallsBeginAfresh
  <2>2. \A n \in 1..last : stack'[n] = stack[n] /\ stack[n].entity \in visited
    BY <1>6 DEF Begins, WalkInv, AnchoredInv, AnchoredCallsInv
  <2>3. Len(stack') = last + 1
    BY <1>6 DEF Begins
  <2>4. \A n \in 1..last : stack'[n].next <= Len(hints[stack'[n].entity])
    <3> TAKE n \in 1..last
    <3>1. n = last \/ n \in 1..(last - 1)
      BY <1>1
    <3>2. stack # << >> /\ HasHint
      BY <1>1, <2>1, EmptySeq
    <3>3. n = last => stack[n].next <= Len(hints[stack[n].entity])
      BY <1>1, <3>2 DEF HasHint
    <3> QED
      BY <1>1, <2>2, <3>1, <3>3
  <2>5. \A n \in 1..(last + 1) : n = last + 1 \/ n \in 1..last
    BY <1>1
  <2>6. \A n, k \in 1..(last + 1) : stack'[n].entity = stack'[k].entity => n = k
    BY <1>1, <2>1, <2>2, <2>5
  <2>7. last + 1 - 1 = last
    BY <1>1
  <2> QED
    BY <2>1, <2>3, <2>4, <2>6, <2>7 DEF AnchoredFollowedInv
<1>7. ASSUME SamePlace(stack', stack), stack' # << >>,
             step' \in {"enter", "statement"} => HasHint
      PROVE  AnchoredFollowedInv'
  <2>1. Len(stack') = last
    BY <1>7 DEF SamePlace
  <2>2. \A n \in 1..last :
          stack'[n].entity = stack[n].entity /\ stack'[n].next = stack[n].next
    BY <1>7 DEF SamePlace, Visit
  <2>3. \A n \in 1..(last - 1) : n \in 1..last
    BY <1>1
  <2>4. \A n \in 1..(last - 1) : stack'[n].next <= Len(hints[stack'[n].entity])
    BY <1>1, <2>2, <2>3
  <2>5. \A n, k \in 1..last : stack'[n].entity = stack'[k].entity => n = k
    BY <1>1, <2>2
  <2>6. HasHint => HasHint'
    <3>1. last \in 1..last /\ stack # << >>
      BY <1>1, <1>3, <1>7, <2>1, EmptySeq
    <3>2. Frame = stack[last] /\ Frame' = stack'[last]
      BY <1>1, <2>1, <3>1 DEF Frame, Last
    <3> QED
      BY <2>2, <3>1, <3>2 DEF HasHint
  <2> QED
    BY <1>7, <2>1, <2>4, <2>5, <2>6 DEF AnchoredFollowedInv
<1>8. ASSUME NEW m \in 1..last, Passes(stack', stack, m) PROVE step' \notin {"enter", "statement"}
  <2>1. ASSUME stack' = stack PROVE FALSE
    <3>1. stack[m].next + 1 = stack[m].next /\ stack[m] \in AnchoredFrames
      BY <1>1, <1>8, <2>1, ElementOfSeq DEF Passes
    <3>2. stack[m].next \in Nat
      BY <3>1 DEF AnchoredFrames
    <3> QED
      BY <3>1, <3>2
  <2>2. ASSUME stack' = [stack EXCEPT ![last].base = Len(chain)] PROVE FALSE
    <3>1. stack[m] \in AnchoredFrames
      BY <1>1, ElementOfSeq
    <3>2. stack[m].next \in Nat /\ stack'[m].next = stack[m].next
      <4>1. DOMAIN stack = 1..last
        BY <1>1, LenProperties
      <4>2. CASE m = last
        <5>1. stack'[m] = [stack[m] EXCEPT !.base = Len(chain)]
          BY <2>2, <4>1, <4>2
        <5> QED
          BY <3>1, <5>1 DEF AnchoredFrames
      <4>3. CASE m # last
        <5>1. stack'[m] = stack[m]
          BY <2>2, <4>1, <4>3
        <5> QED
          BY <3>1, <5>1 DEF AnchoredFrames
      <4> QED
        BY <4>2, <4>3
    <3> QED
      BY <1>8, <3>2 DEF Passes
  <2>3. stack # << >>
    BY <1>1, <1>8, EmptySeq
  <2> QED
    BY <2>1, <2>2, <2>3
    DEF AnchoredWalk, Begin, BeginFails, AnchoredEnter, AnchoredEnterLoop, AnchoredAskSuperior,
        AnchoredAskStatement, AnchoredSkipHint, NoHintLeft, Fails, Authenticate
<1>9. ASSUME SamePlace(stack', stack), stack' # << >>, step' \in {"enter", "statement"}
      PROVE  HasHint
  <2>1. stack # << >>
    <3>1. Len(stack') # 0 /\ Len(stack) # 0
      BY <1>3, <1>9, EmptySeq DEF SamePlace
    <3>2. Len(<< >>) = 0
      BY EmptySeq
    <3> QED
      BY <3>1, <3>2
  <2>2. step = "start" => stack = << >>
    BY DEF WalkInv, AnchoredInv, AnchoredCallsInv
  <2> QED
    BY <1>1, <1>9, <2>1, <2>2
    DEF AnchoredWalk, Begin, BeginFails, AnchoredEnter, AnchoredEnterLoop, AnchoredAskSuperior,
        AnchoredAskStatement, AnchoredSkipHint, NoHintLeft, Fails, Authenticate
<1>10. CASE stack' = stack
  BY <1>4, <1>7, <1>9, <1>10 DEF SamePlace
<1> QED
  BY <1>2, <1>4, <1>5, <1>6, <1>7, <1>8, <1>9, <1>10 DEF GoesOn

LEMMA WalkInvCorrect == AnchoredSpec => []WalkInv
<1>1. AnchoredInit => AnchoredFollowedInv
  <2>1. Len(<< >>) = 0
    BY EmptySeq
  <2> QED
    BY <2>1 DEF AnchoredInit, AnchoredFollowedInv
<1>2. AnchoredInv /\ AnchoredInv' /\ AnchoredFollowedInv /\ [AnchoredNext]_anchoredVars
        => AnchoredFollowedInv'
  <2> SUFFICES ASSUME AnchoredInv, AnchoredInv', AnchoredFollowedInv, [AnchoredNext]_anchoredVars
               PROVE  AnchoredFollowedInv'
    OBVIOUS
  <2>1. hints' = hints
    BY AnchoredWorldKept DEF AnchoredInv, AnchoredTypeOK
  <2>2. CASE AnchoredWalk
    BY <2>1, <2>2, WalkKeepsFollowed DEF WalkInv
  <2>3. CASE UNCHANGED anchoredWalkVars
    BY <2>1, <2>3 DEF anchoredWalkVars, AnchoredFollowedInv, HasHint, Frame
  <2> QED
    BY <2>2, <2>3 DEF AnchoredNext, anchoredVars
<1> QED
  BY <1>1, <1>2, AnchoredInvCorrect, PTL DEF AnchoredSpec, WalkInv

LEMMA WalkedCalls ==
  ASSUME WalkInv
  PROVE  /\ FederationTypeOK /\ AreCalls(stack)
         /\ \A n \in 1..Len(stack) : stack[n].entity \in Entities
         /\ \A n, m \in 1..Len(stack) : stack[n].entity = stack[m].entity => n = m
  BY AnchoredInnermostCall
  DEF WalkInv, AnchoredInv, AnchoredTypeOK, AnchoredFollowedInv, AreCalls

LEMMA AnchoredHintsInvCorrect == AnchoredSpec => []HintsInv
<1>1. AnchoredInit => HintsInv
  <2>1. Len(<< >>) = 0
    BY EmptySeq
  <2> QED
    BY <2>1 DEF AnchoredInit, HintsInv
<1>2. WalkInv /\ WalkInv' /\ HintsInv /\ [AnchoredNext]_anchoredVars => HintsInv'
  <2> SUFFICES ASSUME WalkInv, WalkInv', HintsInv, [AnchoredNext]_anchoredVars
               PROVE  HintsInv'
    OBVIOUS
  <2>1. hints' = hints
    BY WalkedCalls, AnchoredWorldKept
  <2>2. Len(stack') \in Nat /\ \A n \in 1..Len(stack') : stack'[n].entity \in Entities
    <3>1. stack' \in Seq(AnchoredFrames)
      BY DEF WalkInv, AnchoredInv, AnchoredTypeOK, AnchoredFrames
    <3>2. \A n \in 1..Len(stack') : stack'[n] \in AnchoredFrames
      BY <3>1, ElementOfSeq
    <3> QED
      BY <3>1, <3>2, LenProperties DEF AnchoredFrames
  <2>3. CASE AnchoredWalk
    BY <2>1, <2>2, <2>3, AnchoredWalkGoesOn, WalkedCalls, GoingOnKeepsHints
  <2>4. CASE UNCHANGED anchoredWalkVars
    BY <2>1, <2>4, StandingStill DEF anchoredWalkVars
  <2> QED
    BY <2>3, <2>4 DEF AnchoredNext, anchoredVars
<1> QED
  BY <1>1, <1>2, WalkInvCorrect, PTL DEF AnchoredSpec

\* The same of discover_recursive: its depth is bounded ...
THEOREM AnchoredRecursionIsBounded ==
  AnchoredSpec => [](/\ Len(stack) <= Cardinality(Entities)
                     /\ Place(stack) \in Places /\ IsFiniteSet(Places))
<1>1. WalkInv /\ HintsInv => /\ Len(stack) <= Cardinality(Entities)
                             /\ Place(stack) \in Places /\ IsFiniteSet(Places)
  BY WalkedCalls, CallsAreAtAPlace, PlacesAreFinite DEF HintsInv, AreCalls
<1> QED
  BY <1>1, WalkInvCorrect, AnchoredHintsInvCorrect, PTL

\* ... and none of its steps leads back to a place it was at.
THEOREM EveryAnchoredStepGoesOn ==
  AnchoredSpec => [][After(stack', step', stack, step)]_anchoredWalkVars
<1>1. WalkInv /\ [AnchoredNext]_anchoredVars
        => [After(stack', step', stack, step)]_anchoredWalkVars
  <2> SUFFICES ASSUME WalkInv, [AnchoredNext]_anchoredVars, ~UNCHANGED anchoredWalkVars
               PROVE  After(stack', step', stack, step)
    OBVIOUS
  <2>1. AnchoredWalk
    BY DEF AnchoredNext, anchoredVars
  <2> QED
    BY <2>1, AnchoredWalkGoesOn, WalkedCalls, GoingOnIsAfter
<1> QED
  BY <1>1, WalkInvCorrect, PTL DEF AnchoredSpec
=============================================================================
