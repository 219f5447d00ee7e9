------------------------ MODULE MetadataPolicyProofs ------------------------
(***************************************************************************)
(* Theorems about MetadataPolicy, for chains of any length and policies    *)
(* with any operators: the resolved policy is valid and demands exactly    *)
(* what the policies of the chain demand, and applying it delivers that.   *)
(***************************************************************************)
EXTENDS MetadataPolicy, FiniteSetTheorems, SequenceTheorems, TLAPS

-----------------------------------------------------------------------------
(* Lemmas about the operators on sequences.                                *)

\* SetToSeq lists the members of a finite set.
LEMMA SetToSeqLists ==
  ASSUME NEW S, IsFiniteSet(S)
  PROVE  SetToSeq(S) \in Seq(S) /\ ToSet(SetToSeq(S)) = S
<1> DEFINE n == Cardinality(S)
           s == SetToSeq(S)
<1>1. n \in Nat /\ ExistsBijection(1..n, S)
  BY FS_CardinalityType
<1>2. \E f \in [1..n -> S] : IsInjective(f)
  BY <1>1, Zenon DEF ExistsBijection, Bijection, Injection
<1>3. s \in [1..n -> S] /\ IsInjective(s)
  BY <1>2, Zenon DEF SetToSeq
<1>4. s \in Injection(1..n, S)
  BY <1>3, Zenon DEF Injection
<1>5. IsFiniteSet(1..n) /\ Cardinality(1..n) = n
  <2>1. 1 \in Int /\ n \in Int /\ (1 > n => n = 0)
    BY <1>1
  <2>2. IsFiniteSet(1..n) /\ Cardinality(1..n) = IF 1 > n THEN 0 ELSE n - 1 + 1
    BY <2>1, FS_Interval
  <2> QED
    BY <1>1, <2>1, <2>2
<1>6. s \in Surjection(1..n, S)
  BY <1>4, <1>5, FS_Injection
<1>7. \A v \in S : \E i \in 1..n : s[i] = v
  BY <1>6, Zenon DEF Surjection
<1>8. DOMAIN s = 1..n
  BY <1>3, Zenon
<1>9. s \in Seq(S)
  <2> HIDE DEF s, n
  <2> QED
    BY <1>1, <1>3
<1>10. ToSet(s) = S
  BY <1>3, <1>7, <1>8, Zenon DEF ToSet
<1> QED
  BY <1>9, <1>10

\* Appending puts the members of both sequences together.
LEMMA AppendedHoldsBoth ==
  ASSUME NEW S, NEW s \in Seq(S), NEW t \in Seq(S)
  PROVE  s \o t \in Seq(S) /\ ToSet(s \o t) = ToSet(s) \cup ToSet(t)
<1> DEFINE both == s \o t
<1>1. both \in Seq(S) /\ Len(both) = Len(s) + Len(t)
  OBVIOUS
<1>2. \A i \in 1..Len(s) : both[i] = s[i]
  OBVIOUS
<1>3. \A i \in 1..Len(t) : both[Len(s) + i] = t[i]
  OBVIOUS
<1>4. DOMAIN s = 1..Len(s) /\ DOMAIN t = 1..Len(t) /\ DOMAIN both = 1..(Len(s) + Len(t))
  BY <1>1
<1>5. Len(s) \in Nat /\ Len(t) \in Nat
  OBVIOUS
<1> HIDE DEF both
<1>6. ToSet(both) \subseteq ToSet(s) \cup ToSet(t)
  <2> SUFFICES ASSUME NEW i \in 1..(Len(s) + Len(t))
               PROVE  both[i] \in ToSet(s) \cup ToSet(t)
    BY <1>4 DEF ToSet
  <2>1. CASE i \in 1..Len(s)
    BY <1>2, <1>4, <2>1 DEF ToSet
  <2>2. CASE i \notin 1..Len(s)
    <3>1. i - Len(s) \in 1..Len(t) /\ i = Len(s) + (i - Len(s))
      BY <1>5, <2>2
    <3>2. both[i] = t[i - Len(s)]
      BY <1>3, <3>1
    <3> QED
      BY <1>4, <3>1, <3>2 DEF ToSet
  <2> QED
    BY <2>1, <2>2
<1>7. ToSet(s) \subseteq ToSet(both)
  <2> SUFFICES ASSUME NEW i \in 1..Len(s)
               PROVE  s[i] \in ToSet(both)
    BY <1>4 DEF ToSet
  <2>1. i \in DOMAIN both
    BY <1>4, <1>5
  <2> QED
    BY <1>2, <2>1, Zenon DEF ToSet
<1>8. ToSet(t) \subseteq ToSet(both)
  <2> SUFFICES ASSUME NEW i \in 1..Len(t)
               PROVE  t[i] \in ToSet(both)
    BY <1>4 DEF ToSet
  <2>1. Len(s) + i \in DOMAIN both
    BY <1>4, <1>5
  <2> QED
    BY <1>3, <2>1, Zenon DEF ToSet
<1> QED
  BY <1>1, <1>6, <1>7, <1>8 DEF both

\* The n-th of a finite set of natural numbers is the one with n up to it.
LEMMA EveryRankIsTaken ==
  ASSUME NEW m \in Nat, NEW P \in SUBSET (1..m)
  PROVE  /\ Cardinality(P) \in Nat
         /\ \A i \in P : Cardinality({j \in P : j <= i}) \in 1..Cardinality(P)
         /\ \A n \in 1..Cardinality(P) :
              \E i \in P : Cardinality({j \in P : j <= i}) = n
<1> DEFINE k == Cardinality(P)
           upto(i) == {j \in P : j <= i}
           rank == [i \in P |-> Cardinality(upto(i))]
<1>1. IsFiniteSet(P)
  <2>1. IsFiniteSet(1..m)
    BY FS_Interval
  <2> QED
    BY <2>1, FS_Subset
<1>2. k \in Nat
  BY <1>1, FS_CardinalityType
<1>3. ASSUME NEW i \in P
      PROVE  /\ IsFiniteSet(upto(i)) /\ Cardinality(upto(i)) \in Nat
             /\ Cardinality(upto(i)) <= k /\ Cardinality(upto(i)) # 0
  <2>1. upto(i) \in SUBSET P /\ i \in upto(i)
    OBVIOUS
  <2>2. IsFiniteSet(upto(i)) /\ Cardinality(upto(i)) <= k
    BY <1>1, <2>1, FS_Subset
  <2>3. Cardinality(upto(i)) \in Nat
    BY <2>2, FS_CardinalityType
  <2>4. Cardinality(upto(i)) # 0
    BY <2>1, <2>2, FS_EmptySet
  <2> QED
    BY <2>2, <2>3, <2>4
<1>4. ASSUME NEW i \in P, NEW j \in P, i < j
      PROVE  Cardinality(upto(i)) # Cardinality(upto(j))
  <2> \A h \in P : h \in Nat
    OBVIOUS
  <2>1. upto(i) \in SUBSET upto(j) /\ j \in upto(j) /\ j \notin upto(i)
    <3>1. \A h \in P : h <= i => h <= j
      BY <1>4
    <3>2. j <= j /\ ~(j <= i)
      BY <1>4
    <3> QED
      BY <3>1, <3>2, Zenon
  <2>2. Cardinality(upto(j)) = Cardinality(upto(i)) => upto(j) = upto(i)
    BY <1>3, <2>1, FS_Subset
  <2> QED
    BY <2>1, <2>2
<1>5. rank \in [P -> 1..k]
  <2>1. \A i \in P : Cardinality(upto(i)) \in 1..k
    BY <1>2, <1>3
  <2> QED
    BY <2>1
<1>6. IsInjective(rank)
  <2> SUFFICES ASSUME NEW i \in P, NEW j \in P, rank[i] = rank[j]
               PROVE  i = j
    BY DEF IsInjective
  <2>1. Cardinality(upto(i)) = Cardinality(upto(j))
    OBVIOUS
  <2>2. ~(i < j) /\ ~(j < i)
    BY <1>4, <2>1
  <2>3. i \in Nat /\ j \in Nat
    OBVIOUS
  <2> QED
    BY <2>2, <2>3
<1>7. IsFiniteSet(1..k) /\ Cardinality(1..k) = k
  <2>1. 1 \in Int /\ k \in Int /\ (1 > k => k = 0)
    BY <1>2
  <2>2. IsFiniteSet(1..k) /\ Cardinality(1..k) = IF 1 > k THEN 0 ELSE k - 1 + 1
    BY <2>1, FS_Interval
  <2> QED
    BY <1>2, <2>1, <2>2
<1>8. rank \in Injection(P, 1..k)
  BY <1>5, <1>6, Zenon DEF Injection
<1>9. rank \in Surjection(P, 1..k)
  BY <1>7, <1>8, FS_Injection
<1>10. \A n \in 1..k : \E i \in P : rank[i] = n
  BY <1>9, Zenon DEF Surjection
<1> QED
  BY <1>2, <1>3, <1>10

\* Retained keeps exactly the members that are in the set, and is the sequence
\* itself if all of them are.
LEMMA RetainedKeeps ==
  ASSUME NEW S, NEW s \in Seq(S), NEW set
  PROVE  /\ Retained(s, set) \in Seq(S)
         /\ ToSet(Retained(s, set)) = ToSet(s) \cap set
         /\ ToSet(s) \subseteq set => Retained(s, set) = s
<1> DEFINE P == Places(s, set)
           k == Cardinality(P)
           rank(i) == Cardinality({j \in P : j <= i})
           place(n) == CHOOSE i \in P : rank(i) = n
<1>1. Len(s) \in Nat /\ DOMAIN s = 1..Len(s)
  OBVIOUS
<1>2. P \in SUBSET (1..Len(s)) /\ \A i \in P : s[i] \in S /\ s[i] \in set
  BY <1>1 DEF Places
<1> HIDE DEF P
<1>3. /\ k \in Nat
      /\ \A i \in P : rank(i) \in 1..k
      /\ \A n \in 1..k : \E i \in P : rank(i) = n
  BY <1>1, <1>2, EveryRankIsTaken
<1>4. \A n \in 1..k : place(n) \in P /\ rank(place(n)) = n
  BY <1>3
<1>5. Retained(s, set) = [n \in 1..k |-> s[place(n)]]
  BY Zenon DEF Retained, P
<1>6. Retained(s, set) \in Seq(S)
  <2>1. \A n \in 1..k : s[place(n)] \in S
    BY <1>2, <1>4
  <2> HIDE DEF place, k
  <2> QED
    BY <1>3, <1>5, <2>1
<1>7. \A i \in P, j \in P : rank(i) = rank(j) => i = j
  <2> SUFFICES ASSUME NEW i \in P, NEW j \in P, i < j
               PROVE  rank(i) # rank(j)
    BY <1>2
  <2>1. IsFiniteSet({h \in P : h <= j})
    <3>1. IsFiniteSet(1..Len(s))
      BY <1>1, FS_Interval
    <3>2. {h \in P : h <= j} \in SUBSET (1..Len(s))
      BY <1>2
    <3> QED
      BY <3>1, <3>2, FS_Subset
  <2>2. {h \in P : h <= i} \in SUBSET {h \in P : h <= j}
    <3>1. \A h \in P : h <= i => h <= j
      BY <1>2
    <3> QED
      BY <3>1, Zenon
  <2>3. j \in {h \in P : h <= j} /\ j \notin {h \in P : h <= i}
    BY <1>2
  <2>4. rank(j) = rank(i) => {h \in P : h <= j} = {h \in P : h <= i}
    BY <2>1, <2>2, FS_Subset
  <2> QED
    BY <2>3, <2>4
<1>8. \A i \in P : place(rank(i)) = i
  BY <1>3, <1>4, <1>7
<1>9. ToSet(Retained(s, set)) = {s[place(n)] : n \in 1..k}
  <2>1. DOMAIN Retained(s, set) = 1..k
    BY <1>5, Zenon
  <2>2. \A n \in 1..k : Retained(s, set)[n] = s[place(n)]
    BY <1>5, Zenon
  <2> HIDE DEF place, k
  <2> QED
    BY <2>1, <2>2 DEF ToSet
<1>10. {s[place(n)] : n \in 1..k} = {s[i] : i \in P}
  <2>1. \A n \in 1..k : place(n) \in P
    BY <1>4
  <2>2. \A i \in P : \E n \in 1..k : place(n) = i
    BY <1>3, <1>8
  <2> HIDE DEF place, k
  <2> QED
    BY <2>1, <2>2
<1>11. {s[i] : i \in P} = ToSet(s) \cap set
  BY DEF ToSet, P, Places
<1>12. ASSUME ToSet(s) \subseteq set
       PROVE  Retained(s, set) = s
  <2>1. P = 1..Len(s)
    BY <1>1, <1>12 DEF P, Places, ToSet
  <2>2. \A i \in 0..Len(s) : IsFiniteSet(1..i) /\ Cardinality(1..i) = i
    <3> SUFFICES ASSUME NEW i \in 0..Len(s)
                 PROVE  IsFiniteSet(1..i) /\ Cardinality(1..i) = i
      OBVIOUS
    <3>1. IsFiniteSet(1..i) /\ Cardinality(1..i) = IF 1 > i THEN 0 ELSE i - 1 + 1
      BY FS_Interval
    <3> QED
      BY <1>1, <3>1
  <2>3. k = Len(s)
    BY <1>1, <2>1, <2>2
  <2>4. \A i \in P : rank(i) = i
    <3> SUFFICES ASSUME NEW i \in P
                 PROVE  rank(i) = i
      OBVIOUS
    <3>1. i \in 0..Len(s)
      BY <1>1, <2>1
    <3>2. {j \in P : j <= i} = 1..i
      BY <1>1, <2>1
    <3> QED
      BY <2>2, <3>1, <3>2
  <2>5. \A n \in 1..Len(s) : place(n) = n
    BY <1>8, <2>1, <2>4
  <2> HIDE DEF place, k
  <2>6. Retained(s, set) = [n \in 1..Len(s) |-> s[n]]
    BY <1>5, <2>3, <2>5
  <2> QED
    BY <1>1, <2>6
<1> QED
  BY <1>6, <1>9, <1>10, <1>11, <1>12

-----------------------------------------------------------------------------
(* JSON values, and what the operators make of them.                       *)

Given == Values \cup {None}

\* The shapes of values.
LEMMA Shapes ==
  /\ Null \in Values /\ Other \in Values /\ Scalars \subseteq Values
  /\ \A v \in Scalars : v.type # "array"
  /\ \A v \in Values : v # None
  /\ \A v \in Values : v.type = "array" => v.elements \in Seq(Scalars) /\ v = Array(v.elements)
  /\ \A v \in Values : v.type = "string" => v.words \in Seq(STRING) /\ v = String(v.words)
  /\ \A s \in Seq(Scalars) :
       Array(s) \in Values /\ IsArray(Array(s)) /\ Array(s).elements = s
  /\ \A w \in Seq(STRING) :
       String(w) \in Scalars /\ String(w).type = "string" /\ String(w).words = w
<1>1. /\ Null \in Values /\ Other \in Values /\ Scalars \subseteq Values
      /\ \A v \in Values : v # None
  BY NoneAssumption DEF Values, Scalars
<1>2. \A v \in Scalars : v.type # "array"
  BY DEF Scalars, Null, Other
<1>3. ASSUME NEW v \in Values, v.type = "array"
      PROVE  v.elements \in Seq(Scalars) /\ v = Array(v.elements)
  <2>1. v \in [type : {"array"}, elements : Seq(Scalars)]
    BY <1>2, <1>3 DEF Values
  <2> QED
    BY <2>1 DEF Array
<1>4. ASSUME NEW v \in Values, v.type = "string"
      PROVE  v.words \in Seq(STRING) /\ v = String(v.words)
  <2>1. v \in [type : {"string"}, words : Seq(STRING)]
    BY <1>4 DEF Values, Scalars, Null, Other
  <2> QED
    BY <2>1 DEF String
<1>5. ASSUME NEW s \in Seq(Scalars)
      PROVE  Array(s) \in Values /\ IsArray(Array(s)) /\ Array(s).elements = s
  <2>1. Array(s) \in Values /\ Array(s).type = "array" /\ Array(s).elements = s
    BY <1>5 DEF Array, Values
  <2> QED
    BY <1>1, <2>1 DEF IsArray
<1>6. ASSUME NEW w \in Seq(STRING)
      PROVE  String(w) \in Scalars /\ String(w).type = "string" /\ String(w).words = w
  BY <1>6 DEF String, Scalars
<1> QED
  BY <1>1, <1>2, <1>3, <1>4, <1>5, <1>6

LEMMA ArraysAre ==
  ASSUME NEW v \in Given, IsArray(v)
  PROVE  /\ v \in Values /\ v.elements \in Seq(Scalars) /\ v = Array(v.elements)
         /\ DOMAIN v.elements = 1..Len(v.elements) /\ Len(v.elements) \in Nat
         /\ ToSet(v.elements) \subseteq Scalars
<1>1. v \in Values /\ v.type = "array"
  BY DEF IsArray, Given
<1>2. v.elements \in Seq(Scalars) /\ v = Array(v.elements)
  BY <1>1, Shapes
<1>3. DOMAIN v.elements = 1..Len(v.elements) /\ Len(v.elements) \in Nat
  BY <1>2
<1>4. \A i \in DOMAIN v.elements : v.elements[i] \in Scalars
  BY <1>2
<1> QED
  BY <1>1, <1>2, <1>3, <1>4 DEF ToSet

LEMMA PolicyTypes ==
  ASSUME NEW p \in Policies
  PROVE  /\ p.value \in Given /\ p.default \in Given
         /\ p.add # None => p.add \subseteq Values /\ IsFiniteSet(p.add)
         /\ p.subset_of # None => p.subset_of \subseteq Values
         /\ p.superset_of # None => p.superset_of \subseteq Values
         /\ p.one_of # None => p.one_of \subseteq Values
<1>1. /\ p.value \in Values \cup {None} /\ p.default \in Values \cup {None}
      /\ p.add \in Operands \cup {None} /\ p.one_of \in Operands \cup {None}
      /\ p.subset_of \in Operands \cup {None} /\ p.superset_of \in Operands \cup {None}
  BY DEF Policies
<1>2. \A operand \in Operands : operand \subseteq Values /\ IsFiniteSet(operand)
  BY InputsAssumption DEF Operands
<1> QED
  BY <1>1, <1>2 DEF Given

\* The values that an operator lists are scalars, once the policy is valid.
LEMMA OperandsAreScalars ==
  ASSUME NEW p \in Policies, Valid(p)
  PROVE  /\ p.add # None => p.add \subseteq Scalars
         /\ p.subset_of # None => p.subset_of \subseteq Scalars
<1>1. \A v \in Values : v.type \in {"string", "other"} => v \in Scalars
  BY DEF Values
<1>2. \A operand \in {p.add, p.one_of, p.subset_of, p.superset_of} \ {None} :
        \A v \in operand : v.type \in {"string", "other"}
  BY Zenon DEF Valid, OperandsFit
<1> QED
  BY <1>1, <1>2, PolicyTypes

\* A scope is processed as an array, anything else as it is.
LEMMA Processed ==
  ASSUME NEW scope \in BOOLEAN, NEW v \in Given
  PROVE  /\ AsProcessed(scope, v) \in Given
         /\ AsProcessed(scope, v) = None <=> v = None
         /\ AsProcessed(scope, v) = Null <=> v = Null
         /\ ~scope => AsProcessed(scope, v) = v
         /\ IsArray(v) => AsProcessed(scope, v) = v
         /\ scope /\ v # None => AsProcessed(scope, v).type # "string"
         /\ scope /\ v # None /\ v.type = "string" =>
              /\ IsArray(AsProcessed(scope, v))
              /\ AsProcessed(scope, v).elements = [i \in DOMAIN v.words |-> String(<<v.words[i]>>)]
<1> DEFINE words == [i \in DOMAIN v.words |-> String(<<v.words[i]>>)]
<1>1. CASE scope /\ v # None /\ v.type = "string"
  <2>1. v \in Values /\ v.words \in Seq(STRING)
    BY <1>1, Shapes DEF Given
  <2>2. \A i \in DOMAIN v.words : String(<<v.words[i]>>) \in Scalars
    <3> SUFFICES ASSUME NEW i \in DOMAIN v.words
                 PROVE  String(<<v.words[i]>>) \in Scalars
      OBVIOUS
    <3>1. <<v.words[i]>> \in Seq(STRING)
      BY <2>1
    <3> QED
      BY <3>1, Shapes
  <2>3. words \in Seq(Scalars)
    <3>1. DOMAIN v.words = 1..Len(v.words) /\ Len(v.words) \in Nat
      BY <2>1
    <3> QED
      BY <2>2, <3>1
  <2>4. AsProcessed(scope, v) = Array(words)
    BY <1>1 DEF AsProcessed
  <2> HIDE DEF words
  <2>5. Array(words) \in Values /\ IsArray(Array(words)) /\ Array(words).elements = words
    BY <2>3, Shapes
  <2>6. Array(words).type = "array" /\ v # Null /\ Array(words) # Null
    BY <1>1 DEF Array, Null
  <2>7. ~IsArray(v)
    BY <1>1 DEF IsArray
  <2>8. Array(words) # None
    BY <2>5, Shapes
  <2>9. Array(words) \in Given
    BY <2>5 DEF Given
  <2> QED
    BY <1>1, <2>4, <2>5, <2>6, <2>7, <2>8, <2>9 DEF words
<1>2. CASE ~(scope /\ v # None /\ v.type = "string")
  <2>1. AsProcessed(scope, v) = v
    BY <1>2 DEF AsProcessed
  <2> QED
    BY <1>2, <2>1
<1> QED
  BY <1>1, <1>2

\* The strings of a sequence are single words.
OfWords(s) == \A i \in DOMAIN s : s[i].type = "string" => IsWord(s[i])

\* The elements of a processed scope are words, if those of an array are.
LEMMA ProcessedIsOfWords ==
  ASSUME NEW v \in Given, IsArray(v) => OfWords(v.elements), IsArray(AsProcessed(TRUE, v))
  PROVE  OfWords(AsProcessed(TRUE, v).elements)
<1> DEFINE words == [i \in DOMAIN v.words |-> String(<<v.words[i]>>)]
<1>1. CASE v # None /\ v.type = "string"
  <2>1. AsProcessed(TRUE, v).elements = words
    BY <1>1, Processed
  <2>2. v \in Values /\ v.words \in Seq(STRING)
    BY <1>1, Shapes DEF Given
  <2>3. ASSUME NEW i \in DOMAIN v.words
        PROVE  IsWord(String(<<v.words[i]>>))
    <3>1. <<v.words[i]>> \in Seq(STRING) /\ Len(<<v.words[i]>>) = 1
      BY <2>2
    <3> QED
      BY <3>1, Shapes DEF IsWord
  <2>4. DOMAIN words = DOMAIN v.words /\ \A i \in DOMAIN v.words : IsWord(words[i])
    BY <2>3
  <2> HIDE DEF words
  <2> QED
    BY <2>1, <2>4 DEF OfWords
<1>2. CASE ~(v # None /\ v.type = "string")
  <2>1. AsProcessed(TRUE, v) = v
    BY <1>2 DEF AsProcessed
  <2> QED
    BY <2>1
<1> QED
  BY <1>1, <1>2

\* A scope of words that was written is processed as it was.
LEMMA WrittenIsProcessedBack ==
  ASSUME NEW y \in Given, IsArray(y), \A i \in DOMAIN y.elements : IsWord(y.elements[i])
  PROVE  /\ AsWritten(TRUE, y) \in Values /\ AsWritten(TRUE, y).type = "string"
         /\ AsProcessed(TRUE, AsWritten(TRUE, y)) = y
<1> DEFINE es == y.elements
           words == [i \in DOMAIN es |-> es[i].words[1]]
<1>1. /\ es \in Seq(Scalars) /\ y = Array(es)
      /\ DOMAIN es = 1..Len(es) /\ Len(es) \in Nat
  BY ArraysAre
<1>2. ASSUME NEW i \in DOMAIN es
      PROVE  /\ es[i].type = "string" /\ es[i].words[1] \in STRING
             /\ es[i] = String(<<es[i].words[1]>>)
  <2>1. es[i] \in Scalars
    BY <1>1
  <2>2. es[i].type = "string" /\ Len(es[i].words) = 1
    BY DEF IsWord
  <2>3. es[i].words \in Seq(STRING) /\ es[i] = String(es[i].words)
    BY <2>1, <2>2, Shapes
  <2>4. es[i].words[1] \in STRING /\ es[i].words = <<es[i].words[1]>>
    BY <2>2, <2>3
  <2> QED
    BY <2>2, <2>3, <2>4
<1>3. AsWritten(TRUE, y) = String(words)
  BY <1>2 DEF AsWritten
<1>4. words \in Seq(STRING) /\ DOMAIN words = DOMAIN es
  <2>1. \A i \in DOMAIN es : es[i].words[1] \in STRING
    BY <1>2
  <2> HIDE DEF es
  <2> QED
    BY <1>1, <2>1
<1>5. [i \in DOMAIN words |-> String(<<words[i]>>)] = es
  <2>1. \A i \in DOMAIN es : String(<<words[i]>>) = es[i]
    BY <1>2
  <2>2. es = [i \in DOMAIN es |-> es[i]]
    BY <1>1
  <2> HIDE DEF words, es
  <2> QED
    BY <1>4, <2>1, <2>2
<1> HIDE DEF words, es
<1>6. /\ String(words) \in Values /\ String(words).type = "string"
      /\ String(words).words = words /\ String(words) # None
  BY <1>4, Shapes
<1>7. AsProcessed(TRUE, String(words)) = Array(es)
  BY <1>5, <1>6 DEF AsProcessed
<1> QED
  BY <1>1, <1>3, <1>6, <1>7

\* What a parameter is before subset_of narrows it.
LEMMA PresentIs ==
  ASSUME NEW scope \in BOOLEAN, NEW p \in Policies, Valid(p), NEW given \in Given,
         p.add # None => Assigned(scope, p, given) = None \/ IsArray(Assigned(scope, p, given)),
         NEW a, a = Assigned(scope, p, given),
         NEW e, e = Extended(p, a),
         NEW x, x = Present(scope, p, given)
  PROVE  /\ a \in Given /\ e \in Given /\ x \in Given
         /\ p.add = None => e = a
         /\ p.add # None => IsArray(e) /\ ToSet(e.elements) = ToSet(Elements(a)) \cup p.add
         /\ p.add # None /\ a # None /\ p.add \subseteq ToSet(a.elements) => e = a
         /\ e # None => x = e
         /\ e = None => x = AsProcessed(scope, p.default)
<1>1. a \in Given
  <2>1. AsProcessed(scope, given) \in Given /\ AsProcessed(scope, p.value) \in Given
    BY Processed, PolicyTypes
  <2> QED
    BY <2>1 DEF Assigned, Given
<1>2. x = Defaulted(scope, p, e)
  BY DEF Present
<1>3. (e # None => x = e) /\ (e = None => x = AsProcessed(scope, p.default))
  BY <1>2 DEF Defaulted
<1>4. p.add = None => e = a
  BY DEF Extended
<1>5. ASSUME p.add # None
      PROVE  /\ IsArray(e) /\ e \in Given /\ ToSet(e.elements) = ToSet(Elements(a)) \cup p.add
             /\ a # None /\ p.add \subseteq ToSet(a.elements) => e = a
  <2> DEFINE es == Elements(a)
             more == p.add \ ToSet(es)
  <2>1. es \in Seq(Scalars)
    <3>1. CASE a = None
      BY <3>1 DEF Elements
    <3>2. CASE a # None
      <4>1. IsArray(a)
        BY <1>5, <3>2
      <4> QED
        BY <1>1, <3>2, <4>1, ArraysAre DEF Elements
    <3> QED
      BY <3>1, <3>2
  <2> HIDE DEF es
  <2>2. more \subseteq Scalars /\ IsFiniteSet(more)
    <3>1. p.add \subseteq Scalars /\ IsFiniteSet(p.add)
      BY <1>5, PolicyTypes, OperandsAreScalars
    <3>2. more \in SUBSET p.add
      OBVIOUS
    <3> QED
      BY <3>1, <3>2, FS_Subset
  <2>3. e = Array(es \o SetToSeq(more))
    BY <1>5 DEF Extended, es
  <2> DEFINE tail == SetToSeq(more)
  <2>4. tail \in Seq(more) /\ ToSet(tail) = more
    BY <2>2, SetToSeqLists
  <2>5. tail \in Seq(Scalars)
    <3> HIDE DEF tail, more
    <3> QED
      BY <2>2, <2>4
  <2> HIDE DEF tail
  <2>6. es \o tail \in Seq(Scalars) /\ ToSet(es \o tail) = ToSet(es) \cup ToSet(tail)
    BY <2>1, <2>5, AppendedHoldsBoth
  <2>7. Array(es \o tail) \in Values /\ IsArray(Array(es \o tail)) /\ Array(es \o tail).elements = es \o tail
    BY <2>6, Shapes
  <2>8. IsArray(e) /\ e \in Given /\ ToSet(e.elements) = ToSet(es) \cup more
    BY <2>3, <2>4, <2>6, <2>7 DEF Given, tail
  <2>9. ToSet(es) \cup more = ToSet(es) \cup p.add
    OBVIOUS
  <2>10. ASSUME a # None, p.add \subseteq ToSet(a.elements)
         PROVE  e = a
    <3>1. es = a.elements
      BY <2>10 DEF es, Elements
    <3>2. more = {}
      BY <2>10, <3>1
    <3>3. tail = << >>
      <4> HIDE DEF more
      <4>1. tail \in Seq({})
        BY <2>4, <3>2
      <4> QED
        BY <4>1, EmptySeq
    <3>4. es \o tail = es
      BY <2>1, <3>3
    <3>5. a = Array(a.elements)
      BY <1>1, <1>5, <2>10, ArraysAre
    <3> QED
      BY <2>3, <3>1, <3>4, <3>5 DEF tail
  <2> QED
    BY <2>8, <2>9, <2>10 DEF es
<1>6. e \in Given
  BY <1>1, <1>4, <1>5
<1>7. x \in Given
  <2>1. AsProcessed(scope, p.default) \in Given
    BY Processed, PolicyTypes
  <2> QED
    BY <1>3, <1>6, <2>1
<1> QED
  BY <1>1, <1>3, <1>4, <1>5, <1>6, <1>7

\* What subset_of leaves of it.
LEMMA NarrowedIs ==
  ASSUME NEW p \in Policies, NEW x \in Given,
         p.subset_of # None => x = None \/ IsArray(x),
         NEW y, y = Narrowed(p, x)
  PROVE  /\ y \in Given
         /\ y = None <=> x = None
         /\ p.subset_of = None => y = x
         /\ p.subset_of # None /\ x # None =>
              IsArray(y) /\ ToSet(y.elements) = ToSet(x.elements) \cap p.subset_of
         /\ p.subset_of # None /\ x # None /\ ToSet(x.elements) \subseteq p.subset_of => y = x
<1>1. CASE p.subset_of = None \/ x = None
  <2>1. y = x
    BY <1>1 DEF Narrowed
  <2> QED
    BY <1>1, <2>1
<1>2. CASE p.subset_of # None /\ x # None
  <2> DEFINE kept == Retained(x.elements, p.subset_of)
  <2>1. y = Array(kept)
    BY <1>2 DEF Narrowed
  <2>2. x.elements \in Seq(Scalars) /\ x = Array(x.elements)
    BY <1>2, ArraysAre
  <2>3. /\ kept \in Seq(Scalars)
        /\ ToSet(kept) = ToSet(x.elements) \cap p.subset_of
        /\ ToSet(x.elements) \subseteq p.subset_of => kept = x.elements
    BY <2>2, RetainedKeeps
  <2> HIDE DEF kept
  <2>4. Array(kept) \in Values /\ IsArray(Array(kept)) /\ Array(kept).elements = kept
    BY <2>3, Shapes
  <2>5. y # None /\ y \in Given
    BY <2>1, <2>4, Shapes DEF Given
  <2> QED
    BY <1>2, <2>1, <2>2, <2>3, <2>4, <2>5
<1> QED
  BY <1>1, <1>2

-----------------------------------------------------------------------------
(* Applying a policy.                                                      *)

\* What is published is a value, and an optional field holds no null.
LEMMA PublishedIs ==
  ASSUME NEW f, NEW given \in Published(f)
  PROVE  /\ given \in Given
         /\ given = Null => f.json \in {"any", "scope"}
<1>1. given \in Metadata /\ Held(f, given) = given
  BY DEF Published
<1>2. given \in Given
  BY <1>1, InputsAssumption DEF Given
<1>3. ASSUME given = Null, f.json \notin {"any", "scope"}
      PROVE  FALSE
  <2>1. given = None
    BY <1>1, <1>3 DEF Held
  <2> QED
    BY <1>3, <2>1, Shapes
<1> QED
  BY <1>2, <1>3

\* What a parameter is between the operators of an application that succeeds:
\* once value is assigned, after add, after default, and after subset_of.
AreSteps(scope, p, a, e, x, y) ==
  /\ a \in Given /\ e \in Given /\ x \in Given /\ y \in Given
  /\ p.add = None => e = a
  /\ p.add # None =>
       /\ a = None \/ IsArray(a)
       /\ IsArray(e) /\ ToSet(e.elements) = ToSet(Elements(a)) \cup p.add
       /\ a # None /\ p.add \subseteq ToSet(a.elements) => e = a
  /\ e # None => x = e
  /\ e = None => x = AsProcessed(scope, p.default)
  /\ y = None <=> x = None
  /\ p.subset_of = None => y = x
  /\ p.subset_of # None /\ x # None =>
       /\ IsArray(x) /\ IsArray(y)
       /\ ToSet(y.elements) = ToSet(x.elements) \cap p.subset_of
       /\ ToSet(x.elements) \subseteq p.subset_of => y = x
  /\ p.superset_of # None /\ x # None => IsArray(y) /\ p.superset_of \subseteq ToSet(y.elements)
  /\ p.one_of # None /\ x # None => AsWritten(scope, x) \in p.one_of
  /\ p.essential = TRUE => x # None

LEMMA Steps ==
  ASSUME NEW scope \in BOOLEAN, NEW p \in Policies, Valid(p), NEW given \in Given,
         Applies(scope, p, given),
         NEW a, a = Assigned(scope, p, given),
         NEW e, e = Extended(p, a),
         NEW x, x = Present(scope, p, given),
         NEW y, y = Narrowed(p, x)
  PROVE  AreSteps(scope, p, a, e, x, y)
<1>1. p.add # None => a = None \/ IsArray(a)
  BY DEF Applies
<1>2. /\ a \in Given /\ e \in Given /\ x \in Given
      /\ p.add = None => e = a
      /\ p.add # None => IsArray(e) /\ ToSet(e.elements) = ToSet(Elements(a)) \cup p.add
      /\ p.add # None /\ a # None /\ p.add \subseteq ToSet(a.elements) => e = a
      /\ e # None => x = e
      /\ e = None => x = AsProcessed(scope, p.default)
  BY <1>1, PresentIs
<1>3. /\ p.one_of # None /\ x # None => AsWritten(scope, x) \in p.one_of
      /\ p.subset_of # None \/ p.superset_of # None => x = None \/ IsArray(x)
      /\ p.superset_of # None /\ x # None => p.superset_of \subseteq ToSet(y.elements)
      /\ p.essential = TRUE => x # None
  BY DEF Applies
<1>4. /\ y \in Given
      /\ y = None <=> x = None
      /\ p.subset_of = None => y = x
      /\ p.subset_of # None /\ x # None =>
           IsArray(y) /\ ToSet(y.elements) = ToSet(x.elements) \cap p.subset_of
      /\ p.subset_of # None /\ x # None /\ ToSet(x.elements) \subseteq p.subset_of => y = x
  BY <1>2, <1>3, NarrowedIs
<1>5. p.superset_of # None /\ x # None => IsArray(y)
  BY <1>3, <1>4
<1> QED
  BY <1>1, <1>2, <1>3, <1>4, <1>5 DEF AreSteps

\* A member of a sequence that holds only words.
LEMMA OfWordsIsOfMembers ==
  ASSUME NEW s
  PROVE  OfWords(s) <=> \A v \in ToSet(s) : v.type = "string" => IsWord(v)
BY DEF OfWords, ToSet

\* What was resolved is what the operators left, and is read back as that: no
\* field turns it into something else, nor does writing a scope of words.
LEMMA ResolvedIsNarrowed ==
  ASSUME NEW f, NEW p \in Policies, Valid(p), NEW given \in Published(f),
         Resolves(f, p, given), ScopeOfWords(f, p, given),
         NEW y, y = Narrowed(p, Present(IsScope(f), p, given)),
         NEW v, v = Resolved(f, p, given)
  PROVE  /\ v = AsWritten(IsScope(f), y) /\ v = Held(f, v)
         /\ v \in Given /\ (v = None <=> y = None)
         /\ AsProcessed(IsScope(f), v) = y
         /\ ~IsScope(f) => v = y
         /\ IsScope(f) => y = None \/ IsArray(y)
<1> DEFINE scope == IsScope(f)
           a == Assigned(scope, p, given)
           e == Extended(p, a)
           x == Present(scope, p, given)
<1>1. given \in Given /\ (given = Null => f.json \in {"any", "scope"})
  BY PublishedIs
<1>2. scope \in BOOLEAN /\ (scope <=> f.json = "scope")
  BY DEF IsScope
<1>3. Applies(scope, p, given) /\ v = Held(f, AsWritten(scope, y))
  BY DEF Resolves, Resolved, Applied
<1> HIDE DEF scope, a, e, x
<1>4. /\ a \in Given /\ e \in Given /\ x \in Given /\ y \in Given
      /\ p.add = None => e = a
      /\ p.add # None => IsArray(e) /\ ToSet(e.elements) = ToSet(Elements(a)) \cup p.add
      /\ e # None => x = e
      /\ e = None => x = AsProcessed(scope, p.default)
      /\ y = None <=> x = None
      /\ p.subset_of = None => y = x
      /\ p.subset_of # None /\ x # None =>
           IsArray(y) /\ ToSet(y.elements) = ToSet(x.elements) \cap p.subset_of
  <2>1. AreSteps(scope, p, a, e, x, y)
    <3>1. y = Narrowed(p, x)
      BY DEF scope, x
    <3> QED
      BY <1>1, <1>2, <1>3, <3>1, Steps DEF a, e, x
  <2> QED
    BY <2>1 DEF AreSteps
<1>5. a = CASE p.value = None -> AsProcessed(scope, given)
            [] p.value = Null -> None
            [] OTHER          -> AsProcessed(scope, p.value)
  BY DEF a, Assigned
<1>6. p.value \in Given /\ p.default \in Given /\ p.default # Null
  BY PolicyTypes DEF Valid, OperandsFit
<1>7. CASE ~scope
  <2>1. AsWritten(scope, y) = y /\ AsProcessed(scope, y) = y
    BY <1>7 DEF AsWritten, AsProcessed
  <2>2. y = Null => f.json \in {"any", "scope"}
    <3> SUFFICES ASSUME y = Null
                 PROVE  given = Null
      BY <1>1
    <3>1. ~IsArray(y) /\ y # None
      BY Shapes DEF IsArray, Null
    <3>2. x = Null
      BY <1>4, <3>1
    <3>3. e = Null
      BY <1>2, <1>4, <1>6, <3>2, Processed
    <3>4. a = Null
      BY <1>4, <3>1, <3>3
    <3>5. Null # None
      BY <3>1
    <3>6. p.value = None
      <4>1. p.value # Null => AsProcessed(scope, p.value) # Null
        BY <1>2, <1>6, Processed
      <4> QED
        BY <1>5, <3>4, <3>5, <4>1
    <3>7. AsProcessed(scope, given) = Null
      BY <1>5, <3>4, <3>5, <3>6
    <3> QED
      BY <1>1, <1>2, <3>7, Processed
  <2>3. Held(f, y) = y
    BY <2>2 DEF Held
  <2>4. v = y
    BY <1>3, <2>1, <2>3
  <2> QED
    BY <1>4, <1>7, <2>1, <2>3, <2>4 DEF scope
<1>8. CASE scope
  <2> DEFINE w == AsWritten(scope, y)
  <2>1. w = None \/ w.type = "string"
    <3>1. w = Applied(scope, p, given)
      BY DEF Applied, scope
    <3> QED
      BY <1>3, <1>8, <3>1 DEF Applies
  <2>2. v = w /\ Held(f, w) = w
    BY <1>2, <1>3, <1>8 DEF Held
  <2>3. a = None \/ a.type # "string"
    <3>1. \A u \in Given : AsProcessed(scope, u) = None \/ AsProcessed(scope, u).type # "string"
      BY <1>2, <1>8, Processed
    <3> QED
      BY <1>1, <1>5, <1>6, <3>1
  <2>4. e = None \/ e.type # "string"
    BY <1>4, <2>3 DEF IsArray
  <2>5. x = None \/ x.type # "string"
    <3>1. AsProcessed(scope, p.default) = None \/ AsProcessed(scope, p.default).type # "string"
      BY <1>2, <1>6, <1>8, Processed
    <3> QED
      BY <1>4, <2>4, <3>1
  <2>6. y = None \/ y.type # "string"
    BY <1>4, <2>5 DEF IsArray
  <2>7. CASE y = None
    <3>1. w = None
      BY <2>7 DEF AsWritten, IsArray
    <3>2. AsProcessed(scope, None) = None
      BY DEF AsProcessed
    <3> QED
      BY <1>4, <2>2, <2>7, <3>1, <3>2 DEF scope
  <2>8. CASE y # None
    <3>1. IsArray(y) /\ \A i \in DOMAIN y.elements : y.elements[i].type = "string"
      <4>1. SUFFICES ASSUME ~(IsArray(y) /\ \A i \in DOMAIN y.elements : y.elements[i].type = "string")
                     PROVE  FALSE
        OBVIOUS
      <4>2. w = y
        BY <4>1 DEF AsWritten
      <4> QED
        BY <2>1, <2>6, <2>8, <4>2
    <3>2. ToSet(y.elements) \subseteq ToSet(x.elements) /\ IsArray(x)
      <4>1. CASE p.subset_of = None
        BY <1>4, <3>1, <4>1
      <4>2. CASE p.subset_of # None
        <5>1. IsArray(x)
          BY <1>3, <1>4, <2>8, <4>2 DEF Applies, x
        <5> QED
          BY <1>4, <2>8, <4>2, <5>1
      <4> QED
        BY <4>1, <4>2
    <3>3. /\ p.add # None => \A u \in p.add : u.type = "string" => IsWord(u)
          /\ IsArray(p.value) => OfWords(p.value.elements)
          /\ IsArray(p.default) => OfWords(p.default.elements)
          /\ IsArray(given) => OfWords(given.elements)
      BY <1>8 DEF ScopeOfWords, OfWords, scope
    <3>4. IsArray(AsProcessed(scope, given)) => OfWords(AsProcessed(scope, given).elements)
      BY <1>1, <1>2, <1>8, <3>3, ProcessedIsOfWords
    <3>5. IsArray(AsProcessed(scope, p.value)) => OfWords(AsProcessed(scope, p.value).elements)
      BY <1>2, <1>6, <1>8, <3>3, ProcessedIsOfWords
    <3>6. IsArray(AsProcessed(scope, p.default)) => OfWords(AsProcessed(scope, p.default).elements)
      BY <1>2, <1>6, <1>8, <3>3, ProcessedIsOfWords
    <3>7. IsArray(a) => OfWords(a.elements)
      <4>1. ~IsArray(None)
        BY DEF IsArray
      <4> QED
        BY <1>5, <3>4, <3>5, <4>1
    <3>8. IsArray(e) => OfWords(e.elements)
      <4>1. CASE p.add = None
        BY <1>4, <3>7, <4>1
      <4>2. CASE p.add # None
        <5>1. ToSet(e.elements) = ToSet(Elements(a)) \cup p.add
          BY <1>4, <4>2
        <5>2. a = None \/ IsArray(a)
          BY <1>3, <4>2 DEF Applies, a
        <5>3. \A u \in ToSet(Elements(a)) : u.type = "string" => IsWord(u)
          <6>1. CASE a = None
            BY <6>1 DEF Elements, ToSet
          <6>2. CASE a # None
            BY <3>7, <5>2, <6>2, OfWordsIsOfMembers DEF Elements
          <6> QED
            BY <6>1, <6>2
        <5>4. \A u \in ToSet(e.elements) : u.type = "string" => IsWord(u)
          BY <3>3, <4>2, <5>1, <5>3
        <5> QED
          BY <5>4, OfWordsIsOfMembers
      <4> QED
        BY <4>1, <4>2
    <3>9. OfWords(x.elements)
      BY <1>4, <3>2, <3>6, <3>8
    <3>10. OfWords(y.elements)
      BY <3>2, <3>9, OfWordsIsOfMembers
    <3>11. \A i \in DOMAIN y.elements : IsWord(y.elements[i])
      BY <3>1, <3>10 DEF OfWords
    <3>12. w \in Values /\ AsProcessed(scope, w) = y
      BY <1>2, <1>4, <1>8, <3>1, <3>11, WrittenIsProcessedBack
    <3>13. w # None /\ w \in Given
      BY <3>12, Shapes DEF Given
    <3> QED
      BY <1>8, <2>2, <2>8, <3>1, <3>12, <3>13 DEF scope
  <2> QED
    BY <2>7, <2>8
<1> QED
  BY <1>7, <1>8

\* The values of a value operator are those of the processed parameter, unless
\* they are several words.
LEMMA ProcessedHoldsValues ==
  ASSUME NEW scope \in BOOLEAN, NEW v \in Values, IsArray(AsProcessed(scope, v))
  PROVE  /\ \A u \in ValuesOf(v) :
              (scope /\ u.type = "string" => IsWord(u)) => u \in ToSet(AsProcessed(scope, v).elements)
         /\ (\A u \in ValuesOf(v) : scope /\ u.type = "string" => IsWord(u)) =>
              ToSet(AsProcessed(scope, v).elements) = ValuesOf(v)
<1>0. v # None /\ v \in Given
  BY Shapes DEF Given
<1>1. CASE v.type = "array"
  <2>1. AsProcessed(scope, v) = v
    BY <1>1 DEF AsProcessed
  <2>2. ValuesOf(v) = ToSet(v.elements)
    BY <1>1 DEF ValuesOf
  <2> QED
    BY <2>1, <2>2
<1>2. CASE v.type # "array"
  <2>1. scope /\ v.type = "string"
    <3>1. SUFFICES ASSUME ~(scope /\ v.type = "string")
                   PROVE  FALSE
      OBVIOUS
    <3>2. AsProcessed(scope, v) = v
      BY <3>1 DEF AsProcessed
    <3> QED
      BY <1>2, <3>2 DEF IsArray
  <2>2. ValuesOf(v) = {v}
    BY <2>1 DEF ValuesOf
  <2> DEFINE es == AsProcessed(scope, v).elements
  <2>3. es = [i \in DOMAIN v.words |-> String(<<v.words[i]>>)]
    BY <1>0, <2>1, Processed
  <2>4. v.words \in Seq(STRING) /\ v = String(v.words)
    BY <2>1, Shapes
  <2>5. ASSUME IsWord(v)
        PROVE  ToSet(es) = {v}
    <3>1. Len(v.words) = 1
      BY <2>5 DEF IsWord
    <3>2. DOMAIN v.words = {1} /\ v.words = <<v.words[1]>>
      BY <2>4, <3>1
    <3>3. DOMAIN es = {1} /\ es[1] = v
      BY <2>3, <2>4, <3>2
    <3> QED
      BY <3>3 DEF ToSet
  <2> QED
    BY <2>1, <2>2, <2>5
<1> QED
  BY <1>1, <1>2

\* What a policy makes of a parameter is what it demands.
LEMMA PolicyIsDelivered ==
  ASSUME NEW f, NEW p \in Policies, Valid(p), NEW given \in Published(f),
         Resolves(f, p, given), ScopeOfWords(f, p, given)
  PROVE  Complies(IsScope(f), p, Resolved(f, p, given))
<1> DEFINE scope == IsScope(f)
           a == Assigned(scope, p, given)
           e == Extended(p, a)
           x == Present(scope, p, given)
           y == Narrowed(p, x)
           v == Resolved(f, p, given)
           values == IF v = None THEN {} ELSE ValuesOf(AsProcessed(scope, v))
<1>1. AreSteps(scope, p, a, e, x, y)
  <2>1. Applies(scope, p, given)
    BY DEF Resolves
  <2>2. scope \in BOOLEAN
    BY DEF IsScope
  <2>3. given \in Given
    BY PublishedIs
  <2> HIDE DEF scope, a, e, x, y
  <2> QED
    BY <2>1, <2>2, <2>3, Steps DEF a, e, x, y
<1>2. /\ v = AsWritten(scope, y) /\ v \in Given /\ (v = None <=> y = None)
      /\ AsProcessed(scope, v) = y
  <2>1. y = Narrowed(p, Present(IsScope(f), p, given))
    OBVIOUS
  <2> HIDE DEF y, v
  <2> QED
    BY <2>1, ResolvedIsNarrowed DEF v
<1>3. a = CASE p.value = None -> AsProcessed(scope, given)
            [] p.value = Null -> None
            [] OTHER          -> AsProcessed(scope, p.value)
  BY DEF Assigned
<1>4. scope \in BOOLEAN
  BY DEF IsScope
<1>5. /\ scope /\ p.add # None => \A u \in p.add : u.type = "string" => IsWord(u)
      /\ scope /\ p.subset_of # None => \A u \in p.subset_of : u.type = "string" => IsWord(u)
  BY DEF ScopeOfWords
<1> HIDE DEF scope, a, e, x, y, v
<1>6. values = IF y = None THEN {} ELSE ValuesOf(y)
  BY <1>2
<1>7. IsArray(y) => y # None /\ values = ToSet(y.elements)
  BY <1>6 DEF IsArray, ValuesOf
<1> HIDE DEF values
<1>8. p.value \in Given /\ p.default \in Given
  BY PolicyTypes
<1>9. /\ OneOfStandsAlone(p) /\ NullStandsAlone(p) /\ ValueFits(p) /\ SetsFit(p)
  BY DEF Valid
<1>10. ASSUME p.value # None, p.value = Null
       PROVE  values = {}
  <2>1. a = None
    BY <1>3, <1>10
  <2>2. CASE p.add = None
    <3>1. e = None /\ p.default = None
      BY <1>1, <1>9, <1>10, <2>1, <2>2 DEF AreSteps, NullStandsAlone
    <3>2. x = None
      BY <1>1, <3>1 DEF AreSteps, AsProcessed
    <3> QED
      BY <1>1, <1>6, <3>2 DEF AreSteps
  <2>3. CASE p.add # None
    <3>1. p.add \subseteq {}
      BY <1>9, <1>10, <2>3 DEF ValueFits, ValuesOf, Null
    <3>2. IsArray(e) /\ ToSet(e.elements) = {}
      BY <1>1, <2>1, <2>3, <3>1 DEF AreSteps, Elements, ToSet
    <3>3. x = e /\ x # None
      BY <1>1, <3>2 DEF AreSteps, IsArray
    <3>4. IsArray(y) /\ ToSet(y.elements) = {}
      BY <1>1, <3>2, <3>3 DEF AreSteps
    <3> QED
      BY <1>7, <3>4
  <2> QED
    BY <2>2, <2>3
<1>11. ASSUME p.value # None, p.value # Null
       PROVE  v = AsWritten(scope, AsProcessed(scope, p.value))
  <2>1. a = AsProcessed(scope, p.value) /\ a # None /\ p.value \in Values
    BY <1>3, <1>4, <1>8, <1>11, Processed DEF Given
  <2>2. e = a
    <3>1. CASE p.add = None
      BY <1>1, <3>1 DEF AreSteps
    <3>2. CASE p.add # None
      <4>1. IsArray(a)
        BY <1>1, <2>1, <3>2 DEF AreSteps
      <4>2. p.add \subseteq ValuesOf(p.value)
        BY <1>9, <1>11, <3>2 DEF ValueFits
      <4>3. p.add \subseteq ToSet(a.elements)
        BY <1>4, <1>5, <2>1, <3>2, <4>1, <4>2, ProcessedHoldsValues
      <4> QED
        BY <1>1, <2>1, <3>2, <4>3 DEF AreSteps
    <3> QED
      BY <3>1, <3>2
  <2>3. x = a
    BY <1>1, <2>1, <2>2 DEF AreSteps
  <2>4. y = x
    <3>1. CASE p.subset_of = None
      BY <1>1, <3>1 DEF AreSteps
    <3>2. CASE p.subset_of # None
      <4>1. IsArray(a)
        BY <1>1, <2>1, <2>3, <3>2 DEF AreSteps
      <4>2. ValuesOf(p.value) \subseteq p.subset_of
        BY <1>9, <1>11, <3>2 DEF ValueFits
      <4>3. ToSet(a.elements) = ValuesOf(p.value)
        BY <1>4, <1>5, <2>1, <3>2, <4>1, <4>2, ProcessedHoldsValues
      <4> QED
        BY <1>1, <2>1, <2>3, <3>2, <4>2, <4>3 DEF AreSteps
    <3> QED
      BY <3>1, <3>2
  <2> QED
    BY <1>2, <2>1, <2>3, <2>4
<1>12. ASSUME p.add # None
       PROVE  v # None /\ p.add \subseteq values
  <2>1. IsArray(e) /\ e # None /\ p.add \subseteq ToSet(e.elements)
    BY <1>1, <1>12 DEF AreSteps, IsArray
  <2>2. x = e
    BY <1>1, <2>1 DEF AreSteps
  <2>3. IsArray(y) /\ p.add \subseteq ToSet(y.elements)
    <3>1. CASE p.subset_of = None
      BY <1>1, <2>1, <2>2, <3>1 DEF AreSteps
    <3>2. CASE p.subset_of # None
      <4>1. p.add \subseteq p.subset_of
        BY <1>9, <1>12, <3>2 DEF SetsFit
      <4>2. IsArray(y) /\ ToSet(y.elements) = ToSet(x.elements) \cap p.subset_of
        BY <1>1, <2>1, <2>2, <3>2 DEF AreSteps
      <4> QED
        BY <2>1, <2>2, <4>1, <4>2
    <3> QED
      BY <3>1, <3>2
  <2> QED
    BY <1>2, <1>7, <2>3
<1>13. ASSUME p.default # None
       PROVE  v # None
  <2>1. AsProcessed(scope, p.default) # None
    BY <1>4, <1>8, <1>13, Processed
  <2>2. x # None
    BY <1>1, <2>1 DEF AreSteps
  <2> QED
    BY <1>1, <1>2, <2>2 DEF AreSteps
<1>14. ASSUME p.one_of # None
       PROVE  v = None \/ v \in p.one_of
  <2>1. p.subset_of = None
    BY <1>9, <1>14 DEF OneOfStandsAlone
  <2>2. y = x
    BY <1>1, <2>1 DEF AreSteps
  <2> QED
    BY <1>1, <1>2, <1>14, <2>2 DEF AreSteps
<1>15. ASSUME p.subset_of # None
       PROVE  values \subseteq p.subset_of
  <2>1. CASE x = None
    BY <1>1, <1>6, <2>1 DEF AreSteps
  <2>2. CASE x # None
    <3>1. IsArray(y) /\ ToSet(y.elements) = ToSet(x.elements) \cap p.subset_of
      BY <1>1, <1>15, <2>2 DEF AreSteps
    <3> QED
      BY <1>7, <3>1
  <2> QED
    BY <2>1, <2>2
<1>16. ASSUME p.superset_of # None
       PROVE  v = None \/ p.superset_of \subseteq values
  <2>1. CASE x = None
    BY <1>1, <1>2, <2>1 DEF AreSteps
  <2>2. CASE x # None
    <3>1. IsArray(y) /\ p.superset_of \subseteq ToSet(y.elements)
      BY <1>1, <1>16, <2>2 DEF AreSteps
    <3> QED
      BY <1>7, <3>1
  <2> QED
    BY <2>1, <2>2
<1>17. p.essential = TRUE => v # None
  BY <1>1, <1>2 DEF AreSteps
<1> QED
  <2>1. Complies(scope, p, v)
    BY <1>10, <1>11, <1>12, <1>13, <1>14, <1>15, <1>16, <1>17 DEF Complies, values
  <2> QED
    BY <2>1 DEF scope, v

\* Applying a policy to what it made of a parameter succeeds and changes nothing.
LEMMA SecondApplicationChangesNothing ==
  ASSUME NEW f, NEW p \in Policies, Valid(p), NEW given \in Published(f),
         Resolves(f, p, given), ScopeOfWords(f, p, given),
         NEW v, v = Resolved(f, p, given)
  PROVE  /\ Held(f, v) = v /\ Fits(f, v)
         /\ Resolves(f, p, v) /\ Resolved(f, p, v) = v
<1> DEFINE scope == IsScope(f)
           a == Assigned(scope, p, given)
           e == Extended(p, a)
           x == Present(scope, p, given)
           y == Narrowed(p, x)
<1>1. Applies(scope, p, given) /\ Fits(f, v)
  BY DEF Resolves
<1>2. AreSteps(scope, p, a, e, x, y)
  <2>2. scope \in BOOLEAN
    BY DEF IsScope
  <2>3. given \in Given
    BY PublishedIs
  <2> HIDE DEF scope, a, e, x, y
  <2> QED
    BY <1>1, <2>2, <2>3, Steps DEF a, e, x, y
<1>3. /\ v = AsWritten(scope, y) /\ v = Held(f, v)
      /\ v \in Given /\ (v = None <=> y = None)
      /\ AsProcessed(scope, v) = y
  <2>1. y = Narrowed(p, Present(IsScope(f), p, given))
    OBVIOUS
  <2> HIDE DEF y
  <2> QED
    BY <2>1, ResolvedIsNarrowed
<1>4. CASE p.value # None
  <2>1. Assigned(scope, p, v) = Assigned(scope, p, given)
    BY <1>4 DEF Assigned
  <2>2. Present(scope, p, v) = Present(scope, p, given)
    BY <2>1 DEF Present
  <2>3. Applied(scope, p, v) = Applied(scope, p, given)
    BY <2>2 DEF Applied
  <2>4. Applies(scope, p, v)
    <3> HIDE DEF scope
    <3> QED
      BY <1>1, <2>1, <2>2, <2>3 DEF Applies
  <2>5. Resolved(f, p, v) = v
    BY <2>3 DEF Resolved
  <2> QED
    BY <1>1, <1>3, <2>4, <2>5 DEF Resolves
<1>5. CASE p.value = None
  <2> DEFINE e2 == Extended(p, Assigned(scope, p, v))
             x2 == Present(scope, p, v)
  <2>1. Assigned(scope, p, v) = y
    <3>1. Assigned(scope, p, v) = AsProcessed(scope, v)
      <4>1. None # Null
        BY Shapes
      <4> HIDE DEF scope
      <4> QED
        BY <1>5, <4>1 DEF Assigned
    <3> HIDE DEF scope, y
    <3> QED
      BY <1>3, <3>1
  <2>2. scope \in BOOLEAN
    BY DEF IsScope
  <2>3. p.default \in Given
    BY PolicyTypes
  <2>4. scope => v = None \/ v.type = "string"
    <3>1. v = Applied(scope, p, given)
      BY <1>3 DEF Applied
    <3> HIDE DEF scope
    <3> QED
      BY <1>1, <3>1 DEF Applies
  <2>5. v = AsWritten(scope, Narrowed(p, Present(scope, p, given)))
    BY <1>3
  <2> HIDE DEF scope, a, e, x, y
  <2>6. p.add # None => IsArray(y) /\ p.add \subseteq ToSet(y.elements)
    <3> SUFFICES ASSUME p.add # None
                 PROVE  IsArray(y) /\ p.add \subseteq ToSet(y.elements)
      OBVIOUS
    <3>1. IsArray(e) /\ e # None /\ p.add \subseteq ToSet(e.elements)
      BY <1>2 DEF AreSteps, IsArray
    <3>2. x = e
      BY <1>2, <3>1 DEF AreSteps
    <3>3. CASE p.subset_of = None
      BY <1>2, <3>1, <3>2, <3>3 DEF AreSteps
    <3>4. CASE p.subset_of # None
      <4>1. p.add \subseteq p.subset_of
        BY <3>4 DEF Valid, SetsFit
      <4>2. IsArray(y) /\ ToSet(y.elements) = ToSet(x.elements) \cap p.subset_of
        BY <1>2, <3>1, <3>2, <3>4 DEF AreSteps
      <4> QED
        BY <3>1, <3>2, <4>1, <4>2
    <3> QED
      BY <3>3, <3>4
  <2>7. /\ p.add = None => e2 = y
        /\ p.add # None /\ y # None /\ p.add \subseteq ToSet(y.elements) => e2 = y
        /\ e2 # None => x2 = e2
        /\ e2 = None => x2 = AsProcessed(scope, p.default)
    <3>1. p.add # None => Assigned(scope, p, v) = None \/ IsArray(Assigned(scope, p, v))
      BY <2>1, <2>6
    <3>2. e2 = Extended(p, y)
      BY <2>1
    <3> HIDE DEF e2, x2
    <3> QED
      BY <1>3, <2>1, <2>2, <3>1, <3>2, PresentIs DEF x2
  <2>8. e2 = y
    BY <2>6, <2>7 DEF IsArray
  <2> HIDE DEF e2, x2
  <2>9. x2 = y
    <3>1. CASE y # None
      BY <2>7, <2>8, <3>1
    <3>2. CASE y = None
      <4>1. x = None
        BY <1>2, <3>2 DEF AreSteps
      <4>2. AsProcessed(scope, p.default) = None
        BY <1>2, <4>1 DEF AreSteps
      <4> QED
        BY <2>7, <2>8, <3>2, <4>2
    <3> QED
      BY <3>1, <3>2
  <2>10. p.subset_of # None /\ y # None => IsArray(y) /\ ToSet(y.elements) \subseteq p.subset_of
    BY <1>2 DEF AreSteps
  <2>11. Narrowed(p, y) = y
    <3>1. y \in Given
      BY <1>2 DEF AreSteps
    <3>2. CASE p.subset_of = None \/ y = None
      BY <3>2 DEF Narrowed
    <3>3. CASE p.subset_of # None /\ y # None
      BY <2>10, <3>1, <3>3, NarrowedIs
    <3> QED
      BY <3>2, <3>3
  <2>12. Applied(scope, p, v) = v
    BY <1>3, <2>9, <2>11 DEF Applied, x2
  <2>13. Applies(scope, p, v)
    <3>1. Present(scope, p, v) = y
      BY <2>9 DEF x2
    <3>2. p.add # None => Assigned(scope, p, v) = None \/ IsArray(Assigned(scope, p, v))
      BY <2>1, <2>6
    <3>3. p.one_of # None => y = None \/ AsWritten(scope, y) \in p.one_of
      <4> SUFFICES ASSUME p.one_of # None, y # None
                   PROVE  AsWritten(scope, y) \in p.one_of
        OBVIOUS
      <4>1. p.subset_of = None
        BY DEF Valid, OneOfStandsAlone
      <4> QED
        BY <1>2, <4>1 DEF AreSteps
    <3>4. p.subset_of # None \/ p.superset_of # None => y = None \/ IsArray(y)
      BY <1>2, <2>10 DEF AreSteps
    <3>5. p.superset_of # None /\ y # None => p.superset_of \subseteq ToSet(Narrowed(p, y).elements)
      BY <1>2, <2>11 DEF AreSteps
    <3>6. p.essential = TRUE => y # None
      BY <1>2 DEF AreSteps
    <3> QED
      BY <2>4, <2>12, <3>1, <3>2, <3>3, <3>4, <3>5, <3>6 DEF Applies
  <2>14. Resolved(f, p, v) = v
    BY <1>3, <2>12 DEF Resolved, scope
  <2> QED
    BY <1>1, <1>3, <2>13, <2>14 DEF Resolves, scope
<1> QED
  BY <1>4, <1>5

-----------------------------------------------------------------------------
(* Merging policies.                                                       *)

\* The policy `r` demands all that `p` does, or more.
IsAsStrict(r, p) ==
  /\ p.value # None => r.value = p.value
  /\ p.add # None => r.add # None /\ p.add \subseteq r.add
  /\ p.default # None => r.default = p.default
  /\ p.one_of # None => r.one_of # None /\ r.one_of \subseteq p.one_of
  /\ p.subset_of # None => r.subset_of # None /\ r.subset_of \subseteq p.subset_of
  /\ p.superset_of # None => r.superset_of # None /\ p.superset_of \subseteq r.superset_of
  /\ p.essential = TRUE => r.essential = TRUE
  /\ p.additional \subseteq r.additional

LEMMA StrictnessIsTransitive ==
  ASSUME NEW q, NEW r, NEW p, IsAsStrict(q, r), IsAsStrict(r, p)
  PROVE  IsAsStrict(q, p)
<1>1. /\ p.value # None => q.value = p.value \/ r.value = None
      /\ p.default # None => q.default = p.default \/ r.default = None
  BY DEF IsAsStrict
<1>2. /\ p.value # None => r.value # None /\ r.value = p.value
      /\ p.default # None => r.default # None /\ r.default = p.default
  BY DEF IsAsStrict
<1> QED
  BY <1>1, <1>2 DEF IsAsStrict

\* What complies with a policy complies with a less strict one.
LEMMA StricterComplies ==
  ASSUME NEW scope \in BOOLEAN, NEW r, NEW p, NEW v, IsAsStrict(r, p), Complies(scope, r, v)
  PROVE  Complies(scope, p, v)
<1> DEFINE values == IF v = None THEN {} ELSE ValuesOf(AsProcessed(scope, v))
<1>1. /\ r.value # None =>
           IF r.value = Null THEN values = {} ELSE v = AsWritten(scope, AsProcessed(scope, r.value))
      /\ r.add # None => v # None /\ r.add \subseteq values
      /\ r.default # None => v # None
      /\ r.one_of # None => v = None \/ v \in r.one_of
      /\ r.subset_of # None => values \subseteq r.subset_of
      /\ r.superset_of # None => v = None \/ r.superset_of \subseteq values
      /\ r.essential = TRUE => v # None
  BY DEF Complies
<1> HIDE DEF values
<1>2. p.value # None =>
        IF p.value = Null THEN values = {} ELSE v = AsWritten(scope, AsProcessed(scope, p.value))
  BY <1>1 DEF IsAsStrict
<1>3. p.add # None => v # None /\ p.add \subseteq values
  BY <1>1 DEF IsAsStrict
<1>4. p.default # None => v # None
  BY <1>1 DEF IsAsStrict
<1>5. p.one_of # None => v = None \/ v \in p.one_of
  BY <1>1 DEF IsAsStrict
<1>6. p.subset_of # None => values \subseteq p.subset_of
  BY <1>1 DEF IsAsStrict
<1>7. p.superset_of # None => v = None \/ p.superset_of \subseteq values
  BY <1>1 DEF IsAsStrict
<1>8. p.essential = TRUE => v # None
  BY <1>1 DEF IsAsStrict
<1> QED
  BY <1>2, <1>3, <1>4, <1>5, <1>6, <1>7, <1>8 DEF Complies, values

\* The operands of a merged policy.
LEMMA OperandsMerge ==
  ASSUME NEW c \in Operands \cup {None}, NEW n \in Operands \cup {None}
  PROVE  /\ Unite(c, n) \in Operands \cup {None} /\ Intersect(c, n) \in Operands \cup {None}
         /\ c # None => Unite(c, n) # None /\ c \subseteq Unite(c, n)
         /\ n # None => Unite(c, n) # None /\ n \subseteq Unite(c, n)
         /\ c # None => Intersect(c, n) # None /\ Intersect(c, n) \subseteq c
         /\ n # None => Intersect(c, n) # None /\ Intersect(c, n) \subseteq n
<1>1. CASE Both(c, n)
  <2>1. c \in Operands /\ n \in Operands
    BY <1>1 DEF Both
  <2>2. IsFiniteSet(c \cup n) /\ IsFiniteSet(c \cap n)
    BY <2>1, FS_Union, FS_Intersection DEF Operands
  <2>3. c \cup n \in Operands /\ c \cap n \in Operands
    BY <2>1, <2>2 DEF Operands
  <2>4. c \cup n # None /\ c \cap n # None
    BY <2>3, NoneAssumption
  <2> QED
    BY <1>1, <2>3, <2>4 DEF Unite, Intersect
<1>2. CASE ~Both(c, n)
  BY <1>2 DEF Both, Unite, Intersect, Either
<1> QED
  BY <1>1, <1>2

\* A merged policy is one, with an operator, as strict as both it was merged of.
LEMMA MergedIsAsStrict ==
  ASSUME NEW c \in Policies, NEW n \in Policies, CanMerge(c, n)
  PROVE  /\ Merged(c, n) \in Policies
         /\ IsAsStrict(Merged(c, n), c) /\ IsAsStrict(Merged(c, n), n)
         /\ HasOperator(c) => HasOperator(Merged(c, n))
<1> DEFINE m == Merged(c, n)
<1>1. /\ c.value \in Values \cup {None} /\ n.value \in Values \cup {None}
      /\ c.default \in Values \cup {None} /\ n.default \in Values \cup {None}
      /\ c.add \in Operands \cup {None} /\ n.add \in Operands \cup {None}
      /\ c.one_of \in Operands \cup {None} /\ n.one_of \in Operands \cup {None}
      /\ c.subset_of \in Operands \cup {None} /\ n.subset_of \in Operands \cup {None}
      /\ c.superset_of \in Operands \cup {None} /\ n.superset_of \in Operands \cup {None}
      /\ c.essential \in BOOLEAN \cup {None} /\ n.essential \in BOOLEAN \cup {None}
      /\ c.additional \in SUBSET STRING /\ n.additional \in SUBSET STRING
  BY DEF Policies
<1>2. /\ m.value = Either(c.value, n.value)
      /\ m.add = Unite(c.add, n.add)
      /\ m.default = Either(c.default, n.default)
      /\ m.one_of = Intersect(c.one_of, n.one_of)
      /\ m.subset_of = Intersect(c.subset_of, n.subset_of)
      /\ m.superset_of = Unite(c.superset_of, n.superset_of)
      /\ m.essential = IF Both(c.essential, n.essential)
                       THEN c.essential \/ n.essential
                       ELSE Either(c.essential, n.essential)
      /\ m.additional = c.additional \cup n.additional
  BY DEF Merged
<1>3. /\ m.value \in Values \cup {None} /\ m.default \in Values \cup {None}
      /\ c.value # None => m.value = c.value
      /\ n.value # None => m.value = n.value
      /\ c.default # None => m.default = c.default
      /\ n.default # None => m.default = n.default
  BY <1>1, <1>2 DEF Either, CanMerge, Both
<1> HIDE DEF m
<1>4. /\ m.add \in Operands \cup {None} /\ m.superset_of \in Operands \cup {None}
      /\ c.add # None => m.add # None /\ c.add \subseteq m.add
      /\ n.add # None => m.add # None /\ n.add \subseteq m.add
      /\ c.superset_of # None => m.superset_of # None /\ c.superset_of \subseteq m.superset_of
      /\ n.superset_of # None => m.superset_of # None /\ n.superset_of \subseteq m.superset_of
  <2>1. \A o, q \in Operands \cup {None} :
          /\ Unite(o, q) \in Operands \cup {None}
          /\ o # None => Unite(o, q) # None /\ o \subseteq Unite(o, q)
          /\ q # None => Unite(o, q) # None /\ q \subseteq Unite(o, q)
    BY OperandsMerge
  <2>2. /\ m.add \in Operands \cup {None}
        /\ c.add # None => m.add # None /\ c.add \subseteq m.add
        /\ n.add # None => m.add # None /\ n.add \subseteq m.add
    <3>1. m.add = Unite(c.add, n.add)
      BY <1>2
    <3>2. c.add \in Operands \cup {None} /\ n.add \in Operands \cup {None}
      BY <1>1
    <3>3. /\ Unite(c.add, n.add) \in Operands \cup {None}
          /\ c.add # None => Unite(c.add, n.add) # None /\ c.add \subseteq Unite(c.add, n.add)
          /\ n.add # None => Unite(c.add, n.add) # None /\ n.add \subseteq Unite(c.add, n.add)
      BY <2>1, <3>2, Zenon
    <3> QED
      BY <3>1, <3>3
  <2>3. /\ m.superset_of \in Operands \cup {None}
        /\ c.superset_of # None => m.superset_of # None /\ c.superset_of \subseteq m.superset_of
        /\ n.superset_of # None => m.superset_of # None /\ n.superset_of \subseteq m.superset_of
    <3>1. m.superset_of = Unite(c.superset_of, n.superset_of)
      BY <1>2
    <3>2. c.superset_of \in Operands \cup {None} /\ n.superset_of \in Operands \cup {None}
      BY <1>1
    <3>3. /\ Unite(c.superset_of, n.superset_of) \in Operands \cup {None}
          /\ c.superset_of # None => Unite(c.superset_of, n.superset_of) # None /\ c.superset_of \subseteq Unite(c.superset_of, n.superset_of)
          /\ n.superset_of # None => Unite(c.superset_of, n.superset_of) # None /\ n.superset_of \subseteq Unite(c.superset_of, n.superset_of)
      BY <2>1, <3>2, Zenon
    <3> QED
      BY <3>1, <3>3
  <2> QED
    BY <2>2, <2>3
<1>5. /\ m.one_of \in Operands \cup {None} /\ m.subset_of \in Operands \cup {None}
      /\ c.one_of # None => m.one_of # None /\ m.one_of \subseteq c.one_of
      /\ n.one_of # None => m.one_of # None /\ m.one_of \subseteq n.one_of
      /\ c.subset_of # None => m.subset_of # None /\ m.subset_of \subseteq c.subset_of
      /\ n.subset_of # None => m.subset_of # None /\ m.subset_of \subseteq n.subset_of
  <2>1. \A o, q \in Operands \cup {None} :
          /\ Intersect(o, q) \in Operands \cup {None}
          /\ o # None => Intersect(o, q) # None /\ Intersect(o, q) \subseteq o
          /\ q # None => Intersect(o, q) # None /\ Intersect(o, q) \subseteq q
    BY OperandsMerge
  <2>2. /\ m.one_of \in Operands \cup {None}
        /\ c.one_of # None => m.one_of # None /\ m.one_of \subseteq c.one_of
        /\ n.one_of # None => m.one_of # None /\ m.one_of \subseteq n.one_of
    <3>1. m.one_of = Intersect(c.one_of, n.one_of)
      BY <1>2
    <3>2. c.one_of \in Operands \cup {None} /\ n.one_of \in Operands \cup {None}
      BY <1>1
    <3>3. /\ Intersect(c.one_of, n.one_of) \in Operands \cup {None}
          /\ c.one_of # None => Intersect(c.one_of, n.one_of) # None /\ Intersect(c.one_of, n.one_of) \subseteq c.one_of
          /\ n.one_of # None => Intersect(c.one_of, n.one_of) # None /\ Intersect(c.one_of, n.one_of) \subseteq n.one_of
      BY <2>1, <3>2, Zenon
    <3> QED
      BY <3>1, <3>3
  <2>3. /\ m.subset_of \in Operands \cup {None}
        /\ c.subset_of # None => m.subset_of # None /\ m.subset_of \subseteq c.subset_of
        /\ n.subset_of # None => m.subset_of # None /\ m.subset_of \subseteq n.subset_of
    <3>1. m.subset_of = Intersect(c.subset_of, n.subset_of)
      BY <1>2
    <3>2. c.subset_of \in Operands \cup {None} /\ n.subset_of \in Operands \cup {None}
      BY <1>1
    <3>3. /\ Intersect(c.subset_of, n.subset_of) \in Operands \cup {None}
          /\ c.subset_of # None => Intersect(c.subset_of, n.subset_of) # None /\ Intersect(c.subset_of, n.subset_of) \subseteq c.subset_of
          /\ n.subset_of # None => Intersect(c.subset_of, n.subset_of) # None /\ Intersect(c.subset_of, n.subset_of) \subseteq n.subset_of
      BY <2>1, <3>2, Zenon
    <3> QED
      BY <3>1, <3>3
  <2> QED
    BY <2>2, <2>3
<1>6. /\ m.essential \in BOOLEAN \cup {None}
      /\ c.essential # None => m.essential # None
      /\ c.essential = TRUE => m.essential = TRUE
      /\ n.essential = TRUE => m.essential = TRUE
  BY <1>1, <1>2, NoneAssumption DEF Both, Either
<1>7. m.additional \in SUBSET STRING
  BY <1>1, <1>2
<1>8. m \in Policies
  <2>1. m = [value |-> m.value, add |-> m.add, default |-> m.default, one_of |-> m.one_of,
             subset_of |-> m.subset_of, superset_of |-> m.superset_of,
             essential |-> m.essential, additional |-> m.additional]
    BY DEF Merged, m
  <2> QED
    BY <1>3, <1>4, <1>5, <1>6, <1>7, <2>1 DEF Policies
<1>9. IsAsStrict(m, c) /\ IsAsStrict(m, n)
  BY <1>2, <1>3, <1>4, <1>5, <1>6 DEF IsAsStrict
<1>10. ASSUME m = NoOperators
       PROVE  c = NoOperators
  <2>1. /\ m.value = None /\ m.add = None /\ m.default = None /\ m.one_of = None
        /\ m.subset_of = None /\ m.superset_of = None /\ m.essential = None /\ m.additional = {}
    BY <1>10 DEF NoOperators
  <2>2. /\ c.value = None /\ c.add = None /\ c.default = None /\ c.one_of = None
        /\ c.subset_of = None /\ c.superset_of = None /\ c.essential = None /\ c.additional = {}
    BY <1>2, <1>3, <1>4, <1>5, <1>6, <2>1
  <2>3. c = [value |-> c.value, add |-> c.add, default |-> c.default, one_of |-> c.one_of,
             subset_of |-> c.subset_of, superset_of |-> c.superset_of,
             essential |-> c.essential, additional |-> c.additional]
    BY DEF Policies
  <2> QED
    BY <2>2, <2>3 DEF NoOperators
<1> QED
  BY <1>8, <1>9, <1>10 DEF HasOperator, m

\* A merged policy demands nothing that neither of the two did.
LEMMA MergedDemandsNoMore ==
  ASSUME NEW c \in Policies, NEW n \in Policies,
         NEW scope \in BOOLEAN, NEW v, Complies(scope, c, v), Complies(scope, n, v)
  PROVE  Complies(scope, Merged(c, n), v)
<1> DEFINE m == Merged(c, n)
           values == IF v = None THEN {} ELSE ValuesOf(AsProcessed(scope, v))
           IsValue(w) == IF w = Null THEN values = {} ELSE v = AsWritten(scope, AsProcessed(scope, w))
<1>1. \A p \in {c, n} :
        /\ p.value # None => IsValue(p.value)
        /\ p.add # None => v # None /\ p.add \subseteq values
        /\ p.default # None => v # None
        /\ p.one_of # None => v = None \/ v \in p.one_of
        /\ p.subset_of # None => values \subseteq p.subset_of
        /\ p.superset_of # None => v = None \/ p.superset_of \subseteq values
        /\ p.essential = TRUE => v # None
  BY DEF Complies
<1>2. /\ m.value = Either(c.value, n.value) /\ m.default = Either(c.default, n.default)
      /\ m.add = Unite(c.add, n.add) /\ m.superset_of = Unite(c.superset_of, n.superset_of)
      /\ m.one_of = Intersect(c.one_of, n.one_of) /\ m.subset_of = Intersect(c.subset_of, n.subset_of)
      /\ m.essential = IF Both(c.essential, n.essential)
                       THEN c.essential \/ n.essential
                       ELSE Either(c.essential, n.essential)
  BY DEF Merged
<1> HIDE DEF m, values, IsValue
<1>3. m.value # None => IsValue(m.value)
  <2>1. m.value = IF c.value = None THEN n.value ELSE c.value
    BY <1>2 DEF Either
  <2> QED
    BY <1>1, <2>1
<1>4. m.add # None => v # None /\ m.add \subseteq values
  BY <1>1, <1>2 DEF Unite, Either, Both
<1>5. m.default # None => v # None
  BY <1>1, <1>2 DEF Either
<1>6. m.one_of # None => v = None \/ v \in m.one_of
  BY <1>1, <1>2 DEF Intersect, Either, Both
<1>7. m.subset_of # None => values \subseteq m.subset_of
  BY <1>1, <1>2 DEF Intersect, Either, Both
<1>8. m.superset_of # None => v = None \/ m.superset_of \subseteq values
  BY <1>1, <1>2 DEF Unite, Either, Both
<1>9. m.essential = TRUE => v # None
  <2>1. c.essential \in BOOLEAN \cup {None} /\ n.essential \in BOOLEAN \cup {None}
    BY DEF Policies
  <2>2. m.essential = TRUE => c.essential = TRUE \/ n.essential = TRUE
    BY <1>2, <2>1, NoneAssumption DEF Both, Either
  <2> QED
    BY <1>1, <2>2
<1> QED
  BY <1>3, <1>4, <1>5, <1>6, <1>7, <1>8, <1>9 DEF Complies, values, IsValue, m

-----------------------------------------------------------------------------
(* The resolution.                                                         *)

\* Every policy above the next statement is in the resolved one, and none of
\* them uses an operator that the chain calls critical.
ResolvedInv ==
  /\ \A i \in 1..(at - 1) :
       statements[i].policy # None =>
         /\ resolved # None /\ IsAsStrict(resolved, statements[i].policy)
         /\ statements[i].policy.additional \cap Critical = {}
  /\ outcome = "resolved" => at > Len(statements)

PolicyInv == TypeOK /\ ResolvedInv

LEMMA StatementTypes ==
  ASSUME NEW chain \in Chains
  PROVE  /\ Len(chain) \in Nat /\ DOMAIN chain = 1..Len(chain)
         /\ \A i \in 1..Len(chain) : chain[i].policy \in Policies \cup {None}
<1>1. chain \in Seq(Statements)
  BY InputsAssumption
<1>2. Len(chain) \in Nat /\ DOMAIN chain = 1..Len(chain)
  BY <1>1
<1>3. \A i \in 1..Len(chain) : chain[i] \in Statements
  BY <1>1
<1> QED
  BY <1>2, <1>3 DEF Statements

LEMMA PolicyInvInitially == Init => PolicyInv
<1> SUFFICES ASSUME Init
             PROVE  PolicyInv
  OBVIOUS
<1>1. statements \in Chains /\ at = 1 /\ resolved = None /\ outcome = "resolving"
  BY DEF Init
<1>2. Len(statements) \in Nat
  BY <1>1, StatementTypes
<1> QED
  BY <1>1, <1>2 DEF PolicyInv, TypeOK, ResolvedInv

\* A step that takes in the policy of the next statement.
LEMMA TakingInPreserves ==
  ASSUME PolicyInv, Resolving, Policy # None, Policy.additional \cap Critical = {},
         resolved' \in Policies, HasOperator(resolved'), Valid(resolved'),
         IsAsStrict(resolved', Policy), resolved # None => IsAsStrict(resolved', resolved),
         at' = at + 1, UNCHANGED <<statements, outcome>>
  PROVE  PolicyInv'
<1>1. statements \in Chains /\ at \in 1..(Len(statements) + 1) /\ outcome = "resolving"
  BY DEF PolicyInv, TypeOK, Resolving
<1>2. Len(statements) \in Nat /\ at \in Nat /\ at <= Len(statements) /\ at >= 1
  BY <1>1, StatementTypes DEF Resolving
<1>3. resolved' # None
  BY NoneAssumption
<1>4. TypeOK'
  <2>1. at' \in 1..(Len(statements) + 1)
    BY <1>2
  <2> QED
    BY <1>1, <2>1 DEF TypeOK
<1>5. ASSUME NEW i \in 1..(at' - 1), statements'[i].policy # None
      PROVE  /\ resolved' # None /\ IsAsStrict(resolved', statements'[i].policy)
             /\ statements'[i].policy.additional \cap Critical' = {}
  <2>1. statements'[i] = statements[i] /\ Critical' = Critical
    BY DEF Critical
  <2>2. CASE i = at
    BY <1>3, <2>1, <2>2 DEF Policy
  <2>3. CASE i # at
    <3>1. i \in 1..(at - 1)
      BY <1>2, <2>3
    <3>2. /\ resolved # None /\ IsAsStrict(resolved, statements[i].policy)
          /\ statements[i].policy.additional \cap Critical = {}
      BY <1>5, <2>1, <3>1 DEF PolicyInv, ResolvedInv
    <3>3. IsAsStrict(resolved', statements[i].policy)
      BY <3>2, StrictnessIsTransitive
    <3> QED
      BY <1>3, <2>1, <3>2, <3>3
  <2> QED
    BY <2>2, <2>3
<1>6. outcome' # "resolved"
  BY <1>1
<1> QED
  BY <1>4, <1>5, <1>6 DEF PolicyInv, ResolvedInv

LEMMA PolicyInvPreserved == PolicyInv /\ [Next]_vars => PolicyInv'
<1> SUFFICES ASSUME PolicyInv, [Next]_vars
             PROVE  PolicyInv'
  OBVIOUS
<1>1. /\ statements \in Chains /\ at \in 1..(Len(statements) + 1)
      /\ resolved # None => resolved \in Policies /\ HasOperator(resolved) /\ Valid(resolved)
  BY DEF PolicyInv, TypeOK
<1>2. /\ Len(statements) \in Nat /\ at \in Nat /\ at >= 1 /\ at <= Len(statements) + 1
      /\ \A i \in 1..Len(statements) : statements[i].policy \in Policies \cup {None}
  BY <1>1, StatementTypes
<1>3. Resolving /\ Policy # None => Policy \in Policies
  BY <1>2 DEF Resolving, Policy
<1>4. CASE SkipStatement
  <2>1. /\ Resolving /\ Policy = None /\ at' = at + 1
        /\ statements' = statements /\ resolved' = resolved /\ outcome' = outcome
    BY <1>4 DEF SkipStatement
  <2>2. at <= Len(statements) /\ outcome = "resolving"
    BY <2>1 DEF Resolving
  <2>3. TypeOK'
    <3>1. at' \in 1..(Len(statements) + 1)
      BY <1>2, <2>1, <2>2
    <3> QED
      BY <1>1, <2>1, <2>2, <3>1 DEF TypeOK
  <2>4. ASSUME NEW i \in 1..(at' - 1), statements'[i].policy # None
        PROVE  /\ resolved' # None /\ IsAsStrict(resolved', statements'[i].policy)
               /\ statements'[i].policy.additional \cap Critical' = {}
    <3>1. statements'[i] = statements[i] /\ Critical' = Critical
      BY <2>1 DEF Critical
    <3>2. i # at
      BY <2>1, <2>4, <3>1 DEF Policy
    <3>3. i \in 1..(at - 1)
      BY <1>2, <2>1, <3>2
    <3> QED
      BY <2>1, <2>4, <3>1, <3>3 DEF PolicyInv, ResolvedInv
  <2> QED
    BY <2>1, <2>2, <2>3, <2>4 DEF PolicyInv, ResolvedInv
<1>5. CASE TakeFirst
  <2>1. /\ Resolving /\ Policy # None /\ IsUnderstood(Policy) /\ resolved = None
        /\ resolved' = Policy /\ at' = at + 1 /\ UNCHANGED <<statements, outcome>>
    BY <1>5 DEF TakeFirst
  <2>2. Policy \in Policies
    BY <1>3, <2>1
  <2>3. HasOperator(Policy) /\ Valid(Policy) /\ Policy.additional \cap Critical = {}
    BY <2>1 DEF IsUnderstood
  <2>4. IsAsStrict(Policy, Policy)
    BY DEF IsAsStrict
  <2> QED
    BY <2>1, <2>2, <2>3, <2>4, TakingInPreserves
<1>6. CASE MergeNext
  <2>1. /\ Resolving /\ Policy # None /\ IsUnderstood(Policy) /\ resolved # None
        /\ CanMerge(resolved, Policy) /\ Valid(Merged(resolved, Policy))
        /\ resolved' = Merged(resolved, Policy) /\ at' = at + 1 /\ UNCHANGED <<statements, outcome>>
    BY <1>6 DEF MergeNext
  <2>2. Policy \in Policies /\ resolved \in Policies /\ HasOperator(resolved)
    BY <1>1, <1>3, <2>1
  <2>3. Policy.additional \cap Critical = {}
    BY <2>1 DEF IsUnderstood
  <2>4. /\ Merged(resolved, Policy) \in Policies /\ HasOperator(Merged(resolved, Policy))
        /\ IsAsStrict(Merged(resolved, Policy), resolved)
        /\ IsAsStrict(Merged(resolved, Policy), Policy)
    BY <2>1, <2>2, MergedIsAsStrict
  <2> QED
    BY <2>1, <2>3, <2>4, TakingInPreserves
<1>7. CASE Refuse
  <2>1. outcome' = "refused" /\ statements' = statements /\ at' = at /\ resolved' = resolved
    BY <1>7 DEF Refuse
  <2> QED
    BY <2>1 DEF PolicyInv, TypeOK, ResolvedInv, Critical
<1>8. CASE Finish
  <2>1. /\ at > Len(statements) /\ outcome' = "resolved"
        /\ statements' = statements /\ at' = at /\ resolved' = resolved
    BY <1>8 DEF Finish
  <2> QED
    BY <2>1 DEF PolicyInv, TypeOK, ResolvedInv, Critical
<1>9. CASE UNCHANGED vars
  <2>1. statements' = statements /\ at' = at /\ resolved' = resolved /\ outcome' = outcome
    BY <1>9 DEF vars
  <2> QED
    BY <2>1 DEF PolicyInv, TypeOK, ResolvedInv, Critical
<1> QED
  BY <1>4, <1>5, <1>6, <1>7, <1>8, <1>9 DEF Next

LEMMA PolicyInvariant == Spec => []PolicyInv
BY PolicyInvInitially, PolicyInvPreserved, PTL DEF Spec

-----------------------------------------------------------------------------
(* Theorems.                                                               *)

\* Whatever is merged, the resolved policy is one that an entity could have
\* published, as apply_operators takes for granted.
THEOREM TypeCorrect == Spec => []TypeOK
<1>1. PolicyInv => TypeOK
  BY DEF PolicyInv
<1> QED
  BY <1>1, PolicyInvariant, PTL

\* At the end of a resolution, what holds of every policy of the chain.
LEMMA ResolvedHoldsAll ==
  ASSUME PolicyInv, outcome = "resolved", NEW i \in DOMAIN statements,
         statements[i].policy # None
  PROVE  /\ resolved # None /\ IsAsStrict(resolved, statements[i].policy)
         /\ statements[i].policy.additional \cap Critical = {}
<1>1. Len(statements) \in Nat /\ DOMAIN statements = 1..Len(statements) /\ at \in 1..(Len(statements) + 1)
  BY StatementTypes DEF PolicyInv, TypeOK
<1>2. i \in 1..(at - 1)
  BY <1>1 DEF PolicyInv, ResolvedInv
<1> QED
  BY <1>2 DEF PolicyInv, ResolvedInv

\* resolve_metadata_policy resolves no chain in which a statement calls an
\* operator critical that a policy above or below it uses.
THEOREM CriticalIsHonoured == Spec => []CriticalIsNeverIgnored
<1>1. PolicyInv => CriticalIsNeverIgnored
  <2> SUFFICES ASSUME PolicyInv, outcome = "resolved",
                      NEW i \in DOMAIN statements, NEW j \in DOMAIN statements,
                      statements[i].policy # None
               PROVE  statements[i].policy.additional \cap statements[j].crit = {}
    BY DEF CriticalIsNeverIgnored
  <2>1. statements[i].policy.additional \cap Critical = {}
    BY ResolvedHoldsAll
  <2>2. statements[j].crit \subseteq Critical
    BY DEF Critical
  <2> QED
    BY <2>1, <2>2
<1> QED
  BY <1>1, PolicyInvariant, PTL

\* Whatever a subject publishes, what apply_metadata_policy makes of it under
\* the resolved policy complies with every policy of the chain.
THEOREM NothingIsLoosened == Spec => []NoSubordinateLoosens
<1>1. PolicyInv => NoSubordinateLoosens
  <2> SUFFICES ASSUME PolicyInv, outcome = "resolved", resolved # None,
                      NEW f \in Parameters, NEW given \in Published(f),
                      Resolves(f, resolved, given), ScopeOfWords(f, resolved, given),
                      NEW i \in DOMAIN statements, statements[i].policy # None
               PROVE  Complies(IsScope(f), statements[i].policy, Resolved(f, resolved, given))
    BY DEF NoSubordinateLoosens
  <2>1. resolved \in Policies /\ Valid(resolved)
    BY DEF PolicyInv, TypeOK
  <2>2. Complies(IsScope(f), resolved, Resolved(f, resolved, given))
    BY <2>1, PolicyIsDelivered
  <2>3. IsAsStrict(resolved, statements[i].policy)
    BY ResolvedHoldsAll
  <2>4. IsScope(f) \in BOOLEAN
    BY DEF IsScope
  <2> QED
    BY <2>2, <2>3, <2>4, StricterComplies
<1> QED
  BY <1>1, PolicyInvariant, PTL

\* What the resolved policy demands is what the policies above the next
\* statement demand together.
DemandsExactly ==
  resolved # None =>
    \A scope \in BOOLEAN : \A v \in Values \cup {None} :
      Complies(scope, resolved, v) <=>
        \A i \in 1..(at - 1) :
          statements[i].policy # None => Complies(scope, statements[i].policy, v)

LEMMA DemandsAreKept ==
  ASSUME PolicyInv, DemandsExactly, [Next]_vars
  PROVE  DemandsExactly'
<1>1. /\ Len(statements) \in Nat /\ at \in 1..(Len(statements) + 1)
      /\ DOMAIN statements = 1..Len(statements) /\ statements \in Seq(Statements)
  BY StatementTypes, InputsAssumption DEF PolicyInv, TypeOK
<1>2. CASE UNCHANGED vars \/ Refuse \/ Finish
  <2>1. UNCHANGED <<statements, at, resolved>>
    BY <1>2 DEF vars, Refuse, Finish
  <2> QED
    BY <2>1 DEF DemandsExactly
<1>3. CASE SkipStatement \/ TakeFirst \/ MergeNext
  <2>1. /\ at \in 1..Len(statements) /\ statements' = statements /\ at' = at + 1
        /\ 1..(at' - 1) = 1..(at - 1) \cup {at}
    BY <1>1, <1>3 DEF SkipStatement, TakeFirst, MergeNext, Resolving
  <2> SUFFICES ASSUME resolved' # None, NEW scope \in BOOLEAN, NEW v \in Values \cup {None}
               PROVE  Complies(scope, resolved', v) <=>
                        /\ \A i \in 1..(at - 1) :
                             statements[i].policy # None => Complies(scope, statements[i].policy, v)
                        /\ Policy # None => Complies(scope, Policy, v)
    BY <2>1 DEF DemandsExactly, Policy
  <2> DEFINE Above == \A i \in 1..(at - 1) :
                       statements[i].policy # None => Complies(scope, statements[i].policy, v)
  <2>2. resolved # None => (Complies(scope, resolved, v) <=> Above)
    BY DEF DemandsExactly
  <2>3. resolved = None => Above
    BY DEF PolicyInv, ResolvedInv
  <2> HIDE DEF Above
  <2>4. CASE SkipStatement
    <3>1. Policy = None /\ resolved' = resolved
      BY <2>4 DEF SkipStatement
    <3> QED
      BY <2>2, <3>1 DEF Above
  <2>5. CASE TakeFirst
    <3>1. Policy # None /\ resolved' = Policy /\ resolved = None
      BY <2>5 DEF TakeFirst
    <3> QED
      BY <2>3, <3>1 DEF Above
  <2>6. CASE MergeNext
    <3>1. /\ Policy # None /\ resolved # None /\ CanMerge(resolved, Policy)
          /\ resolved' = Merged(resolved, Policy)
      BY <2>6 DEF MergeNext
    <3>2. resolved \in Policies /\ Policy \in Policies
      <4>1. statements[at] \in Statements
        BY <1>1, <2>1
      <4> QED
        BY <3>1, <4>1 DEF PolicyInv, TypeOK, Policy, Statements
    <3>3. Complies(scope, resolved', v) <=> Complies(scope, resolved, v) /\ Complies(scope, Policy, v)
      <4>1. IsAsStrict(resolved', resolved) /\ IsAsStrict(resolved', Policy)
        BY <3>1, <3>2, MergedIsAsStrict
      <4>2. ASSUME Complies(scope, resolved', v)
            PROVE  Complies(scope, resolved, v) /\ Complies(scope, Policy, v)
        BY <4>1, <4>2, StricterComplies
      <4>3. ASSUME Complies(scope, resolved, v), Complies(scope, Policy, v)
            PROVE  Complies(scope, resolved', v)
        BY <3>1, <3>2, <4>3, MergedDemandsNoMore
      <4> QED
        BY <4>2, <4>3
    <3> QED
      BY <2>2, <3>1, <3>3 DEF Above
  <2> QED
    BY <1>3, <2>4, <2>5, <2>6
<1> QED
  BY <1>2, <1>3 DEF Next

\* merge_operators neither loosens nor tightens: a value complies with the
\* resolved policy exactly if it complies with every policy merged into it.
THEOREM MergingDemandsExactly == Spec => []DemandsExactly
<1>1. Init => DemandsExactly
  BY DEF Init, DemandsExactly
<1>2. PolicyInv /\ DemandsExactly /\ [Next]_vars => DemandsExactly'
  BY DemandsAreKept
<1> QED
  BY <1>1, <1>2, PolicyInvariant, PTL DEF Spec

\* Applying a resolved policy again to Resolved Metadata changes nothing.
THEOREM AppliedOnceIsEnough == Spec => []ApplicationIsIdempotent
<1>1. PolicyInv => ApplicationIsIdempotent
  <2> SUFFICES ASSUME PolicyInv, outcome = "resolved", resolved # None,
                      NEW f \in Parameters, NEW given \in Published(f),
                      Resolves(f, resolved, given), ScopeOfWords(f, resolved, given),
                      NEW v, v = Resolved(f, resolved, given)
               PROVE  /\ Held(f, v) = v /\ Fits(f, v)
                      /\ Resolves(f, resolved, v) /\ Resolved(f, resolved, v) = v
    BY DEF ApplicationIsIdempotent
  <2>1. resolved \in Policies /\ Valid(resolved)
    BY DEF PolicyInv, TypeOK
  <2> QED
    BY <2>1, SecondApplicationChangesNothing
<1> QED
  BY <1>1, PolicyInvariant, PTL
=============================================================================
