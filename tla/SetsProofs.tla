----------------------------- MODULE SetsProofs -----------------------------
(***************************************************************************)
(* The methods of string sets do what set algebra says and keep their      *)
(* receiver, for sets and arguments of any size.                           *)
(***************************************************************************)
EXTENDS StringSets, FiniteSetTheorems, SequenceTheorems, TLAPS

LEMMA RangeOfTail ==
  ASSUME NEW s \in Seq(Keys), s # <<>>
  PROVE  Range(s) = {Head(s)} \cup Range(Tail(s)) /\ Tail(s) \in Seq(Keys) /\ Head(s) \in Keys
<1>1. /\ Len(s) \in Nat \ {0} /\ DOMAIN s = 1 .. Len(s)
      /\ Tail(s) \in Seq(Keys) /\ Len(Tail(s)) = Len(s) - 1 /\ Head(s) \in Keys
      /\ \A i \in 1 .. Len(Tail(s)) : Tail(s)[i] = s[i + 1]
      /\ DOMAIN Tail(s) = 1 .. Len(Tail(s))
  BY EmptySeq, LenProperties, HeadTailProperties
<1>2. Head(s) = s[1]
  BY <1>1
<1>3. ASSUME NEW i \in 1 .. Len(s) PROVE s[i] \in {Head(s)} \cup Range(Tail(s))
  <2>1. CASE i = 1
    BY <1>2, <2>1
  <2>2. CASE i # 1
    <3>1. i - 1 \in 1 .. Len(Tail(s)) /\ Tail(s)[i - 1] = s[i]
      BY <1>1, <2>2
    <3> QED
      BY <1>1, <3>1 DEF Range
  <2> QED
    BY <2>1, <2>2
<1>4. ASSUME NEW i \in 1 .. Len(Tail(s)) PROVE Tail(s)[i] \in Range(s)
  <2>1. i + 1 \in DOMAIN s /\ Tail(s)[i] = s[i + 1]
    BY <1>1
  <2> QED
    BY <2>1 DEF Range
<1>5. Head(s) \in Range(s)
  BY <1>1, <1>2 DEF Range
<1> QED
  BY <1>1, <1>3, <1>4, <1>5 DEF Range

LEMMA RangeOfEmpty == Range(<<>>) = {}
BY DEF Range

\* What is given to a method.
LEMMA GivenItems ==
  ASSUME NEW args \in BoundedSeq(Keys, MaxItems)
  PROVE  args \in Seq(Keys)
<1>1. PICK n \in 0 .. MaxItems : args \in [1 .. n -> Keys]
  BY DEF BoundedSeq, SeqOf
<1> QED
  BY <1>1, IsASeq, KeysAssumption

-----------------------------------------------------------------------------
(* What methods return.                                                    *)

SetArgument == {"Difference", "Intersection", "Union", "IsSuperset", "Equal"}

GivenType ==
  /\ set \subseteq Keys
  /\ op \in Variadic => arg \in Seq(Keys)
  /\ op \in Variadic /\ ~done => items \in Seq(Keys)
  /\ op = "Has" /\ ~done => arg \in Keys
  /\ op \in SetArgument => arg \subseteq Keys

\* How far a loop over items is.
ItemsSoFar ==
  /\ op = "NewString" => result \cup Range(items) = Range(arg)
  /\ op = "HasAll"    => (Range(items) \subseteq set <=> Range(arg) \subseteq set)
  /\ op = "HasAny"    => (Range(items) \cap set = {} <=> Range(arg) \cap set = {})

\* How far a loop over a map is: what has been made and what the keys that are
\* left will add to it are the answer.
KeysSoFar ==
  /\ op = "Difference"   => result \cup (todo \ arg) = set \ arg
  /\ op = "Intersection" => todo \subseteq Walked(arg) /\ result \cup (todo \cap set \cap arg) = set \cap arg
  /\ op = "Union"        => result \cup todo \cup later = set \cup arg
  /\ op = "StringKeySet" => result \cup todo = set
  /\ op \in {"IsSuperset", "Equal"} => todo \subseteq arg /\ arg \ todo \subseteq set

\* How far the slice is: each key is in it once.
ListSoFar ==
  op \in {"UnsortedList", "List"} =>
    /\ list \in Seq(Keys) /\ todo \subseteq set /\ Range(list) = set \ todo
    /\ IsInjective(list) /\ Len(list) + Cardinality(todo) = Cardinality(set)

AlgebraInv ==
  /\ GivenType /\ (~done => ItemsSoFar /\ KeysSoFar /\ ListSoFar)
  /\ AnswersAreSetAlgebra /\ ListIsSorted

LEMMA FiniteKeys ==
  ASSUME NEW S, S \subseteq Keys
  PROVE  IsFiniteSet(S) /\ Cardinality(S) \in Nat
BY KeysAssumption, FS_Subset, FS_CardinalityType

LEMMA NextItems ==
  ASSUME AlgebraInv, Insert \/ Delete \/ NewString \/ Has \/ HasAll \/ HasAny
  PROVE  AlgebraInv'
<1> USE DEF AnswersAreSetAlgebra, ListIsSorted, Returned
<1>1. ~done /\ UNCHANGED <<op, arg>> /\ GivenType /\ ItemsSoFar
  BY DEF Insert, Delete, NewString, Has, HasAll, HasAny, Method, Running, AlgebraInv
<1>2. CASE Insert \/ Delete
  <2>1. op \in {"Insert", "Delete"} /\ arg \in Seq(Keys) /\ items \in Seq(Keys)
    BY <1>1, <1>2 DEF Insert, Delete, Method, Running, GivenType, Variadic
  <2>2. set' \subseteq Keys /\ items' \in Seq(Keys)
    BY <1>1, <1>2, <2>1, RangeOfTail DEF Insert, Delete, Answers, NextItem, GivenType
  <2> QED
    BY <1>1, <2>1, <2>2 DEF AlgebraInv, GivenType, ItemsSoFar, KeysSoFar, ListSoFar, SetArgument
<1>3. CASE NewString \/ HasAll \/ HasAny
  <2>1. op \in {"NewString", "HasAll", "HasAny"} /\ arg \in Seq(Keys) /\ items \in Seq(Keys)
    BY <1>1, <1>3 DEF NewString, HasAll, HasAny, Method, Running, GivenType, Variadic
  <2>2. set' = set
    BY <1>3 DEF NewString, HasAll, HasAny, Answers, NextItem
  <2>3. CASE items = <<>>
    <3>1. Range(items) = {}
      BY <2>3, RangeOfEmpty
    <3>2. /\ op = "NewString" => done' /\ ret' = result
          /\ op = "HasAll" => done' /\ ret' = TRUE
          /\ op = "HasAny" => done' /\ ret' = FALSE
      BY <1>3, <2>3 DEF NewString, HasAll, HasAny, Method, Running, Answers, Return
    <3> QED
      BY <1>1, <2>1, <2>2, <3>1, <3>2 DEF AlgebraInv, GivenType, ItemsSoFar, SetArgument
  <2>4. CASE items # <<>>
    <3>1. /\ Range(items) = {Head(items)} \cup Range(Tail(items)) /\ Tail(items) \in Seq(Keys)
      BY <2>1, <2>4, RangeOfTail
    <3>2. /\ op = "NewString" => ~done' /\ result' = result \cup {Head(items)} /\ items' = Tail(items)
          /\ op = "HasAll" => IF Head(items) \in set THEN ~done' /\ items' = Tail(items)
                              ELSE done' /\ ret' = FALSE
          /\ op = "HasAny" => IF Head(items) \notin set THEN ~done' /\ items' = Tail(items)
                              ELSE done' /\ ret' = TRUE
      BY <1>1, <1>3, <2>4
         DEF NewString, HasAll, HasAny, Method, Running, Answers, Return, NextItem, Continue
    <3>3. CASE op = "NewString"
      BY <1>1, <2>1, <2>2, <3>1, <3>2, <3>3
         DEF AlgebraInv, GivenType, ItemsSoFar, KeysSoFar, ListSoFar, SetArgument
    <3>4. CASE op = "HasAll"
      BY <1>1, <2>1, <2>2, <3>1, <3>2, <3>4
         DEF AlgebraInv, GivenType, ItemsSoFar, KeysSoFar, ListSoFar, SetArgument
    <3>5. CASE op = "HasAny"
      <4>1. Range(items) \cap set = {} <=> Range(arg) \cap set = {}
        BY <1>1, <3>5 DEF ItemsSoFar
      <4>2. CASE Head(items) \notin set
        <5>1. ~done' /\ items' = Tail(items)
          BY <3>2, <3>5, <4>2
        <5>2. Range(Tail(items)) \cap set = {} <=> Range(arg) \cap set = {}
          BY <3>1, <4>1, <4>2
        <5> QED
          BY <1>1, <2>1, <2>2, <3>1, <3>5, <5>1, <5>2
             DEF AlgebraInv, GivenType, ItemsSoFar, KeysSoFar, ListSoFar, SetArgument
      <4>3. CASE Head(items) \in set
        <5>1. done' /\ ret' = TRUE /\ Range(arg) \cap set # {}
          BY <3>1, <3>2, <3>5, <4>1, <4>3
        <5> QED
          BY <1>1, <2>1, <2>2, <3>5, <5>1 DEF AlgebraInv, GivenType, SetArgument
      <4> QED
        BY <4>2, <4>3
    <3> QED
      BY <2>1, <3>3, <3>4, <3>5
  <2> QED
    BY <2>3, <2>4
<1>4. CASE Has
  <2>1. op = "Has" /\ set' = set /\ done' /\ ret' = (arg \in set)
    BY <1>4 DEF Has, Method, Running, Answers, Return
  <2> QED
    BY <1>1, <2>1 DEF AlgebraInv, GivenType, SetArgument, Variadic
<1> QED
  BY <1>2, <1>3, <1>4

LEMMA NextKeys ==
  ASSUME AlgebraInv, Difference \/ Intersection \/ Union \/ StringKeySet
  PROVE  AlgebraInv'
<1> USE DEF AnswersAreSetAlgebra, ListIsSorted, Returned
<1>1. ~done /\ UNCHANGED <<op, arg>> /\ GivenType /\ KeysSoFar
  BY DEF Difference, Intersection, Union, StringKeySet, Method, Running, AlgebraInv
<1>2. CASE Difference
  <2>1. op = "Difference" /\ set' = set
    BY <1>2 DEF Difference, Method, Running, Answers, Take
  <2>2. CASE todo = {} /\ Answers(result)
    BY <1>1, <2>1, <2>2 DEF AlgebraInv, GivenType, KeysSoFar, Answers, Return, Variadic
  <2>3. ASSUME NEW k \in todo, Take(k, k \notin arg) PROVE AlgebraInv'
    BY <1>1, <2>1, <2>3
       DEF AlgebraInv, GivenType, ItemsSoFar, KeysSoFar, ListSoFar, Take, Continue, Variadic
  <2> QED
    BY <1>2, <2>2, <2>3 DEF Difference
<1>3. CASE Intersection
  <2>1. op = "Intersection" /\ set' = set
    BY <1>3 DEF Intersection, Method, Running, Answers, Take
  <2>2. CASE todo = {} /\ Answers(result)
    BY <1>1, <2>1, <2>2 DEF AlgebraInv, GivenType, KeysSoFar, Answers, Return, Variadic
  <2>3. ASSUME NEW k \in todo,
               Take(k, k \in (IF Cardinality(set) < Cardinality(arg) THEN arg ELSE set))
        PROVE  AlgebraInv'
    <3>1. (k \in (IF Cardinality(set) < Cardinality(arg) THEN arg ELSE set)) <=> k \in set \cap arg
      BY <1>1, <2>1 DEF KeysSoFar, Walked
    <3>2. /\ result' = IF k \in set \cap arg THEN result \cup {k} ELSE result
          /\ todo' = todo \ {k} /\ ~done'
      BY <1>1, <2>3, <3>1 DEF Take, Continue
    <3>3. Walked(arg)' = Walked(arg)
      BY <1>1, <2>1 DEF Walked
    <3> QED
      BY <1>1, <2>1, <3>2, <3>3
         DEF AlgebraInv, GivenType, ItemsSoFar, KeysSoFar, ListSoFar, Variadic
  <2> QED
    BY <1>3, <2>2, <2>3 DEF Intersection
<1>4. CASE Union
  <2>1. op = "Union" /\ set' = set
    BY <1>4 DEF Union, Method, Running, Answers, Take
  <2>2. CASE todo = {} /\ later = {} /\ Answers(result)
    BY <1>1, <2>1, <2>2 DEF AlgebraInv, GivenType, KeysSoFar, Answers, Return, Variadic
  <2>3. CASE todo = {} /\ todo' = later /\ later' = {} /\ Continue /\ UNCHANGED result
    BY <1>1, <2>1, <2>3
       DEF AlgebraInv, GivenType, ItemsSoFar, KeysSoFar, ListSoFar, Continue, Variadic
  <2>4. ASSUME NEW k \in todo, Take(k, TRUE) PROVE AlgebraInv'
    BY <1>1, <2>1, <2>4
       DEF AlgebraInv, GivenType, ItemsSoFar, KeysSoFar, ListSoFar, Take, Continue, Variadic
  <2> QED
    BY <1>4, <2>2, <2>3, <2>4 DEF Union
<1>5. CASE StringKeySet
  <2>1. op = "StringKeySet" /\ set' = set
    BY <1>5 DEF StringKeySet, Method, Running, Answers, Take
  <2>2. CASE todo = {} /\ Answers(result)
    BY <1>1, <2>1, <2>2 DEF AlgebraInv, GivenType, KeysSoFar, Answers, Return, Variadic, SetArgument
  <2>3. ASSUME NEW k \in todo, Take(k, TRUE) PROVE AlgebraInv'
    BY <1>1, <2>1, <2>3
       DEF AlgebraInv, GivenType, ItemsSoFar, KeysSoFar, ListSoFar, Take, Continue, Variadic,
           SetArgument
  <2> QED
    BY <1>5, <2>2, <2>3 DEF StringKeySet
<1> QED
  BY <1>2, <1>3, <1>4, <1>5

LEMMA NextCompared ==
  ASSUME AlgebraInv, IsSuperset \/ Equal
  PROVE  AlgebraInv'
<1> USE DEF AnswersAreSetAlgebra, ListIsSorted, Returned
<1>1. /\ ~done /\ UNCHANGED <<op, arg>> /\ op \in {"IsSuperset", "Equal"} /\ set' = set
      /\ set \subseteq Keys /\ arg \subseteq Keys /\ todo \subseteq arg /\ arg \ todo \subseteq set
  <2>1. ~done /\ UNCHANGED <<op, arg>> /\ op \in {"IsSuperset", "Equal"}
    BY DEF IsSuperset, Equal, Method, Running
  <2>2. set' = set
    BY DEF IsSuperset, Equal, Includes, Take, Answers
  <2>3. set \subseteq Keys /\ arg \subseteq Keys
    BY <2>1 DEF AlgebraInv, GivenType, SetArgument
  <2>4. todo \subseteq arg /\ arg \ todo \subseteq set
    BY <2>1 DEF AlgebraInv, KeysSoFar
  <2> QED
    BY <2>1, <2>2, <2>3, <2>4
<1>2. GivenType'
  BY <1>1 DEF GivenType, Variadic
<1>3. arg = set <=> Cardinality(set) = Cardinality(arg) /\ arg \subseteq set
  <2>1. IsFiniteSet(set)
    BY <1>1, FiniteKeys
  <2>2. arg \subseteq set /\ Cardinality(set) = Cardinality(arg) => set = arg
    BY <2>1, FS_Subset
  <2>3. arg = set => Cardinality(set) = Cardinality(arg) /\ arg \subseteq set
    OBVIOUS
  <2> QED
    BY <2>2, <2>3
<1>4. CASE Cardinality(set) # Cardinality(arg) /\ op = "Equal" /\ Answers(FALSE)
  <2>1. done' /\ ret' = FALSE /\ arg # set
    BY <1>3, <1>4 DEF Answers, Return
  <2> QED
    BY <1>1, <1>2, <1>4, <2>1 DEF AlgebraInv
<1>5. CASE Includes /\ (op = "Equal" => Cardinality(set) = Cardinality(arg))
  <2>1. CASE todo = {} /\ Answers(TRUE)
    <3>1. arg \subseteq set /\ done' /\ ret' = TRUE
      BY <1>1, <2>1 DEF Answers, Return
    <3> QED
      BY <1>1, <1>2, <1>3, <1>5, <3>1 DEF AlgebraInv
  <2>2. ASSUME NEW k \in todo, k \in set, Take(k, FALSE) PROVE AlgebraInv'
    BY <1>1, <1>2, <2>2 DEF AlgebraInv, ItemsSoFar, KeysSoFar, ListSoFar, Take, Continue
  <2>3. ASSUME NEW k \in todo, k \notin set, Answers(FALSE) PROVE AlgebraInv'
    <3>1. ~(arg \subseteq set) /\ done' /\ ret' = FALSE
      BY <1>1, <2>3 DEF Answers, Return
    <3> QED
      BY <1>1, <1>2, <1>3, <3>1 DEF AlgebraInv
  <2> QED
    BY <1>5, <2>1, <2>2, <2>3 DEF Includes
<1> QED
  BY <1>4, <1>5 DEF IsSuperset, Equal, Method, Running

LEMMA RangeOfAppend ==
  ASSUME NEW s \in Seq(Keys), NEW k \in Keys
  PROVE  /\ Append(s, k) \in Seq(Keys) /\ Len(Append(s, k)) = Len(s) + 1
         /\ Range(Append(s, k)) = Range(s) \cup {k}
         /\ IsInjective(s) /\ k \notin Range(s) => IsInjective(Append(s, k))
<1>1. /\ Append(s, k) \in Seq(Keys) /\ Len(Append(s, k)) = Len(s) + 1
      /\ \A i \in 1 .. Len(s) : Append(s, k)[i] = s[i]
      /\ Append(s, k)[Len(s) + 1] = k
  BY AppendProperties
<1>2. /\ DOMAIN s = 1 .. Len(s) /\ Len(s) \in Nat
      /\ DOMAIN Append(s, k) = 1 .. Len(s) + 1
  BY <1>1, LenProperties
<1>3. ASSUME NEW x \in Range(Append(s, k)) PROVE x \in Range(s) \cup {k}
  <2>1. PICK i \in 1 .. Len(s) + 1 : x = Append(s, k)[i]
    BY <1>2 DEF Range
  <2>2. CASE i = Len(s) + 1
    BY <1>1, <2>1, <2>2
  <2>3. CASE i # Len(s) + 1
    <3>1. i \in 1 .. Len(s) /\ x = s[i]
      BY <1>1, <1>2, <2>1, <2>3
    <3> QED
      BY <1>2, <3>1 DEF Range
  <2> QED
    BY <2>2, <2>3
<1>4. ASSUME NEW x \in Range(s) PROVE x \in Range(Append(s, k))
  <2>1. PICK i \in 1 .. Len(s) : x = s[i]
    BY <1>2 DEF Range
  <2>2. i \in DOMAIN Append(s, k) /\ Append(s, k)[i] = x
    BY <1>1, <1>2, <2>1
  <2> QED
    BY <2>2 DEF Range
<1>5. k \in Range(Append(s, k))
  <2>1. Len(s) + 1 \in DOMAIN Append(s, k)
    BY <1>2
  <2> QED
    BY <1>1, <2>1 DEF Range
<1>6. ASSUME IsInjective(s), k \notin Range(s) PROVE IsInjective(Append(s, k))
  <2>1. \A i, j \in 1 .. Len(s) : s[i] = s[j] => i = j
    BY <1>2, <1>6 DEF IsInjective
  <2>2. \A i \in 1 .. Len(s) : s[i] # k
    BY <1>2, <1>6 DEF Range
  <2> QED
    BY <1>1, <1>2, <2>1, <2>2 DEF IsInjective
<1> QED
  BY <1>1, <1>3, <1>4, <1>5, <1>6

\* Of a list without repetitions: the same keys, each in its place.
LEMMA SortedIsInOrder ==
  ASSUME NEW s \in Seq(Keys), IsInjective(s), NEW t \in Sorted(s)
  PROVE  Range(t) = Range(s) /\ \A i, j \in DOMAIN t : i < j => t[i] < t[j]
<1>1. PICK p \in Bijection(DOMAIN s, DOMAIN s) : t = [i \in DOMAIN s |-> s[p[i]]]
  BY DEF Sorted
<1>2. /\ p \in [DOMAIN s -> DOMAIN s] /\ IsInjective(p)
      /\ \A i \in DOMAIN s : \E j \in DOMAIN s : p[j] = i
  BY DEF Bijection, Injection, Surjection
<1>3. DOMAIN t = DOMAIN s /\ \A i \in DOMAIN s : t[i] = s[p[i]] /\ p[i] \in DOMAIN s
  BY <1>1, <1>2
<1>4. Range(t) = Range(s)
  BY <1>2, <1>3 DEF Range
<1>5. DOMAIN s \subseteq Nat /\ \A i \in DOMAIN s : s[i] \in Nat
  <2>1. /\ DOMAIN s = 1 .. Len(s) /\ Len(s) \in Nat
        /\ s \in [1 .. Len(s) -> Keys]
    BY LenProperties
  <2>2. \A i \in 1 .. Len(s) : s[i] \in Keys
    BY <2>1
  <2>3. \A i \in 1 .. Len(s) : i \in Nat
    BY <2>1
  <2> QED
    BY <2>1, <2>2, <2>3, KeysAssumption
<1>6. ASSUME NEW i \in DOMAIN s, NEW j \in DOMAIN s, i < j PROVE t[i] < t[j]
  <2>1. p[i] # p[j]
    BY <1>2, <1>5, <1>6 DEF IsInjective
  <2>2. t[i] # t[j]
    BY <1>3, <2>1 DEF IsInjective
  <2>3. t[i] <= t[j]
    BY <1>6 DEF Sorted
  <2>4. t[i] \in Nat /\ t[j] \in Nat
    BY <1>3, <1>5
  <2> QED
    BY <2>2, <2>3, <2>4
<1> QED
  BY <1>3, <1>4, <1>6

\* Every slice can be sorted: what has a place is found by counting what comes
\* before it.
LEMMA SortedExists ==
  ASSUME NEW s \in Seq(Keys)
  PROVE  Sorted(s) # {}
<1> DEFINE D         == DOMAIN s
           earlier(i) == {k \in D : s[k] < s[i] \/ (s[k] = s[i] /\ k < i)}
           place     == [i \in D |-> Cardinality(earlier(i)) + 1]
           at        == [k \in D |-> CHOOSE i \in D : place[i] = k]
<1>1. D = 1 .. Len(s) /\ Len(s) \in Nat /\ s \in [1 .. Len(s) -> Keys]
  BY LenProperties
<1>2. \A i \in D : i \in Nat /\ s[i] \in Nat
  <2>1. \A i \in 1 .. Len(s) : i \in Nat /\ s[i] \in Keys
    BY <1>1
  <2> QED
    BY <1>1, <2>1, KeysAssumption
<1>3. IsFiniteSet(D) /\ Cardinality(D) = Len(s)
  BY <1>1, FS_Interval
<1>4. ASSUME NEW i \in D PROVE IsFiniteSet(earlier(i)) /\ Cardinality(earlier(i)) + 1 \in D
  <2>1. earlier(i) \subseteq D \ {i}
    BY <1>2
  <2>2. IsFiniteSet(D \ {i}) /\ Cardinality(D \ {i}) = Len(s) - 1
    BY <1>3, FS_RemoveElement
  <2>3. /\ IsFiniteSet(earlier(i)) /\ Cardinality(earlier(i)) \in Nat
        /\ Cardinality(earlier(i)) <= Len(s) - 1
    BY <2>1, <2>2, FS_Subset, FS_CardinalityType
  <2> QED
    BY <1>1, <2>3
<1>5. ASSUME NEW i \in D, NEW j \in D, i \in earlier(j)
      PROVE  Cardinality(earlier(i)) < Cardinality(earlier(j))
  <2>1. earlier(i) \subseteq earlier(j) /\ i \notin earlier(i)
    BY <1>2, <1>5
  <2>2. Cardinality(earlier(i)) <= Cardinality(earlier(j))
        /\ Cardinality(earlier(i)) # Cardinality(earlier(j))
    BY <1>4, <1>5, <2>1, FS_Subset
  <2>3. Cardinality(earlier(i)) \in Nat /\ Cardinality(earlier(j)) \in Nat
    BY <1>4, FS_CardinalityType
  <2> QED
    BY <2>2, <2>3
<1>6. \A i, j \in D : i \in earlier(j) \/ j \in earlier(i) \/ i = j
  BY <1>2
<1> HIDE DEF earlier
<1>7. \A i \in D : place[i] \in D /\ place[i] = Cardinality(earlier(i)) + 1
                   /\ Cardinality(earlier(i)) \in Nat
  BY <1>4, FS_CardinalityType
<1>8. \A i, j \in D : i \in earlier(j) => place[i] < place[j]
  BY <1>5, <1>7
<1>9. place \in Bijection(D, D)
  <2>1. place \in [D -> D]
    BY <1>7
  <2>2. \A i, j \in D : place[i] = place[j] => i = j
    BY <1>2, <1>6, <1>7, <1>8
  <2>3. place \in Injection(D, D)
    BY <2>1, <2>2 DEF Injection, IsInjective
  <2> QED
    BY <1>3, <2>3, FS_Injection DEF Bijection
<1> HIDE DEF place
<1>10. \A k \in D : at[k] \in D /\ place[at[k]] = k
  BY <1>9 DEF Bijection, Surjection
<1>11. at \in Bijection(D, D)
  <2>1. at \in [D -> D]
    BY <1>10
  <2>2. at \in Injection(D, D)
    BY <1>10, <2>1 DEF Injection, IsInjective
  <2> QED
    BY <1>3, <2>2, FS_Injection DEF Bijection
<1> HIDE DEF at
<1>12. ASSUME NEW i \in D, NEW j \in D, i < j PROVE s[at[i]] <= s[at[j]]
  <2>1. at[i] \in D /\ at[j] \in D /\ place[at[i]] < place[at[j]]
        /\ place[at[i]] \in Nat /\ place[at[j]] \in Nat
    BY <1>2, <1>10, <1>12
  <2>2. at[j] \notin earlier(at[i])
    BY <1>8, <2>1
  <2> QED
    BY <1>2, <2>1, <2>2 DEF earlier
<1> DEFINE t == [i \in D |-> s[at[i]]]
<1>13. \A i, j \in D : i < j => t[i] <= t[j]
  BY <1>12
<1> QED
  BY <1>11, <1>13 DEF Sorted

LEMMA NextList ==
  ASSUME AlgebraInv, UnsortedList \/ List
  PROVE  AlgebraInv'
<1> USE DEF AnswersAreSetAlgebra, ListIsSorted, Returned
<1>1. /\ ~done /\ UNCHANGED <<op, arg>> /\ op \in {"UnsortedList", "List"} /\ set' = set /\ set \subseteq Keys
      /\ list \in Seq(Keys) /\ todo \subseteq set /\ Range(list) = set \ todo
      /\ IsInjective(list) /\ Len(list) + Cardinality(todo) = Cardinality(set)
  <2>1. ~done /\ UNCHANGED <<op, arg>> /\ op \in {"UnsortedList", "List"} /\ set' = set
    BY DEF UnsortedList, List, Method, Running, Answers, Collect
  <2> QED
    BY <2>1 DEF AlgebraInv, GivenType, ListSoFar
<1>2. GivenType'
  BY <1>1 DEF GivenType, Variadic, SetArgument
<1>3. Len(list) \in Nat
  BY <1>1, LenProperties
<1>4. CASE UnsortedList /\ todo = {} /\ Answers(list)
  <2>1. Cardinality(todo) = 0
    BY <1>4, FS_EmptySet
  <2>2. Range(list) = set /\ Len(list) = Cardinality(set)
    BY <1>1, <1>3, <1>4, <2>1
  <2>3. op = "UnsortedList" /\ done' /\ ret' = list
    BY <1>4 DEF UnsortedList, Method, Running, Answers, Return
  <2> QED
    BY <1>1, <1>2, <2>2, <2>3 DEF AlgebraInv
<1>5. ASSUME NEW k \in todo, Collect(k) PROVE AlgebraInv'
  <2>1. todo' = todo \ {k} /\ list' = Append(list, k) /\ ~done'
    BY <1>1, <1>5 DEF Collect, Continue
  <2>2. /\ list' \in Seq(Keys) /\ Len(list') = Len(list) + 1
        /\ Range(list') = Range(list) \cup {k} /\ IsInjective(list')
    BY <1>1, <2>1, RangeOfAppend
  <2>3. Cardinality(todo') = Cardinality(todo) - 1 /\ Cardinality(todo) \in Nat
    <3>1. IsFiniteSet(todo) /\ Cardinality(todo) \in Nat
      BY <1>1, FiniteKeys
    <3> QED
      BY <1>5, <2>1, <3>1, FS_RemoveElement
  <2>4. Range(list') = set \ todo'
    BY <1>1, <1>5, <2>1, <2>2
  <2>5. Len(list') + Cardinality(todo') = Cardinality(set)
    BY <1>1, <1>3, <2>2, <2>3
  <2> QED
    BY <1>1, <1>2, <2>1, <2>2, <2>4, <2>5 DEF AlgebraInv, ItemsSoFar, KeysSoFar, ListSoFar
<1>6. ASSUME NEW sorted \in Sorted(list), List, todo = {}, Answers(sorted) PROVE AlgebraInv'
  <2>1. Range(sorted) = set /\ \A i, j \in DOMAIN sorted : i < j => sorted[i] < sorted[j]
    BY <1>1, <1>6, SortedIsInOrder
  <2>2. op = "List" /\ done' /\ ret' = sorted
    BY <1>6 DEF List, Method, Running, Answers, Return
  <2> QED
    BY <1>1, <1>2, <2>1, <2>2 DEF AlgebraInv
<1> QED
  BY <1>4, <1>5, <1>6 DEF UnsortedList, List

LEMMA NextOther ==
  ASSUME AlgebraInv, PopAny \/ SetLen
  PROVE  AlgebraInv'
<1> USE DEF AnswersAreSetAlgebra, ListIsSorted, Returned
<1>1. ~done /\ UNCHANGED <<op, arg>> /\ op \in {"PopAny", "Len"}
  BY DEF PopAny, SetLen, Method, Running
<1>2. set' \subseteq set
  BY DEF PopAny, SetLen, Answers
<1>3. GivenType'
  BY <1>1, <1>2 DEF AlgebraInv, GivenType, Variadic, SetArgument
<1>4. op = "Len" => ret' = Cardinality(set) /\ set' = set
  BY DEF PopAny, SetLen, Method, Running, Answers, Return
<1> QED
  BY <1>1, <1>3, <1>4 DEF AlgebraInv, ItemsSoFar, KeysSoFar, ListSoFar

LEMMA NextMethod ==
  ASSUME AlgebraInv, CallMethod
  PROVE  AlgebraInv'
<1> USE DEF AnswersAreSetAlgebra, ListIsSorted, Returned
<1>1. ASSUME NEW name \in Variadic, NEW args \in BoundedSeq(Keys, MaxItems),
             Begin(name, args, args, {}, {})
      PROVE  AlgebraInv'
  BY <1>1, GivenItems
     DEF Begin, Call, AlgebraInv, GivenType, ItemsSoFar, KeysSoFar, ListSoFar, Variadic, SetArgument
<1>2. ASSUME NEW k \in Keys, Begin("Has", k, <<k>>, {}, {}) PROVE AlgebraInv'
  BY <1>2
     DEF Begin, Call, AlgebraInv, GivenType, ItemsSoFar, KeysSoFar, ListSoFar, Variadic, SetArgument
<1>3. ASSUME NEW name \in {"List", "UnsortedList", "StringKeySet", "PopAny", "Len"},
             Begin(name, Nothing, <<>>, set, {})
      PROVE  AlgebraInv'
  <2>1. /\ op' = name /\ ~done' /\ set' = set /\ todo' = set /\ result' = {} /\ list' = <<>>
        /\ set \subseteq Keys
    BY <1>3 DEF Begin, Call, AlgebraInv, GivenType
  <2>2. /\ list' \in Seq(Keys) /\ Range(list') = set' \ todo' /\ IsInjective(list')
        /\ Len(list') + Cardinality(todo') = Cardinality(set')
    BY <2>1, FiniteKeys, RangeOfEmpty, EmptySeq DEF IsInjective
  <2> QED
    BY <2>1, <2>2 DEF AlgebraInv, GivenType, ItemsSoFar, KeysSoFar, ListSoFar, Variadic, SetArgument
<1>4. ASSUME NEW other \in SUBSET Keys,
             \/ Begin("Difference", other, <<>>, set, {})
             \/ Begin("Union", other, <<>>, set, other)
             \/ Begin("Intersection", other, <<>>, Walked(other), {})
             \/ \E name \in {"IsSuperset", "Equal"} : Begin(name, other, <<>>, other, {})
      PROVE  AlgebraInv'
  <2>1. /\ op' \in SetArgument /\ ~done' /\ set' = set /\ result' = {} /\ arg' = other
        /\ op' = "Difference" => todo' = set
        /\ op' = "Union" => todo' = set /\ later' = other
        /\ op' = "Intersection" => todo' = Walked(other)
        /\ op' \in {"IsSuperset", "Equal"} => todo' = other
    BY <1>4 DEF Begin, Call, SetArgument
  <2>2. Walked(arg)' = Walked(other) /\ Walked(other) \cap set \cap other = set \cap other
    BY <2>1 DEF Walked
  <2> QED
    BY <2>1, <2>2
       DEF AlgebraInv, GivenType, ItemsSoFar, KeysSoFar, ListSoFar, Variadic, SetArgument
<1> QED
  BY <1>1, <1>2, <1>3, <1>4 DEF CallMethod

LEMMA NextAlgebra == AlgebraInv /\ [SetsNext]_<<callVars, setVars>> => AlgebraInv'
<1> SUFFICES ASSUME AlgebraInv, [SetsNext]_<<callVars, setVars>> PROVE AlgebraInv'
  OBVIOUS
<1>1. CASE UNCHANGED <<callVars, setVars>>
  BY <1>1 DEF callVars, setVars, AlgebraInv, GivenType, ItemsSoFar, KeysSoFar, Walked, ListSoFar,
              AnswersAreSetAlgebra, ListIsSorted, Returned
<1> QED
  BY <1>1, NextItems, NextKeys, NextCompared, NextList, NextOther, NextMethod DEF SetsNext

LEMMA InitAlgebra == CallsInit /\ SetsInit => AlgebraInv
BY DEF CallsInit, SetsInit, AlgebraInv, GivenType, Variadic, SetArgument, AnswersAreSetAlgebra,
       ListIsSorted, Returned

\* For sets and arguments of any size, whatever order a loop takes the keys in,
\* wherever it is left early and whichever set it walks over, a method answers
\* as set algebra has it (pkg/sets/string.go:27-199).
THEOREM MethodsAnswer == SetsSpec => []AnswersAreSetAlgebra
<1>1. AlgebraInv => AnswersAreSetAlgebra
  BY DEF AlgebraInv
<1> QED
  BY <1>1, InitAlgebra, NextAlgebra, PTL DEF SetsSpec

\* Whatever order the loop over a set of any size takes the keys in, List
\* returns all of them, each once, in theirs (pkg/sets/string.go:168-175).
THEOREM ListsAreSorted == SetsSpec => []ListIsSorted
<1>1. AlgebraInv => ListIsSorted
  BY DEF AlgebraInv
<1> QED
  BY <1>1, InitAlgebra, NextAlgebra, PTL DEF SetsSpec

-----------------------------------------------------------------------------
(* What becomes of the receiver.                                           *)

Changing == {"Insert", "Delete", "PopAny"}

ReceiverInv ==
  /\ set \subseteq Keys
  /\ op \in {"Insert", "Delete"} /\ ~done => items \in Seq(Keys)
  /\ op = "Insert" /\ ~done => set \cup Range(items) = before \cup Range(arg)
  /\ op = "Delete" /\ ~done => set \ Range(items) = before \ Range(arg)
  /\ op = "PopAny" /\ ~done => todo = set
  /\ ReceiverIsKept

LEMMA InsertKeeps ==
  ASSUME ReceiverInv, Insert
  PROVE  ReceiverInv'
<1>1. /\ op = "Insert" /\ ~done /\ UNCHANGED <<op, arg, before>> /\ set \subseteq Keys
      /\ items \in Seq(Keys) /\ set \cup Range(items) = before \cup Range(arg)
      /\ before \subseteq set
  BY DEF Insert, Method, Running, ReceiverInv, ReceiverIsKept
<1>2. CASE items = <<>> /\ Answers(Nothing)
  <2>1. set' = set /\ done' /\ set = before \cup Range(arg)
    BY <1>1, <1>2, RangeOfEmpty DEF Answers, Return
  <2> QED
    BY <1>1, <2>1 DEF ReceiverInv, ReceiverIsKept
<1>3. CASE items # <<>> /\ set' = set \cup {Head(items)} /\ NextItem
  <2>1. ~done' /\ items' = Tail(items)
    BY <1>1, <1>3 DEF NextItem, Continue
  <2>2. Range(items) = {Head(items)} \cup Range(items') /\ items' \in Seq(Keys) /\ Head(items) \in Keys
    BY <1>1, <1>3, <2>1, RangeOfTail
  <2>3. set' \cup Range(items') = before \cup Range(arg) /\ before \subseteq set' /\ set' \subseteq Keys
    BY <1>1, <1>3, <2>2
  <2> QED
    BY <1>1, <2>1, <2>2, <2>3 DEF ReceiverInv, ReceiverIsKept
<1> QED
  BY <1>2, <1>3 DEF Insert

LEMMA DeleteKeeps ==
  ASSUME ReceiverInv, Delete
  PROVE  ReceiverInv'
<1>1. /\ op = "Delete" /\ ~done /\ UNCHANGED <<op, arg, before>> /\ set \subseteq Keys
      /\ items \in Seq(Keys) /\ set \ Range(items) = before \ Range(arg)
      /\ set \subseteq before
  BY DEF Delete, Method, Running, ReceiverInv, ReceiverIsKept
<1>2. CASE items = <<>> /\ Answers(Nothing)
  <2>1. set' = set /\ done' /\ set = before \ Range(arg)
    BY <1>1, <1>2, RangeOfEmpty DEF Answers, Return
  <2> QED
    BY <1>1, <2>1 DEF ReceiverInv, ReceiverIsKept
<1>3. CASE items # <<>> /\ set' = set \ {Head(items)} /\ NextItem
  <2>1. ~done' /\ items' = Tail(items)
    BY <1>1, <1>3 DEF NextItem, Continue
  <2>2. Range(items) = {Head(items)} \cup Range(items') /\ items' \in Seq(Keys)
    BY <1>1, <1>3, <2>1, RangeOfTail
  <2>3. set' \ Range(items') = before \ Range(arg) /\ set' \subseteq before /\ set' \subseteq Keys
        /\ before \ Range(arg) \subseteq set'
    BY <1>1, <1>3, <2>2
  <2> QED
    BY <1>1, <2>1, <2>2, <2>3 DEF ReceiverInv, ReceiverIsKept
<1> QED
  BY <1>2, <1>3 DEF Delete

LEMMA PopKeeps ==
  ASSUME ReceiverInv, PopAny
  PROVE  ReceiverInv'
<1>1. /\ op = "PopAny" /\ ~done /\ UNCHANGED <<op, arg, before>> /\ set \subseteq Keys
      /\ todo = set /\ set = before
  BY DEF PopAny, Method, Running, ReceiverInv, ReceiverIsKept
<1>2. CASE todo = {} /\ Answers(<<NoKey, FALSE>>)
  <2>1. set' = set /\ done' /\ before = {}
    BY <1>1, <1>2 DEF Answers, Return
  <2> QED
    BY <1>1, <2>1 DEF ReceiverInv, ReceiverIsKept
<1>3. ASSUME NEW k \in todo, set' = set \ {k}, Return(<<k, TRUE>>) PROVE ReceiverInv'
  <2>1. done' /\ ret'[1] = k /\ ret'[2] = TRUE
    BY <1>3 DEF Return
  <2> QED
    BY <1>1, <1>3, <2>1 DEF ReceiverInv, ReceiverIsKept
<1> QED
  BY <1>2, <1>3 DEF PopAny

\* The other methods take no part in it.
LEMMA OthersKeep ==
  ASSUME ReceiverInv,
         \/ NewString \/ Has \/ HasAll \/ HasAny \/ Difference \/ Intersection \/ Union
         \/ StringKeySet \/ IsSuperset \/ Equal \/ UnsortedList \/ List \/ SetLen
  PROVE  ReceiverInv'
<1>1. op \notin Changing /\ UNCHANGED <<op, before>>
  BY DEF NewString, Has, HasAll, HasAny, Difference, Intersection, Union, StringKeySet,
         IsSuperset, Equal, UnsortedList, List, SetLen, Method, Running, Changing
<1>2. set' = set
  BY DEF NewString, Has, HasAll, HasAny, Difference, Intersection, Union, StringKeySet,
         IsSuperset, Equal, UnsortedList, List, SetLen, Answers, NextItem, Take, Collect, Includes
<1>3. ReceiverIsKept => set = before
  BY <1>1 DEF ReceiverIsKept, Changing
<1>4. ReceiverIsKept'
  BY <1>1, <1>2, <1>3 DEF ReceiverInv, ReceiverIsKept, Changing
<1> QED
  BY <1>1, <1>2, <1>4 DEF ReceiverInv, Changing

LEMMA CallKeeps ==
  ASSUME ReceiverInv, CallMethod
  PROVE  ReceiverInv'
<1>1. ~done' /\ before' = set /\ set' = set
  BY DEF CallMethod, Begin, Call
<1>2. op' \in {"Insert", "Delete"} => items' = arg' /\ items' \in Seq(Keys)
  <2>1. ASSUME NEW name \in Variadic, NEW args \in BoundedSeq(Keys, MaxItems),
               Begin(name, args, args, {}, {})
        PROVE  items' = arg' /\ items' \in Seq(Keys)
    BY <2>1, GivenItems DEF Begin, Call
  <2> QED
    BY <2>1 DEF CallMethod, Begin, Call
<1>3. op' = "PopAny" => todo' = set
  BY DEF CallMethod, Begin, Call, Variadic
<1> QED
  BY <1>1, <1>2, <1>3 DEF ReceiverInv, ReceiverIsKept

LEMMA NextReceiver == ReceiverInv /\ [SetsNext]_<<callVars, setVars>> => ReceiverInv'
<1> SUFFICES ASSUME ReceiverInv, [SetsNext]_<<callVars, setVars>> PROVE ReceiverInv'
  OBVIOUS
<1>1. CASE UNCHANGED <<callVars, setVars>>
  BY <1>1 DEF callVars, setVars, ReceiverInv, ReceiverIsKept
<1> QED
  BY <1>1, InsertKeeps, DeleteKeeps, PopKeeps, OthersKeep, CallKeeps DEF SetsNext

\* For sets and arguments of any size only Insert, Delete and PopAny change the
\* receiver, as they should, and no other method does at any moment
\* (pkg/sets/string.go:46-57 and 181-188).
THEOREM ReceiversAreKept == SetsSpec => []ReceiverIsKept
<1>1. CallsInit /\ SetsInit => ReceiverInv
  BY DEF CallsInit, SetsInit, ReceiverInv, ReceiverIsKept
<1>2. ReceiverInv => ReceiverIsKept
  BY DEF ReceiverInv
<1> QED
  BY <1>1, <1>2, NextReceiver, PTL DEF SetsSpec
=============================================================================
