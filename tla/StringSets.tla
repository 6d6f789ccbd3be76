----------------------------- MODULE StringSets -----------------------------
(***************************************************************************)
(* The sets of strings with which the shaper compares addresses and class  *)
(* ids, pkg/sets/string.go (byte.go, int.go and int64.go are generated     *)
(* from the same text).  A set is a Go map: a loop over it takes the keys  *)
(* in any order, and it is shared, not copied, when it is passed on.       *)
(***************************************************************************)
EXTENDS Naturals, FiniteSets, SequencesExt, HelperCalls

CONSTANTS
  Keys,      \* the strings, as numbers in their order
  NoKey,     \* "": the zero value that PopAny returns beside false
  MaxItems   \* how many items a variadic method is given

ASSUME KeysAssumption ==
  Keys \subseteq Nat /\ IsFiniteSet(Keys) /\ NoKey \notin Keys /\ MaxItems \in Nat

VARIABLES
  set,       \* the receiver of the methods
  before,    \* the receiver when the method was called
  items,     \* the items still to come
  todo,      \* the keys that the loop has still to take
  later,     \* the keys of a second loop
  result,    \* the set that is being made
  list       \* the slice that is being made

setVars == <<set, before, items, todo, later, result, list>>

SetsInit ==
  /\ set = {} /\ before = {} /\ items = <<>> /\ todo = {} /\ later = {}
  /\ result = {} /\ list = <<>>

-----------------------------------------------------------------------------

Begin(name, given, args, walk, then) ==
  /\ Call(name, given)
  /\ before' = set /\ items' = args /\ todo' = walk /\ later' = then
  /\ result' = {} /\ list' = <<>> /\ UNCHANGED set

Variadic == {"Insert", "Delete", "NewString", "HasAll", "HasAny"}

\* A bug one could write: the loop runs over the receiver, of whatever size.
WalkedReceiver(other) == set

\* Intersection walks over the smaller set.
Walked(other) == IF Cardinality(set) < Cardinality(other) THEN set ELSE other

CallMethod ==
  \/ \E name \in Variadic, args \in BoundedSeq(Keys, MaxItems) : Begin(name, args, args, {}, {})
  \/ \E k \in Keys : Begin("Has", k, <<k>>, {}, {})
  \/ \E name \in {"List", "UnsortedList", "StringKeySet", "PopAny", "Len"} :
       Begin(name, Nothing, <<>>, set, {})
  \/ \E other \in SUBSET Keys :
       \/ Begin("Difference", other, <<>>, set, {})
       \/ Begin("Union", other, <<>>, set, other)
       \/ Begin("Intersection", other, <<>>, Walked(other), {})
       \/ \E name \in {"IsSuperset", "Equal"} : Begin(name, other, <<>>, other, {})

Method(name) == Running(name) /\ UNCHANGED before
Answers(r)   == Return(r) /\ UNCHANGED <<set, items, todo, later, result, list>>

-----------------------------------------------------------------------------
(* Methods with a list of items.                                           *)

NextItem == items' = Tail(items) /\ Continue /\ UNCHANGED <<todo, later, list>>

Insert ==
  /\ Method("Insert")
  /\ \/ items = <<>> /\ Answers(Nothing)
     \/ items # <<>> /\ set' = set \cup {Head(items)} /\ NextItem /\ UNCHANGED result

Delete ==
  /\ Method("Delete")
  /\ \/ items = <<>> /\ Answers(Nothing)
     \/ items # <<>> /\ set' = set \ {Head(items)} /\ NextItem /\ UNCHANGED result

\* A new set, and the items inserted into it.
NewString ==
  /\ Method("NewString")
  /\ \/ items = <<>> /\ Answers(result)
     \/ items # <<>> /\ result' = result \cup {Head(items)} /\ NextItem /\ UNCHANGED set

Has ==
  /\ Method("Has")
  /\ Answers(arg \in set)

HasAll ==
  /\ Method("HasAll")
  /\ \/ items = <<>> /\ Answers(TRUE)
     \/ items # <<>> /\ Head(items) \notin set /\ Answers(FALSE)
     \/ items # <<>> /\ Head(items) \in set /\ NextItem /\ UNCHANGED <<set, result>>

HasAny ==
  /\ Method("HasAny")
  /\ \/ items = <<>> /\ Answers(FALSE)
     \/ items # <<>> /\ Head(items) \in set /\ Answers(TRUE)
     \/ items # <<>> /\ Head(items) \notin set /\ NextItem /\ UNCHANGED <<set, result>>

-----------------------------------------------------------------------------
(* Loops over a map.                                                       *)

\* The loop takes key k, which joins the new set if the method keeps it.
Take(k, keeps) ==
  /\ todo' = todo \ {k}
  /\ result' = IF keeps THEN result \cup {k} ELSE result
  /\ Continue /\ UNCHANGED <<set, items, later, list>>

Difference ==
  /\ Method("Difference")
  /\ \/ todo = {} /\ Answers(result)
     \/ \E k \in todo : Take(k, k \notin arg)

\* The set that is not walked over is asked for each key.
Intersection ==
  /\ Method("Intersection")
  /\ \/ todo = {} /\ Answers(result)
     \/ \E k \in todo :
          Take(k, k \in (IF Cardinality(set) < Cardinality(arg) THEN arg ELSE set))

\* A bug one could write: the second set's keys are inserted into the receiver.
UnionInPlace ==
  /\ Method("Union")
  /\ \/ todo = {} /\ later = {} /\ Answers(result \cup set)
     \/ todo = {} /\ later # {} /\ set' = set \cup later /\ later' = {}
        /\ Continue /\ UNCHANGED <<items, todo, result, list>>
     \/ \E k \in todo : Take(k, TRUE)

Union ==
  /\ Method("Union")
  /\ \/ todo = {} /\ later = {} /\ Answers(result)
     \/ /\ todo = {} /\ later # {}
        /\ todo' = later /\ later' = {}
        /\ Continue /\ UNCHANGED <<set, items, result, list>>
     \/ \E k \in todo : Take(k, TRUE)

StringKeySet ==
  /\ Method("StringKeySet")
  /\ \/ todo = {} /\ Answers(result)
     \/ \E k \in todo : Take(k, TRUE)

Includes ==
  \/ todo = {} /\ Answers(TRUE)
  \/ \E k \in todo : IF k \in set THEN Take(k, FALSE) ELSE Answers(FALSE)

IsSuperset == Method("IsSuperset") /\ Includes

\* Sets of different sizes are not compared any further.
Equal ==
  /\ Method("Equal")
  /\ IF Cardinality(set) # Cardinality(arg) THEN Answers(FALSE) ELSE Includes

Collect(k) ==
  /\ todo' = todo \ {k} /\ list' = Append(list, k)
  /\ Continue /\ UNCHANGED <<set, items, later, result>>

UnsortedList ==
  /\ Method("UnsortedList")
  /\ \/ todo = {} /\ Answers(list)
     \/ \E k \in todo : Collect(k)

\* A bug one could write: the slice is returned as the loop made it.
ListAsWalked ==
  /\ Method("List")
  /\ \/ todo = {} /\ Answers(list)
     \/ \E k \in todo : Collect(k)

\* What sort.Sort can make of a slice: its elements in another order, none of
\* them before a lesser one.
Sorted(s) ==
  {t \in {[i \in DOMAIN s |-> s[p[i]]] : p \in Bijection(DOMAIN s, DOMAIN s)} :
     \A i, j \in DOMAIN s : i < j => t[i] <= t[j]}

\* The slice is sorted when it is complete.
List ==
  /\ Method("List")
  /\ \/ todo = {} /\ \E sorted \in Sorted(list) : Answers(sorted)
     \/ \E k \in todo : Collect(k)

\* The loop is left with the first key it takes.
PopAny ==
  /\ Method("PopAny")
  /\ \/ todo = {} /\ Answers(<<NoKey, FALSE>>)
     \/ \E k \in todo :
          /\ set' = set \ {k} /\ Return(<<k, TRUE>>)
          /\ UNCHANGED <<items, todo, later, result, list>>

SetLen == Method("Len") /\ Answers(Cardinality(set))

-----------------------------------------------------------------------------

SetsNext ==
  \/ done /\ CallMethod
  \/ Insert \/ Delete \/ NewString \/ Has \/ HasAll \/ HasAny
  \/ Difference \/ Intersection \/ Union \/ StringKeySet \/ IsSuperset \/ Equal
  \/ UnsortedList \/ List \/ PopAny \/ SetLen

SetsSpec == CallsInit /\ SetsInit /\ [][SetsNext]_<<callVars, setVars>>

-----------------------------------------------------------------------------

\* In whatever order a loop takes the keys, wherever it is left early, and
\* whichever set it walks over, a method answers as set algebra has it
\* (pkg/sets/string.go:27-199).
AnswersAreSetAlgebra ==
  /\ Returned("NewString")    => ret = Range(arg)
  /\ Returned("Has")          => ret = (arg \in set)
  /\ Returned("HasAll")       => ret = (Range(arg) \subseteq set)
  /\ Returned("HasAny")       => ret = (Range(arg) \cap set # {})
  /\ Returned("Difference")   => ret = set \ arg
  /\ Returned("Intersection") => ret = set \cap arg
  /\ Returned("Union")        => ret = set \cup arg
  /\ Returned("StringKeySet") => ret = set
  /\ Returned("IsSuperset")   => ret = (arg \subseteq set)
  /\ Returned("Equal")        => ret = (arg = set)
  /\ Returned("UnsortedList") => Range(ret) = set /\ Len(ret) = Cardinality(set)
  /\ Returned("Len")          => ret = Cardinality(set)

\* Whatever order the loop takes the keys in, List returns all of them, each
\* once, in theirs (pkg/sets/string.go:168-175).
ListIsSorted ==
  Returned("List") =>
    Range(ret) = set /\ \A i, j \in DOMAIN ret : i < j => ret[i] < ret[j]

\* Maps are shared: only Insert, Delete and PopAny change the receiver, PopAny
\* by the key it returns, and a method that makes a set leaves both alone while
\* it runs (pkg/sets/string.go:46-57 and 181-188).
ReceiverIsKept ==
  CASE op = "Insert" -> before \subseteq set /\ set \subseteq before \cup Range(arg)
                        /\ (done => set = before \cup Range(arg))
    [] op = "Delete" -> set \subseteq before /\ before \ Range(arg) \subseteq set
                        /\ (done => set = before \ Range(arg))
    [] op = "PopAny" -> IF ~done \/ before = {} THEN set = before
                        ELSE ret[2] /\ ret[1] \in before /\ set = before \ {ret[1]}
    [] OTHER         -> set = before
=============================================================================
