----------------------------- MODULE DataLemmas -----------------------------
(***************************************************************************)
(* Facts about numbers, finite sets and sums that the proofs of several    *)
(* components need.                                                        *)
(*                                                                         *)
(* The induction theorems of the library take a predicate as a parameter,  *)
(* and the provers do not find it.  Here the predicate is the set of the   *)
(* numbers it holds for: induction is then a statement about sets, which   *)
(* follows from the well-foundedness of < on Nat.                          *)
(***************************************************************************)
EXTENDS Integers, Sequences, FiniteSets, Functions, FiniteSetTheorems,
        WellFoundedInduction, TLAPS

-----------------------------------------------------------------------------
LessThan == {p \in Nat \X Nat : p[1] < p[2]}

\* There is no infinite descent.
LEMMA NoDescent == IsWellFoundedOn(LessThan, Nat)
  BY NatLessThanWellFounded DEF LessThan, OpToRel

\* Every set of naturals that is not empty has a least element.
LEMMA Least ==
  ASSUME NEW S, S \subseteq Nat, S # {}
  PROVE  \E n \in S : \A m \in S : n <= m
  <1>1. PICK n \in S : \A m \in S : <<m, n>> \notin LessThan
    BY NoDescent, WFMin
  <1>2. ASSUME NEW m \in S PROVE n <= m
    <2>1. n \in Nat /\ m \in Nat /\ <<m, n>> \notin LessThan
      BY <1>1
    <2> QED
      BY <2>1 DEF LessThan
  <1> QED
    BY <1>2

\* A set that holds 0 and with n also n + 1 holds every natural number.
LEMMA Induction ==
  ASSUME NEW S, 0 \in S, \A n \in Nat : n \in S => n + 1 \in S
  PROVE  Nat \subseteq S
  <1> SUFFICES ASSUME Nat \ S # {} PROVE FALSE
    OBVIOUS
  <1>1. PICK n \in Nat \ S : \A m \in Nat \ S : n <= m
    BY Least
  <1>2. n # 0 /\ n - 1 \in Nat
    BY <1>1
  <1>3. n - 1 \in S
    BY <1>1, <1>2
  <1>4. (n - 1) + 1 \in S
    BY <1>2, <1>3
  <1> QED
    BY <1>1, <1>2, <1>4

\* One of finitely many integers is the greatest.
LEMMA GreatestValue ==
  ASSUME NEW n \in Nat \ {0}, NEW f \in [1 .. n -> Int]
  PROVE  \E i \in 1 .. n : \A j \in 1 .. n : f[j] <= f[i]
  <1> DEFINE Good == {m \in Nat : m < n => \E i \in 1 .. m + 1 : \A j \in 1 .. m + 1 : f[j] <= f[i]}
  <1>1. 0 \in Good
    BY DEF Good
  <1>2. ASSUME NEW m \in Nat, m \in Good, m + 1 < n
        PROVE  \E i \in 1 .. m + 2 : \A j \in 1 .. m + 2 : f[j] <= f[i]
    <2>1. PICK i \in 1 .. m + 1 : \A j \in 1 .. m + 1 : f[j] <= f[i]
      BY <1>2
    <2>2. m + 2 \in 1 .. n /\ i \in 1 .. n /\ \A j \in 1 .. m + 2 : j \in 1 .. m + 1 \/ j = m + 2
      BY <1>2
    <2>3. PICK a \in Int, b \in Int : a = f[i] /\ b = f[m + 2]
      BY <2>2
    <2>4. CASE a <= b
      <3>1. \A j \in 1 .. m + 1 : f[j] \in Int /\ f[j] <= a
        BY <2>1, <2>3, <1>2
      <3>2. \A j \in 1 .. m + 2 : f[j] <= f[m + 2]
        BY <2>2, <2>3, <2>4, <3>1
      <3> QED
        BY <3>2
    <2>5. CASE b < a
      BY <2>1, <2>2, <2>3, <2>5
    <2> QED
      BY <2>3, <2>4, <2>5
  <1>3. ASSUME NEW m \in Nat, m \in Good PROVE m + 1 \in Good
    <2>1. (m + 1) + 1 = m + 2 /\ m + 1 \in Nat
      OBVIOUS
    <2> QED
      BY <1>2, <1>3, <2>1
  <1> HIDE DEF Good
  <1>4. Nat \subseteq Good
    BY <1>1, <1>3, Induction
  <1>5. n - 1 \in Nat /\ n - 1 < n /\ (n - 1) + 1 = n
    OBVIOUS
  <1>6. n - 1 \in Good
    BY <1>4, <1>5
  <1> QED
    BY <1>5, <1>6 DEF Good

-----------------------------------------------------------------------------
(***************************************************************************)
(* A finite set is counted one element at a time.                          *)
(***************************************************************************)

\* A set of positions below a bound is finite.
LEMMA FinitePositions ==
  ASSUME NEW n \in Nat, NEW S, S \subseteq 1 .. n
  PROVE  IsFiniteSet(S) /\ Cardinality(S) \in 0 .. n
  <1>1. IsFiniteSet(1 .. n) /\ Cardinality(1 .. n) = n
    BY FS_Interval
  <1>2. IsFiniteSet(S) /\ Cardinality(S) <= Cardinality(1 .. n)
    BY <1>1, FS_Subset
  <1>3. Cardinality(S) \in Nat
    BY <1>2, FS_CardinalityType
  <1> QED
    BY <1>1, <1>2, <1>3

\* A position that is no element yet adds one.
LEMMA OneMore ==
  ASSUME NEW S, IsFiniteSet(S), NEW x, x \notin S
  PROVE  /\ IsFiniteSet(S \cup {x})
         /\ Cardinality(S \cup {x}) = Cardinality(S) + 1
  BY FS_AddElement

\* An element that is taken away takes one off the count.
LEMMA Removed ==
  ASSUME NEW S, IsFiniteSet(S), NEW x \in S
  PROVE  /\ IsFiniteSet(S \ {x})
         /\ Cardinality(S \ {x}) = Cardinality(S) - 1
         /\ Cardinality(S) \in Nat \ {0}
  <1>1. Cardinality(S) # 0
    BY FS_EmptySet
  <1> QED
    BY <1>1, FS_RemoveElement, FS_CardinalityType

\* Induction on finite sets: what holds of the empty set, and of a set when
\* it holds of the set without any one of its elements, holds of all.
LEMMA SubsetInduction ==
  ASSUME NEW D, IsFiniteSet(D), NEW Good, {} \in Good,
         \A s \in SUBSET D : s # {} /\ (\A x \in s : s \ {x} \in Good) => s \in Good
  PROVE  SUBSET D \subseteq Good
  <1> DEFINE Sized == {n \in Nat : \A s \in SUBSET D : Cardinality(s) = n => s \in Good}
  <1>1. \A s \in SUBSET D : IsFiniteSet(s) /\ Cardinality(s) \in Nat
    BY FS_Subset, FS_CardinalityType
  <1>2. 0 \in Sized
    BY <1>1, FS_EmptySet
  <1>3. ASSUME NEW n \in Nat, n \in Sized PROVE n + 1 \in Sized
    <2>1. ASSUME NEW s \in SUBSET D, Cardinality(s) = n + 1 PROVE s \in Good
      <3>1. s # {}
        BY <2>1, FS_EmptySet
      <3>2. ASSUME NEW x \in s PROVE s \ {x} \in Good
        <4>1. Cardinality(s \ {x}) = n
          BY <1>1, <2>1, Removed
        <4> QED
          BY <1>3, <4>1
      <3> QED
        BY <3>1, <3>2
    <2> QED
      BY <2>1
  <1> HIDE DEF Sized
  <1>4. Nat \subseteq Sized
    BY <1>2, <1>3, Induction
  <1> QED
    BY <1>1, <1>4 DEF Sized

-----------------------------------------------------------------------------
(***************************************************************************)
(* Sums.  SumFunction adds the values of a function in an order that       *)
(* CHOOSE fixes and nobody knows.  `sums` is its recursive function: the   *)
(* sum over every subset of the domain.                                    *)
(***************************************************************************)
Picked(s) == CHOOSE x \in s : TRUE

Recursion(f, subsets, sums) ==
  sums = [s \in subsets |->
            IF s = {} THEN 0 ELSE f[Picked(s)] + sums[s \ {Picked(s)}]]

\* `sums` are the sums of the integer function f over subsets of its domain.
AreSums(D, f, sums) ==
  IsFiniteSet(D) /\ f \in [D -> Int] /\ Recursion(f, SUBSET D, sums)

UpTo(D, n) == {s \in SUBSET D : Cardinality(s) <= n}

\* The recursion has a solution: one more element at a time.
LEMMA SumsExist ==
  ASSUME NEW D, IsFiniteSet(D), NEW f
  PROVE  \E sums : Recursion(f, SUBSET D, sums)
  <1> DEFINE Solved == {n \in Nat : \E sums : Recursion(f, UpTo(D, n), sums)}
  <1>f. \A s \in SUBSET D : IsFiniteSet(s) /\ Cardinality(s) \in Nat
    BY FS_Subset, FS_CardinalityType
  <1>1. 0 \in Solved
    <2>1. \A s \in UpTo(D, 0) : s = {}
      BY <1>f, FS_EmptySet DEF UpTo
    <2>2. Recursion(f, UpTo(D, 0), [s \in UpTo(D, 0) |-> 0])
      BY <2>1 DEF Recursion
    <2> QED
      BY <2>2
  <1>2. ASSUME NEW n \in Nat, n \in Solved PROVE n + 1 \in Solved
    <2>1. PICK below : Recursion(f, UpTo(D, n), below)
      BY <1>2
    <2> DEFINE sums == [s \in UpTo(D, n + 1) |->
                          IF s = {} THEN 0 ELSE f[Picked(s)] + below[s \ {Picked(s)}]]
    <2>2. ASSUME NEW s \in UpTo(D, n + 1), s # {}
          PROVE  /\ s \ {Picked(s)} \in UpTo(D, n)
                 /\ sums[s \ {Picked(s)}] = below[s \ {Picked(s)}]
      <3> DEFINE t == s \ {Picked(s)}
      <3>1. Picked(s) \in s
        BY <2>2 DEF Picked
      <3>2. t \in UpTo(D, n) /\ t \in UpTo(D, n + 1)
        <4>1. s \in SUBSET D /\ IsFiniteSet(s) /\ Cardinality(s) \in Nat
              /\ Cardinality(s) <= n + 1
          BY <1>f DEF UpTo
        <4>2. Cardinality(t) = Cardinality(s) - 1
          BY <3>1, <4>1, Removed
        <4> QED
          BY <4>1, <4>2 DEF UpTo
      <3>3. below[t] = IF t = {} THEN 0 ELSE f[Picked(t)] + below[t \ {Picked(t)}]
        BY <2>1, <3>2 DEF Recursion
      <3>4. sums[t] = IF t = {} THEN 0 ELSE f[Picked(t)] + below[t \ {Picked(t)}]
        BY <3>2
      <3> QED
        BY <3>2, <3>3, <3>4
    <2>3. Recursion(f, UpTo(D, n + 1), sums)
      <3>1. ASSUME NEW s \in UpTo(D, n + 1)
            PROVE  sums[s] = IF s = {} THEN 0
                             ELSE f[Picked(s)] + sums[s \ {Picked(s)}]
        <4>1. CASE s = {}
          BY <4>1
        <4>2. CASE s # {}
          <5>1. sums[s \ {Picked(s)}] = below[s \ {Picked(s)}]
            BY <2>2, <4>2
          <5>2. sums[s] = f[Picked(s)] + below[s \ {Picked(s)}]
            BY <4>2
          <5> QED
            BY <4>2, <5>1, <5>2
        <4> QED
          BY <4>1, <4>2
      <3>2. sums = [s \in UpTo(D, n + 1) |-> sums[s]]
        OBVIOUS
      <3> HIDE DEF sums
      <3> QED
        BY <3>1, <3>2 DEF Recursion
    <2> QED
      BY <2>3
  <1>3. Cardinality(D) \in Nat /\ Cardinality(D) \in Solved
    <2>1. Cardinality(D) \in Nat
      BY FS_CardinalityType
    <2> HIDE DEF Solved
    <2>2. Nat \subseteq Solved
      BY <1>1, <1>2, Induction
    <2> QED
      BY <2>1, <2>2
  <1>4. UpTo(D, Cardinality(D)) = SUBSET D
    BY FS_Subset DEF UpTo
  <1> QED
    BY <1>3, <1>4

\* The sum over a subset is an integer, and any of its elements may be the
\* one that is added last.
LEMMA AnyOrder ==
  ASSUME NEW D, NEW f, NEW sums, AreSums(D, f, sums)
  PROVE  /\ sums[{}] = 0
         /\ \A s \in SUBSET D : sums[s] \in Int
         /\ \A s \in SUBSET D : \A x \in s : sums[s] = f[x] + sums[s \ {x}]
  <1> USE DEF AreSums
  <1>r. \A s \in SUBSET D :
          sums[s] = IF s = {} THEN 0 ELSE f[Picked(s)] + sums[s \ {Picked(s)}]
    BY DEF Recursion
  <1>p. \A s \in SUBSET D : s # {} => Picked(s) \in s
    BY DEF Picked
  <1> DEFINE Whole == {s \in SUBSET D : sums[s] \in Int}
  <1>1. {} \in Whole /\ sums[{}] = 0
    BY <1>r
  <1>2. ASSUME NEW s \in SUBSET D, s # {}, \A x \in s : s \ {x} \in Whole
        PROVE  s \in Whole
    <2>1. Picked(s) \in s /\ sums[s] = f[Picked(s)] + sums[s \ {Picked(s)}]
      BY <1>r, <1>p, <1>2
    <2>2. f[Picked(s)] \in Int /\ sums[s \ {Picked(s)}] \in Int
      BY <1>2, <2>1
    <2> QED
      BY <2>1, <2>2
  <1>3. \A s \in SUBSET D : sums[s] \in Int
    <2> HIDE DEF Whole
    <2>1. SUBSET D \subseteq Whole
      BY <1>1, <1>2, SubsetInduction
    <2> QED
      BY <2>1 DEF Whole
  <1> DEFINE Good == {s \in SUBSET D : \A x \in s : sums[s] = f[x] + sums[s \ {x}]}
  <1>4. {} \in Good
    OBVIOUS
  <1>5. ASSUME NEW s \in SUBSET D, s # {}, \A x \in s : s \ {x} \in Good
        PROVE  s \in Good
    <2> DEFINE p == Picked(s)
    <2>1. p \in s /\ f[p] \in Int /\ sums[s] = f[p] + sums[s \ {p}]
      BY <1>r, <1>p, <1>5
    <2> HIDE DEF p
    <2>2. ASSUME NEW x \in s, x # p PROVE sums[s] = f[x] + sums[s \ {x}]
      <3> DEFINE rest == (s \ {p}) \ {x}
      <3>1. rest = (s \ {x}) \ {p}
        OBVIOUS
      <3>2. sums[s \ {p}] = f[x] + sums[rest]
        BY <1>5, <2>1, <2>2
      <3>3. sums[s \ {x}] = f[p] + sums[rest]
        BY <1>5, <2>1, <2>2, <3>1
      <3>4. sums[rest] \in Int /\ f[x] \in Int
        BY <1>3, <1>5, <2>2
      <3> QED
        BY <2>1, <3>2, <3>3, <3>4
    <2> QED
      BY <2>1, <2>2
  <1>6. SUBSET D \subseteq Good
    <2> HIDE DEF Good
    <2> QED
      BY <1>4, <1>5, SubsetInduction
  <1> QED
    BY <1>1, <1>3, <1>6

\* Two functions that agree on a set have the same sum over it, whatever
\* larger domains they are summed in.
LEMMA SameSums ==
  ASSUME NEW D, NEW f, NEW sums, AreSums(D, f, sums),
         NEW E, NEW g, NEW others, AreSums(E, g, others),
         D \subseteq E, \A x \in D : f[x] = g[x]
  PROVE  \A s \in SUBSET D : sums[s] = others[s]
  <1> USE DEF AreSums
  <1> DEFINE Same == {s \in SUBSET D : sums[s] = others[s]}
  <1>1. {} \in Same
    BY DEF Recursion
  <1>2. ASSUME NEW s \in SUBSET D, s # {}, \A x \in s : s \ {x} \in Same
        PROVE  s \in Same
    <2>1. Picked(s) \in s
      BY <1>2 DEF Picked
    <2>2. sums[s] = f[Picked(s)] + sums[s \ {Picked(s)}]
      BY <1>2 DEF Recursion
    <2>3. others[s] = g[Picked(s)] + others[s \ {Picked(s)}]
      BY <1>2 DEF Recursion
    <2> QED
      BY <1>2, <2>1, <2>2, <2>3
  <1> HIDE DEF Same
  <1>3. SUBSET D \subseteq Same
    BY <1>1, <1>2, SubsetInduction
  <1> QED
    BY <1>3 DEF Same

\* What SumFunction stands for.
LEMMA SumIsRecursive ==
  ASSUME NEW D, IsFiniteSet(D), NEW f \in [D -> Int]
  PROVE  \E sums : AreSums(D, f, sums) /\ SumFunction(f) = sums[D]
  <1> DEFINE sums == CHOOSE h : h = [s \in SUBSET D |->
                       IF s = {} THEN 0
                       ELSE f[CHOOSE x \in s : TRUE] + h[s \ {CHOOSE x \in s : TRUE}]]
  <1>1. SumFunction(f) = sums[D]
    BY DEF SumFunction, SumFunctionOnSet, FoldFunctionOnSet, MapThenFoldSet
  <1>2. Recursion(f, SUBSET D, sums)
    <2>1. PICK some : Recursion(f, SUBSET D, some)
      BY SumsExist
    <2>2. some = [s \in SUBSET D |->
                    IF s = {} THEN 0
                    ELSE f[CHOOSE x \in s : TRUE] + some[s \ {CHOOSE x \in s : TRUE}]]
      BY <2>1 DEF Recursion, Picked
    <2>3. sums = [s \in SUBSET D |->
                    IF s = {} THEN 0
                    ELSE f[CHOOSE x \in s : TRUE] + sums[s \ {CHOOSE x \in s : TRUE}]]
      BY <2>2, Zenon
    <2> HIDE DEF sums
    <2> QED
      BY <2>3 DEF Recursion, Picked
  <1> QED
    BY <1>1, <1>2 DEF AreSums

\* Nothing adds up to zero.
LEMMA SumEmpty ==
  ASSUME NEW f \in [{} -> Int]
  PROVE  SumFunction(f) = 0
  <1>1. PICK sums : AreSums({}, f, sums) /\ SumFunction(f) = sums[{}]
    BY SumIsRecursive, FS_EmptySet
  <1> QED
    BY <1>1, AnyOrder

\* One more element adds its value.
LEMMA SumAdd ==
  \A E : IsFiniteSet(E) =>
    \A x \in E : \A g \in [E -> Int] : \A f \in [E \ {x} -> Int] :
      (\A y \in E \ {x} : f[y] = g[y])
        => SumFunction(g) = SumFunction(f) + g[x] /\ SumFunction(f) \in Int
  <1> SUFFICES ASSUME NEW E, IsFiniteSet(E), NEW x \in E, NEW g \in [E -> Int],
                      NEW f \in [E \ {x} -> Int], \A y \in E \ {x} : f[y] = g[y]
               PROVE  SumFunction(g) = SumFunction(f) + g[x] /\ SumFunction(f) \in Int
    OBVIOUS
  <1>1. IsFiniteSet(E \ {x})
    BY FS_Subset
  <1>2. PICK others : AreSums(E, g, others) /\ SumFunction(g) = others[E]
    BY SumIsRecursive
  <1>3. PICK sums : AreSums(E \ {x}, f, sums) /\ SumFunction(f) = sums[E \ {x}]
    BY <1>1, SumIsRecursive
  <1>4. others[E] = g[x] + others[E \ {x}]
    <2>1. \A s \in SUBSET E : others[s] \in Int
      BY <1>2, AnyOrder
    <2>2. others[E] \in Int /\ others[E \ {x}] \in Int /\ g[x] \in Int
      BY <2>1
    <2> QED
      BY <1>2, <2>2, AnyOrder
  <1>5. \A s \in SUBSET (E \ {x}) : sums[s] = others[s]
    <2>1. E \ {x} \subseteq E
      OBVIOUS
    <2> QED
      BY <1>2, <1>3, <2>1, SameSums
  <1>6. \A s \in SUBSET (E \ {x}) : sums[s] \in Int
    BY <1>3, AnyOrder
  <1>7. sums[E \ {x}] = others[E \ {x}] /\ sums[E \ {x}] \in Int
    BY <1>5, <1>6
  <1> QED
    BY <1>2, <1>3, <1>4, <1>7

\* The sum over a sequence grows by the element that is appended.
LEMMA SumAppend ==
  ASSUME NEW n \in Nat, NEW f \in [1 .. n -> Int], NEW g \in [1 .. n + 1 -> Int],
         \A i \in 1 .. n : g[i] = f[i]
  PROVE  SumFunction(g) = SumFunction(f) + g[n + 1] /\ SumFunction(f) \in Int
  <1>1. IsFiniteSet(1 .. n + 1)
    BY FS_Interval
  <1>2. 1 .. n = (1 .. n + 1) \ {n + 1} /\ n + 1 \in 1 .. n + 1
    OBVIOUS
  <1>3. PICK E, x : E = 1 .. n + 1 /\ x = n + 1
    OBVIOUS
  <1>4. IsFiniteSet(E) /\ x \in E
    BY <1>1, <1>2, <1>3
  <1>5. g \in [E -> Int] /\ f \in [E \ {x} -> Int] /\ \A y \in E \ {x} : f[y] = g[y]
    BY <1>2, <1>3
  <1>6. SumFunction(g) = SumFunction(f) + g[x] /\ SumFunction(f) \in Int
    BY <1>4, <1>5, SumAdd
  <1> QED
    BY <1>3, <1>6

-----------------------------------------------------------------------------
\* Appending a value to a sequence adds it to the values of the sequence.
LEMMA RangeAppend ==
  ASSUME NEW S, NEW list \in Seq(S), NEW x
  PROVE  Range(Append(list, x)) = Range(list) \cup {x}
  <1>1. /\ Len(list) \in Nat /\ DOMAIN list = 1 .. Len(list)
        /\ DOMAIN Append(list, x) = 1 .. Len(list) + 1
        /\ \A i \in 1 .. Len(list) : Append(list, x)[i] = list[i]
        /\ Append(list, x)[Len(list) + 1] = x
    OBVIOUS
  <1>2. /\ \A i \in 1 .. Len(list) + 1 : i \in 1 .. Len(list) \/ i = Len(list) + 1
        /\ \A i \in 1 .. Len(list) : i \in 1 .. Len(list) + 1
        /\ Len(list) + 1 \in 1 .. Len(list) + 1
    BY <1>1
  <1> QED
    BY <1>1, <1>2 DEF Range

-----------------------------------------------------------------------------
(***************************************************************************)
(* Sequences of sequences, put one after the other.                        *)
(***************************************************************************)

\* The recursion by which FlattenSeq is defined, over the first k of the
\* sequences.
Flattened(files, k, parts) ==
  parts = [i \in 1 .. k |-> IF i = 1 THEN files[i] ELSE parts[i - 1] \o files[i]]

\* The recursion of FlattenSeq has a solution.
LEMMA FlattenExists ==
  ASSUME NEW files, NEW n \in Nat
  PROVE  \E parts : Flattened(files, n, parts)
  <1> DEFINE Solved == {k \in Nat : \E parts : Flattened(files, k, parts)}
  <1>1. 0 \in Solved
    <2>1. Flattened(files, 0, [i \in 1 .. 0 |-> 0])
      BY DEF Flattened
    <2> QED
      BY <2>1
  <1>2. ASSUME NEW k \in Nat, k \in Solved PROVE k + 1 \in Solved
    <2>1. PICK parts : Flattened(files, k, parts)
      BY <1>2
    <2> DEFINE last == IF k = 0 THEN files[1] ELSE parts[k] \o files[k + 1]
               more == [i \in 1 .. k + 1 |-> IF i <= k THEN parts[i] ELSE last]
    <2>2. ASSUME NEW i \in 1 .. k + 1
          PROVE  more[i] = IF i = 1 THEN files[i] ELSE more[i - 1] \o files[i]
      <3>1. CASE i <= k
        <4>1. i \in 1 .. k /\ (i # 1 => i - 1 \in 1 .. k /\ i - 1 \in 1 .. k + 1 /\ i - 1 <= k)
          BY <3>1
        <4>2. parts[i] = IF i = 1 THEN files[i] ELSE parts[i - 1] \o files[i]
          BY <2>1, <4>1 DEF Flattened
        <4> QED
          BY <3>1, <4>1, <4>2
      <3>2. CASE i = k + 1
        <4>1. more[i] = last
          BY <3>2
        <4>2. k # 0 => more[k] = parts[k] /\ i - 1 = k /\ i # 1
          BY <3>2
        <4> QED
          BY <3>2, <4>1, <4>2
      <3> QED
        BY <3>1, <3>2
    <2>3. more = [i \in 1 .. k + 1 |-> more[i]]
      OBVIOUS
    <2> HIDE DEF more
    <2>4. Flattened(files, k + 1, more)
      BY <2>2, <2>3 DEF Flattened
    <2> QED
      BY <2>4
  <1> HIDE DEF Solved
  <1>3. n \in Solved
    BY <1>1, <1>2, Induction
  <1> QED
    BY <1>3 DEF Solved
=============================================================================
