---------------------------- MODULE DataTheorems ----------------------------
(***************************************************************************)
(* What the proofs of several components need to know about their data:    *)
(* induction over numbers and finite sets, the sums of Functions.tla, and  *)
(* sequences that grow at their end and lose elements anywhere.            *)
(* An induction is stated for a set of numbers, or of sets, that is closed *)
(* under its step: the provers instantiate a set, not an operator.         *)
(***************************************************************************)
EXTENDS Integers, FiniteSets, Sequences, Functions, SequencesExt,
        FiniteSetTheorems, SequenceTheorems, WellFoundedInduction, TLAPS

\* A set of numbers that is not empty has a least one.
LEMMA LeastNumber ==
    ASSUME NEW S \in SUBSET Nat, S # {}
    PROVE  \E n \in S : \A m \in S : n <= m
<1> DEFINE Less == {ss \in Nat \X Nat : ss[1] < ss[2]}
<1>1. IsWellFoundedOn(Less, Nat) BY NatLessThanWellFounded DEF OpToRel
<1>2. PICK n \in S : \A m \in S : <<m, n>> \notin Less
  <2> HIDE DEF Less
  <2>1. QED BY <1>1, WFMin, Zenon
<1>3. ASSUME NEW m \in S PROVE n <= m
  <2>1. <<m, n>> \notin Less BY <1>2
  <2>2. QED BY <2>1
<1>4. QED BY <1>3

\* Induction over the numbers.
LEMMA NumberInduction ==
    ASSUME NEW A \in SUBSET Nat, 0 \in A, \A n \in A : n + 1 \in A
    PROVE  A = Nat
<1> SUFFICES ASSUME Nat \ A # {} PROVE FALSE OBVIOUS
<1>1. PICK n \in Nat \ A : \A m \in Nat \ A : n <= m BY LeastNumber
<1>2. n - 1 \in A /\ n # 0 BY <1>1
<1>3. QED BY <1>1, <1>2

\* Induction over the subsets of a finite set, one element at a time.
LEMMA SubsetInduction ==
    ASSUME NEW S, IsFiniteSet(S),
           NEW F, {} \in F,
           \A s \in SUBSET S : s # {} /\ (\A x \in s : s \ {x} \in F) => s \in F
    PROVE  S \in F
<1> DEFINE A == {n \in Nat : \A s \in SUBSET S : Cardinality(s) = n => s \in F}
<1>1. \A s \in SUBSET S : IsFiniteSet(s) /\ Cardinality(s) \in Nat
      BY FS_Subset, FS_CardinalityType
<1>2. 0 \in A BY <1>1, FS_EmptySet
<1>3. ASSUME NEW n \in A PROVE n + 1 \in A
  <2>1. SUFFICES ASSUME NEW s \in SUBSET S, Cardinality(s) = n + 1 PROVE s \in F
        BY <1>3
  <2>2. s # {} BY <1>1, <2>1, FS_EmptySet
  <2>3. ASSUME NEW x \in s PROVE s \ {x} \in F
    <3>1. Cardinality(s \ {x}) = n BY <1>1, <2>1, FS_RemoveElement
    <3>2. QED BY <1>3, <3>1
  <2>4. QED BY <2>2, <2>3
<1>4. A = Nat
  <2> HIDE DEF A
  <2>1. A \in SUBSET Nat BY DEF A
  <2>2. QED BY <1>2, <1>3, <2>1, NumberInduction
<1>5. QED BY <1>1, <1>4

-----------------------------------------------------------------------------
(* The sums of Functions.tla: a recursive function on the subsets of the   *)
(* domain, which takes one chosen element after the other.                 *)

Chosen(s) == CHOOSE x \in s : TRUE
SumsOf(f, D, g) ==
    g = [s \in D |-> IF s = {} THEN 0 ELSE f[Chosen(s)] + g[s \ {Chosen(s)}]]
Sums(f, S, g) == SumsOf(f, SUBSET S, g)

\* The chosen element is one of the set.
LEMMA ChosenIn == ASSUME NEW s, s # {} PROVE Chosen(s) \in s
BY DEF Chosen

\* The recursive function exists.
LEMMA SumsExist ==
    ASSUME NEW f, NEW S, IsFiniteSet(S)
    PROVE  \E g : Sums(f, S, g)
<1> DEFINE Upto(n) == {s \in SUBSET S : Cardinality(s) <= n}
           A == {n \in Nat : \E g : SumsOf(f, Upto(n), g)}
<1>1. \A s \in SUBSET S : IsFiniteSet(s) /\ Cardinality(s) \in Nat
      BY FS_Subset, FS_CardinalityType
<1>2. 0 \in A
  <2>1. \A s \in Upto(0) : s = {} BY <1>1, FS_EmptySet
  <2>2. SumsOf(f, Upto(0), [s \in Upto(0) |-> 0]) BY <2>1 DEF SumsOf
  <2>3. QED BY <2>2
<1>3. ASSUME NEW n \in A PROVE n + 1 \in A
  <2>1. PICK g : SumsOf(f, Upto(n), g) BY <1>3
  <2> DEFINE h == [s \in Upto(n + 1) |->
                      IF s = {} THEN 0 ELSE f[Chosen(s)] + g[s \ {Chosen(s)}]]
  <2>2. ASSUME NEW s \in Upto(n + 1), s # {}
        PROVE  s \ {Chosen(s)} \in Upto(n)
    <3>1. Cardinality(s \ {Chosen(s)}) = Cardinality(s) - 1
          BY <1>1, <2>2, ChosenIn, FS_RemoveElement
    <3>2. QED BY <1>1, <3>1
  <2>3. \A s \in Upto(n) : s \in Upto(n + 1)
    <3>1. n \in Nat OBVIOUS
    <3>2. QED BY <1>1, <3>1
  <2>4. \A s \in Upto(n) : h[s] = g[s] BY <2>1, <2>3 DEF SumsOf
  <2>5. SumsOf(f, Upto(n + 1), h) BY <2>2, <2>4 DEF SumsOf
  <2>6. QED
    <3>1. n + 1 \in Nat OBVIOUS
    <3> HIDE DEF h
    <3>2. QED BY <2>5, <3>1
<1>4. A = Nat
  <2> HIDE DEF A
  <2>1. A \in SUBSET Nat BY DEF A
  <2>2. QED BY <1>2, <1>3, <2>1, NumberInduction
<1>5. Upto(Cardinality(S)) = SUBSET S BY <1>1, FS_Subset
<1>6. PICK g : SumsOf(f, Upto(Cardinality(S)), g) BY <1>1, <1>4
<1>7. QED BY <1>5, <1>6 DEF Sums

\* A sum is the value of such a function.
LEMMA SumIsOne ==
    ASSUME NEW f, NEW S, IsFiniteSet(S)
    PROVE  \E g : Sums(f, S, g) /\ SumFunctionOnSet(f, S) = g[S]
<1> DEFINE g == CHOOSE g : Sums(f, S, g)
<1>1. Sums(f, S, g) BY SumsExist
<1>2. SumFunctionOnSet(f, S) = g[S]
      BY DEF SumFunctionOnSet, FoldFunctionOnSet, MapThenFoldSet, Chosen, Sums, SumsOf
<1>3. QED BY <1>1, <1>2

\* Two of them agree where both are defined.
LEMMA SumsAgree ==
    ASSUME NEW f, NEW S, IsFiniteSet(S), NEW T \in SUBSET S,
           NEW g, Sums(f, S, g), NEW h, Sums(f, T, h)
    PROVE  g[T] = h[T]
<1> DEFINE F == {s \in SUBSET T : g[s] = h[s]}
<1>1. {} \in F BY DEF Sums, SumsOf
<1>2. ASSUME NEW s \in SUBSET T, s # {}, \A x \in s : s \ {x} \in F PROVE s \in F
  <2>1. Chosen(s) \in s BY <1>2, ChosenIn
  <2>2. g[s \ {Chosen(s)}] = h[s \ {Chosen(s)}] BY <1>2, <2>1
  <2>3. g[s] = f[Chosen(s)] + g[s \ {Chosen(s)}] BY <1>2 DEF Sums, SumsOf
  <2>4. h[s] = f[Chosen(s)] + h[s \ {Chosen(s)}] BY <1>2 DEF Sums, SumsOf
  <2>5. QED BY <2>2, <2>3, <2>4
<1>3. T \in F
  <2> HIDE DEF F
  <2>1. IsFiniteSet(T) BY FS_Subset
  <2>2. QED BY <1>1, <1>2, <2>1, SubsetInduction
<1>4. QED BY <1>3

\* The order in which a sum takes its elements does not matter.
LEMMA SumsRemove ==
    ASSUME NEW S, IsFiniteSet(S), NEW f, \A x \in S : f[x] \in Int,
           NEW g, Sums(f, S, g)
    PROVE  g[S] \in Int /\ \A x \in S : g[S] = f[x] + g[S \ {x}]
<1> DEFINE F == {s \in SUBSET S :
                    /\ g[s] \in Int
                    /\ \A x \in s : g[s] = f[x] + g[s \ {x}] /\ g[s \ {x}] \in Int}
<1>1. {} \in F BY DEF Sums, SumsOf
<1>2. ASSUME NEW s \in SUBSET S, s # {}, \A x \in s : s \ {x} \in F PROVE s \in F
  <2> DEFINE c == Chosen(s)
  <2>1. c \in s BY <1>2, ChosenIn
  <2>2. g[s] = f[c] + g[s \ {c}] BY <1>2 DEF Sums, SumsOf
  <2> HIDE DEF c
  <2>3. \A x \in s : f[x] \in Int /\ g[s \ {x}] \in Int BY <1>2
  <2>4. ASSUME NEW x \in s, x # c PROVE g[s] = f[x] + g[s \ {x}]
    <3> DEFINE rest == (s \ {c}) \ {x}
    <3>1. g[s \ {c}] = f[x] + g[rest] /\ g[rest] \in Int BY <1>2, <2>1, <2>4
    <3>2. g[s \ {x}] = f[c] + g[(s \ {x}) \ {c}] BY <1>2, <2>1, <2>4
    <3>3. (s \ {x}) \ {c} = rest OBVIOUS
    <3> HIDE DEF rest
    <3>4. f[x] \in Int /\ f[c] \in Int BY <2>1, <2>3
    <3>5. g[s \ {x}] = f[c] + g[rest] BY <3>2, <3>3
    <3>6. QED BY <2>2, <3>1, <3>4, <3>5
  <2>5. g[s] \in Int
    <3>1. f[c] \in Int /\ g[s \ {c}] \in Int BY <2>1, <2>3
    <3>2. QED BY <2>2, <3>1
  <2>6. QED BY <2>1, <2>2, <2>3, <2>4, <2>5
<1>3. S \in F
  <2> HIDE DEF F
  <2>1. QED BY <1>1, <1>2, SubsetInduction
<1>4. QED BY <1>3

-----------------------------------------------------------------------------
(* What the proofs cite.                                                   *)

\* The sum of nothing.
LEMMA SumEmpty == ASSUME NEW f PROVE SumFunctionOnSet(f, {}) = 0
<1>1. PICK g : Sums(f, {}, g) /\ SumFunctionOnSet(f, {}) = g[{}]
      BY SumIsOne, FS_EmptySet
<1>2. QED BY <1>1 DEF Sums, SumsOf

\* A sum of integers is one, and any element can be taken out of it.
LEMMA SumTakes ==
    ASSUME NEW S, IsFiniteSet(S), NEW f, \A x \in S : f[x] \in Int
    PROVE  /\ SumFunctionOnSet(f, S) \in Int
           /\ \A x \in S : SumFunctionOnSet(f, S) = f[x] + SumFunctionOnSet(f, S \ {x})
<1>1. PICK g : Sums(f, S, g) /\ SumFunctionOnSet(f, S) = g[S] BY SumIsOne
<1>2. g[S] \in Int /\ \A x \in S : g[S] = f[x] + g[S \ {x}] BY <1>1, SumsRemove
<1>3. ASSUME NEW T \in SUBSET S PROVE SumFunctionOnSet(f, T) = g[T]
  <2>1. IsFiniteSet(T) BY FS_Subset
  <2>2. PICK h : Sums(f, T, h) /\ SumFunctionOnSet(f, T) = h[T]
        BY <2>1, SumIsOne
  <2>3. g[T] = h[T] BY <1>1, <2>2, SumsAgree
  <2>4. QED BY <2>2, <2>3
<1>4. QED BY <1>1, <1>2, <1>3

\* A smaller function has a smaller sum.
LEMMA SumMonotone ==
    ASSUME NEW S, IsFiniteSet(S),
           NEW f, NEW h, \A x \in S : f[x] \in Int /\ h[x] \in Int /\ f[x] <= h[x]
    PROVE  SumFunctionOnSet(f, S) <= SumFunctionOnSet(h, S)
<1> DEFINE F == {s \in SUBSET S : SumFunctionOnSet(f, s) <= SumFunctionOnSet(h, s)}
<1>1. {} \in F BY SumEmpty
<1>2. ASSUME NEW s \in SUBSET S, s # {}, \A x \in s : s \ {x} \in F PROVE s \in F
  <2>1. PICK x \in s : TRUE BY <1>2
  <2>2. IsFiniteSet(s) /\ IsFiniteSet(s \ {x}) BY FS_Subset, FS_RemoveElement
  <2>3. /\ SumFunctionOnSet(f, s) = f[x] + SumFunctionOnSet(f, s \ {x})
        /\ SumFunctionOnSet(h, s) = h[x] + SumFunctionOnSet(h, s \ {x})
        BY <2>2, SumTakes
  <2>4. SumFunctionOnSet(f, s \ {x}) \in Int /\ SumFunctionOnSet(h, s \ {x}) \in Int
        BY <2>2, SumTakes
  <2>5. SumFunctionOnSet(f, s \ {x}) <= SumFunctionOnSet(h, s \ {x}) BY <1>2
  <2>6. f[x] \in Int /\ h[x] \in Int /\ f[x] <= h[x] OBVIOUS
  <2>7. SumFunctionOnSet(f, s) <= SumFunctionOnSet(h, s) BY <2>3, <2>4, <2>5, <2>6
  <2>8. QED BY <2>7
<1>3. S \in F
  <2> HIDE DEF F
  <2>1. QED BY <1>1, <1>2, SubsetInduction
<1>4. QED BY <1>3

\* Functions that agree have the same sum.
LEMMA SumSame ==
    ASSUME NEW S, IsFiniteSet(S),
           NEW f, NEW h, \A x \in S : f[x] \in Int /\ h[x] = f[x]
    PROVE  SumFunctionOnSet(f, S) = SumFunctionOnSet(h, S)
<1>1. \A x \in S : /\ f[x] \in Int /\ h[x] \in Int
                  /\ f[x] <= h[x] /\ h[x] <= f[x]
      OBVIOUS
<1>2. /\ SumFunctionOnSet(f, S) <= SumFunctionOnSet(h, S)
      /\ SumFunctionOnSet(h, S) <= SumFunctionOnSet(f, S)
      BY <1>1, SumMonotone
<1>3. SumFunctionOnSet(f, S) \in Int /\ SumFunctionOnSet(h, S) \in Int
      BY <1>1, SumTakes
<1>4. QED BY <1>2, <1>3

\* One value changes, and the sum with it.
LEMMA SumChanges ==
    ASSUME NEW S, IsFiniteSet(S), NEW x \in S,
           NEW f, NEW h, \A y \in S : f[y] \in Int /\ h[y] \in Int,
           \A y \in S \ {x} : h[y] = f[y]
    PROVE  SumFunctionOnSet(h, S) = SumFunctionOnSet(f, S) - f[x] + h[x]
<1>1. IsFiniteSet(S \ {x}) BY FS_RemoveElement
<1>2. SumFunctionOnSet(f, S \ {x}) = SumFunctionOnSet(h, S \ {x}) BY <1>1, SumSame
<1>3. SumFunctionOnSet(f, S \ {x}) \in Int BY <1>1, SumTakes
<1>4. /\ SumFunctionOnSet(f, S) = f[x] + SumFunctionOnSet(f, S \ {x})
      /\ SumFunctionOnSet(h, S) = h[x] + SumFunctionOnSet(h, S \ {x})
      BY SumTakes
<1>5. QED BY <1>2, <1>3, <1>4

\* Nothing adds up to nothing.
LEMMA SumOfZeros ==
    ASSUME NEW S, IsFiniteSet(S), NEW f, \A x \in S : f[x] = 0
    PROVE  SumFunctionOnSet(f, S) = 0
<1> DEFINE F == {s \in SUBSET S : SumFunctionOnSet(f, s) = 0}
<1>1. {} \in F BY SumEmpty
<1>2. ASSUME NEW s \in SUBSET S, s # {}, \A x \in s : s \ {x} \in F PROVE s \in F
  <2>1. PICK x \in s : TRUE BY <1>2
  <2>2. IsFiniteSet(s) BY FS_Subset
  <2>3. SumFunctionOnSet(f, s) = f[x] + SumFunctionOnSet(f, s \ {x})
        BY <2>2, SumTakes
  <2>4. SumFunctionOnSet(f, s \ {x}) = 0 BY <1>2
  <2>5. f[x] = 0 OBVIOUS
  <2>6. QED BY <2>3, <2>4, <2>5
<1> HIDE DEF F
<1>3. S \in F BY <1>1, <1>2, SubsetInduction
<1>4. QED BY <1>3 DEF F

\* No element is more than the sum of all.
LEMMA SumCovers ==
    ASSUME NEW S, IsFiniteSet(S), NEW f, \A x \in S : f[x] \in Nat, NEW x \in S
    PROVE  f[x] <= SumFunctionOnSet(f, S)
<1> DEFINE only == [y \in S |-> IF y = x THEN f[x] ELSE 0]
           zero == [y \in S |-> 0]
<1>1. \A y \in S : only[y] \in Int /\ zero[y] \in Int /\ f[y] \in Int OBVIOUS
<1>2. \A y \in S : only[y] <= f[y] /\ zero[y] <= zero[y] OBVIOUS
<1>3. \A y \in S \ {x} : only[y] = zero[y] OBVIOUS
<1>4. only[x] = f[x] /\ zero[x] = 0 OBVIOUS
<1>5. SumFunctionOnSet(zero, S) >= 0
  <2>1. \A y \in S : zero[y] = 0 OBVIOUS
  <2> HIDE DEF zero
  <2>2. QED BY <2>1, SumOfZeros
<1> HIDE DEF only, zero
<1>6. SumFunctionOnSet(only, S) = SumFunctionOnSet(zero, S) - zero[x] + only[x]
      BY <1>1, <1>3, SumChanges
<1>7. SumFunctionOnSet(only, S) <= SumFunctionOnSet(f, S)
      BY <1>1, <1>2, SumMonotone
<1>8. SumFunctionOnSet(only, S) \in Int /\ SumFunctionOnSet(f, S) \in Int
      /\ SumFunctionOnSet(zero, S) \in Int
      BY <1>1, SumTakes
<1>9. QED BY <1>1, <1>4, <1>5, <1>6, <1>7, <1>8

-----------------------------------------------------------------------------
(* Increasing sequences of numbers.                                        *)

Increasing(s) == \A i, j \in DOMAIN s : i < j => s[i] < s[j]

\* A greater number goes to the end.
LEMMA AppendIncreasing ==
    ASSUME NEW s \in Seq(Nat), Increasing(s), NEW n \in Nat, \A x \in Range(s) : x < n
    PROVE  /\ Append(s, n) \in Seq(Nat) /\ Increasing(Append(s, n))
           /\ Range(Append(s, n)) = Range(s) \cup {n}
           /\ Len(Append(s, n)) = Len(s) + 1
<1> DEFINE a == Append(s, n)
<1>1. /\ a \in Seq(Nat) /\ Len(a) = Len(s) + 1 /\ Len(s) \in Nat
      /\ \A i \in 1..Len(s) : a[i] = s[i] /\ s[i] \in Nat
      /\ a[Len(s) + 1] = n
      BY AppendProperties
<1>2. DOMAIN a = 1..(Len(s) + 1) /\ DOMAIN s = 1..Len(s) BY <1>1
<1> HIDE DEF a
<1>3. \A i \in 1..Len(s) : s[i] < n BY <1>2 DEF Range
<1>4. Increasing(a)
  <2> SUFFICES ASSUME NEW i \in 1..(Len(s) + 1), NEW j \in 1..(Len(s) + 1), i < j
               PROVE  a[i] < a[j]
      BY <1>2 DEF Increasing
  <2>1. i \in 1..Len(s) /\ a[i] = s[i] BY <1>1
  <2>2. CASE j = Len(s) + 1 BY <1>1, <1>3, <2>1, <2>2
  <2>3. CASE j \in 1..Len(s)
    <3>1. s[i] < s[j] BY <1>2, <2>1, <2>3 DEF Increasing
    <3>2. QED BY <1>1, <2>1, <2>3, <3>1
  <2>4. Len(s) \in Nat BY <1>1
  <2>5. j = Len(s) + 1 \/ j \in 1..Len(s) BY <2>4
  <2>6. QED BY <2>2, <2>3, <2>5
<1>5. Range(a) = Range(s) \cup {n}
  <2>1. Range(a) = {a[i] : i \in 1..(Len(s) + 1)} BY <1>2 DEF Range
  <2>2. Range(s) = {s[i] : i \in 1..Len(s)} BY <1>2 DEF Range
  <2>3. \A i \in 1..(Len(s) + 1) : i \in 1..Len(s) \/ i = Len(s) + 1 BY <1>1
  <2>4. \A i \in 1..Len(s) : i \in 1..(Len(s) + 1) BY <1>1
  <2>5. Len(s) + 1 \in 1..(Len(s) + 1) BY <1>1
  <2>6. QED BY <1>1, <2>1, <2>2, <2>3, <2>4, <2>5
<1>6. QED BY <1>1, <1>4, <1>5 DEF a

\* What is left of a sequence without its element at k.
Without(s, k) == [i \in 1..(Len(s) - 1) |-> IF i < k THEN s[i] ELSE s[i + 1]]

\* RemoveAt leaves just that.
LEMMA RemovedAt ==
    ASSUME NEW S, NEW s \in Seq(S), NEW k \in 1..Len(s)
    PROVE  /\ RemoveAt(s, k) = Without(s, k) /\ RemoveAt(s, k) \in Seq(S)
           /\ Len(RemoveAt(s, k)) = Len(s) - 1
<1> DEFINE r == RemoveAt(s, k)
           b == SubSeq(s, 1, k - 1)
           e == SubSeq(s, k + 1, Len(s))
<1>1. Len(s) \in Nat /\ \A i \in 1..Len(s) : s[i] \in S BY LenProperties, ElementOfSeq
<1>2. \A i \in 1..(k - 1) : s[i] \in S BY <1>1
<1>3. \A i \in (k + 1)..Len(s) : s[i] \in S BY <1>1
<1>4. /\ b \in Seq(S) /\ Len(b) = k - 1
      /\ \A i \in 1..(k - 1) : b[i] = s[i]
  <2>1. /\ b \in Seq(S) /\ Len(b) = (IF 1 <= k - 1 THEN k - 1 - 1 + 1 ELSE 0)
        /\ \A i \in 1..(k - 1 - 1 + 1) : b[i] = s[1 + i - 1]
        BY <1>1, <1>2, SubSeqProperties
  <2>2. QED BY <1>1, <2>1
<1>5. /\ e \in Seq(S) /\ Len(e) = Len(s) - k
      /\ \A i \in 1..(Len(s) - k) : e[i] = s[i + k]
  <2>1. /\ e \in Seq(S)
        /\ Len(e) = (IF k + 1 <= Len(s) THEN Len(s) - (k + 1) + 1 ELSE 0)
        /\ \A i \in 1..(Len(s) - (k + 1) + 1) : e[i] = s[k + 1 + i - 1]
        BY <1>1, <1>3, SubSeqProperties
  <2>2. Len(e) = Len(s) - k BY <1>1, <2>1
  <2>3. ASSUME NEW i \in 1..(Len(s) - k) PROVE e[i] = s[i + k]
    <3>1. i \in 1..(Len(s) - (k + 1) + 1) BY <1>1
    <3>2. e[i] = s[k + 1 + i - 1] BY <2>1, <3>1
    <3>3. k + 1 + i - 1 = i + k OBVIOUS
    <3>4. QED BY <3>2, <3>3
  <2>4. QED BY <2>1, <2>2, <2>3
<1>6. r = b \o e BY DEF RemoveAt
<1> HIDE DEF r, b, e
<1>7. /\ r \in Seq(S) /\ Len(r) = Len(b) + Len(e)
      /\ \A i \in 1..(Len(b) + Len(e)) :
            r[i] = IF i <= Len(b) THEN b[i] ELSE e[i - Len(b)]
      BY <1>4, <1>5, <1>6, ConcatProperties
<1>8. Len(r) = Len(s) - 1 BY <1>1, <1>4, <1>5, <1>7
<1>9. ASSUME NEW i \in 1..(Len(s) - 1) PROVE r[i] = IF i < k THEN s[i] ELSE s[i + 1]
  <2>1. i \in 1..(Len(b) + Len(e)) BY <1>1, <1>4, <1>5
  <2>2. CASE i < k
    <3>1. i <= Len(b) /\ i \in 1..(k - 1) BY <1>4, <2>2
    <3>2. QED BY <1>4, <1>7, <2>1, <2>2, <3>1
  <2>3. CASE ~(i < k)
    <3>1. ~(i <= Len(b)) /\ i - Len(b) \in 1..(Len(s) - k) BY <1>1, <1>4, <2>3
    <3>2. r[i] = e[i - Len(b)] BY <1>7, <2>1, <3>1
    <3>3. e[i - Len(b)] = s[i - Len(b) + k] BY <1>5, <3>1
    <3>4. i - Len(b) + k = i + 1 BY <1>4
    <3>5. QED BY <2>3, <3>2, <3>3, <3>4
  <2>4. QED BY <2>2, <2>3
<1>10. DOMAIN r = 1..(Len(s) - 1) BY <1>7, <1>8, LenProperties
<1>11. r = Without(s, k)
  <2>1. r = [i \in 1..(Len(s) - 1) |-> r[i]] BY <1>7, <1>8, LenProperties
  <2>2. QED BY <1>9, <2>1 DEF Without
<1>12. QED BY <1>7, <1>8, <1>11 DEF r

\* What is left has the elements that were there.
LEMMA RemoveTyped ==
    ASSUME NEW S, NEW s \in Seq(S), NEW e
    PROVE  RemoveFirst(s, e) \in Seq(S)
<1>1. Len(s) \in Nat /\ DOMAIN s = 1..Len(s) BY LenProperties
<1>2. CASE ~\E i \in 1..Len(s) : s[i] = e BY <1>2 DEF RemoveFirst
<1>3. CASE \E i \in 1..Len(s) : s[i] = e
  <2> DEFINE at == {i \in 1..Len(s) : s[i] = e}
             k == CHOOSE x \in at : \A y \in at : x <= y
  <2>1. at # {} /\ at \in SUBSET Nat BY <1>1, <1>3
  <2>2. \E x \in at : \A y \in at : x <= y BY <2>1, LeastNumber
  <2>3. k \in at BY <2>2
  <2>4. RemoveFirst(s, e) = RemoveAt(s, k) BY <1>3 DEF RemoveFirst, SelectInSeq, Min
  <2> HIDE DEF k
  <2>5. QED BY <2>3, <2>4, RemovedAt
<1>4. QED BY <1>2, <1>3

\* An element is taken out.
LEMMA RemoveIncreasing ==
    ASSUME NEW s \in Seq(Nat), Increasing(s), NEW e
    PROVE  /\ RemoveFirst(s, e) \in Seq(Nat) /\ Increasing(RemoveFirst(s, e))
           /\ Range(RemoveFirst(s, e)) = Range(s) \ {e}
           /\ Len(RemoveFirst(s, e)) = IF e \in Range(s) THEN Len(s) - 1 ELSE Len(s)
<1>1. Len(s) \in Nat /\ DOMAIN s = 1..Len(s) /\ \A i \in 1..Len(s) : s[i] \in Nat
      BY LenProperties, ElementOfSeq
<1>2. CASE e \notin Range(s)
  <2>1. RemoveFirst(s, e) = s BY <1>1, <1>2 DEF RemoveFirst, Range
  <2>2. QED BY <1>2, <2>1
<1>3. CASE e \in Range(s)
  <2> DEFINE at == {i \in 1..Len(s) : s[i] = e}
             k == CHOOSE x \in at : \A y \in at : x <= y
             r == RemoveFirst(s, e)
  <2>1. at # {} /\ at \in SUBSET Nat BY <1>1, <1>3 DEF Range
  <2>2. \E x \in at : \A y \in at : x <= y BY <2>1, LeastNumber
  <2>3. k \in at BY <2>2
  <2>4. r = RemoveAt(s, k) BY <2>1 DEF RemoveFirst, SelectInSeq, Min
  <2> HIDE DEF k, r
  <2>5. k \in 1..Len(s) /\ s[k] = e BY <2>3
  <2> HIDE DEF at
  <2>6. r = Without(s, k) /\ r \in Seq(Nat) /\ Len(r) = Len(s) - 1 BY <2>4, <2>5, RemovedAt
  <2>7. DOMAIN r = 1..(Len(s) - 1) BY <2>6 DEF Without
  <2>8. \A i \in 1..(Len(s) - 1) :
           /\ i < k => r[i] = s[i] /\ i \in 1..Len(s)
           /\ ~(i < k) => r[i] = s[i + 1] /\ i + 1 \in 1..Len(s)
        BY <1>1, <2>6 DEF Without
  <2>9. \A i, j \in 1..Len(s) : i < j => s[i] < s[j] BY <1>1 DEF Increasing
  <2>10. Increasing(r)
    <3> SUFFICES ASSUME NEW i \in 1..(Len(s) - 1), NEW j \in 1..(Len(s) - 1), i < j
                 PROVE  r[i] < r[j]
        BY <2>7 DEF Increasing
    <3>1. CASE i < k /\ j < k BY <2>8, <2>9, <3>1
    <3>2. CASE i < k /\ ~(j < k)
      <4>1. i < j + 1 OBVIOUS
      <4>2. QED BY <2>8, <2>9, <3>2, <4>1
    <3>3. CASE ~(i < k)
      <4>1. ~(j < k) /\ i + 1 < j + 1 BY <2>5, <3>3
      <4>2. QED BY <2>8, <2>9, <3>3, <4>1
    <3>4. QED BY <3>1, <3>2, <3>3
  <2>11. Range(r) = Range(s) \ {e}
    <3>1. Range(r) = {r[i] : i \in 1..(Len(s) - 1)} BY <2>7 DEF Range
    <3>2. Range(s) = {s[i] : i \in 1..Len(s)} BY <1>1 DEF Range
    <3>3. ASSUME NEW i \in 1..Len(s), s[i] = e PROVE i = k
      <4>1. i < k \/ k < i \/ i = k BY <2>5
      <4>2. i < k => s[i] < s[k] BY <2>5, <2>9
      <4>3. k < i => s[k] < s[i] BY <2>5, <2>9
      <4>4. e \in Nat BY <1>1, <2>5
      <4>5. QED BY <2>5, <3>3, <4>1, <4>2, <4>3, <4>4
    <3>4. ASSUME NEW i \in 1..(Len(s) - 1) PROVE r[i] \in Range(s) \ {e}
      <4>1. CASE i < k
        <5>1. r[i] = s[i] /\ i \in 1..Len(s) /\ i # k BY <2>5, <2>8, <4>1
        <5>2. QED BY <3>2, <3>3, <5>1
      <4>2. CASE ~(i < k)
        <5>1. r[i] = s[i + 1] /\ i + 1 \in 1..Len(s) /\ i + 1 # k BY <2>5, <2>8, <4>2
        <5>2. QED BY <3>2, <3>3, <5>1
      <4>3. QED BY <4>1, <4>2
    <3>5. ASSUME NEW i \in 1..Len(s), i # k PROVE s[i] \in Range(r)
      <4>1. CASE i < k
        <5>1. i \in 1..(Len(s) - 1) BY <1>1, <2>5, <4>1
        <5>2. QED BY <2>8, <3>1, <4>1, <5>1
      <4>2. CASE ~(i < k)
        <5>1. i - 1 \in 1..(Len(s) - 1) /\ ~(i - 1 < k) /\ (i - 1) + 1 = i
              BY <1>1, <2>5, <3>5, <4>2
        <5>2. r[i - 1] = s[(i - 1) + 1] BY <2>8, <5>1
        <5>3. QED BY <3>1, <5>1, <5>2
      <4>3. QED BY <4>1, <4>2
    <3>6. QED BY <2>5, <3>1, <3>2, <3>4, <3>5
  <2>12. QED BY <1>3, <2>6, <2>10, <2>11 DEF r
<1>4. QED BY <1>2, <1>3

\* One increasing sequence goes on where another ends.
LEMMA ConcatIncreasing ==
    ASSUME NEW s \in Seq(Nat), Increasing(s), NEW t \in Seq(Nat), Increasing(t),
           \A x \in Range(s), y \in Range(t) : x < y
    PROVE  /\ s \o t \in Seq(Nat) /\ Increasing(s \o t)
           /\ Range(s \o t) = Range(s) \cup Range(t)
<1> DEFINE c == s \o t
<1>1. /\ c \in Seq(Nat) /\ Len(c) = Len(s) + Len(t)
      /\ \A i \in 1..(Len(s) + Len(t)) : c[i] = IF i <= Len(s) THEN s[i] ELSE t[i - Len(s)]
      /\ Range(c) = Range(s) \cup Range(t)
      BY ConcatProperties, RangeConcatenation
<1>2. /\ Len(s) \in Nat /\ Len(t) \in Nat /\ DOMAIN s = 1..Len(s) /\ DOMAIN t = 1..Len(t)
      BY LenProperties
<1>3. DOMAIN c = 1..(Len(s) + Len(t)) BY <1>1, LenProperties
<1> HIDE DEF c
<1>4. \A i \in 1..Len(s), j \in 1..Len(t) : s[i] < t[j] BY <1>2 DEF Range
<1>5. Increasing(c)
  <2> SUFFICES ASSUME NEW i \in 1..(Len(s) + Len(t)), NEW j \in 1..(Len(s) + Len(t)), i < j
               PROVE  c[i] < c[j]
      BY <1>3 DEF Increasing
  <2>1. CASE j <= Len(s)
    <3>1. i \in 1..Len(s) /\ j \in 1..Len(s) /\ i <= Len(s) BY <1>2, <2>1
    <3>2. s[i] < s[j] BY <1>2, <3>1 DEF Increasing
    <3>3. QED BY <1>1, <2>1, <3>1, <3>2
  <2>2. CASE i <= Len(s) /\ ~(j <= Len(s))
    <3>1. j - Len(s) \in 1..Len(t) /\ i \in 1..Len(s) BY <1>2, <2>2
    <3>2. s[i] < t[j - Len(s)] BY <1>4, <3>1
    <3>3. QED BY <1>1, <2>2, <3>2
  <2>3. CASE ~(i <= Len(s))
    <3>1. /\ i - Len(s) \in 1..Len(t) /\ j - Len(s) \in 1..Len(t)
          /\ i - Len(s) < j - Len(s) /\ ~(j <= Len(s))
          BY <1>2, <2>3
    <3>2. t[i - Len(s)] < t[j - Len(s)] BY <1>2, <3>1 DEF Increasing
    <3>3. QED BY <1>1, <2>3, <3>1, <3>2
  <2>4. QED BY <1>2, <2>1, <2>2, <2>3
<1>6. QED BY <1>1, <1>5 DEF c
=============================================================================
