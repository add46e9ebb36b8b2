-------------------------------- MODULE Sums --------------------------------
(* Lemmas about SumFunctionOnSet, the community modules' fold that adds the *)
(* values of a function over a finite set: the value of the empty sum, what *)
(* one more element or one changed value adds, and what bounds a sum. The   *)
(* proofs of conservation laws cite them; nothing here is about the code.   *)
(*                                                                          *)
(* The fold is a recursive function on the subsets of its set. Its recursion*)
(* is justified here from the existence of a least natural number in every  *)
(* non-empty set of them, the first-order form of induction.                *)
EXTENDS Integers, FiniteSets, Functions, FiniteSetTheorems, TLAPS

\* Every non-empty set of natural numbers has a least element.
LEMMA LeastNatural ==
    ASSUME NEW T, T \subseteq Nat, T # {}
    PROVE  \E n \in T : \A m \in T : ~(m < n)
<1>1. PICK n \in T : \A m \in T : <<m, n>> \notin OpToRel(<, Nat)
  BY NatLessThanWellFounded, WFMin, Zenon
<1> QED
  BY <1>1 DEF OpToRel

\* What holds at 0 and is kept by each step up to N holds everywhere to N.
LEMMA Upward ==
    ASSUME NEW N \in Nat, NEW T, 0 \in T, \A n \in 0 .. N - 1 : n \in T => n + 1 \in T
    PROVE  \A n \in 0 .. N : n \in T
<1> DEFINE Missing == {n \in Nat : n <= N /\ n \notin T}
<1> SUFFICES ASSUME Missing # {} PROVE FALSE
  OBVIOUS
<1>1. PICK n \in Missing : \A m \in Missing : ~(m < n)
  BY LeastNatural
<1>2. n # 0 /\ n - 1 \in 0 .. N - 1
  BY <1>1
<1>3. n - 1 \in T
  BY <1>1, <1>2
<1> QED BY <1>1, <1>2, <1>3

\* The element the fold takes first, its recursion equation for the function
\* g on the sets of D, and the subsets of S of at most n elements.
Chosen(s) == CHOOSE x \in s : TRUE

Iterates(f, D, g) ==
    g = [s \in D |-> IF s = {} THEN 0 ELSE f[Chosen(s)] + g[s \ {Chosen(s)}]]

UpTo(S, n) == {s \in SUBSET S : Cardinality(s) <= n}

\* It is an element.
LEMMA ChosenIn ==
    ASSUME NEW s, s # {}
    PROVE  Chosen(s) \in s
BY DEF Chosen

\* Removing an element leaves one element less.
LEMMA SmallerByOne ==
    ASSUME NEW s, IsFiniteSet(s), NEW x \in s
    PROVE  /\ IsFiniteSet(s \ {x})
           /\ Cardinality(s) \in Nat
           /\ Cardinality(s \ {x}) = Cardinality(s) - 1
           /\ Cardinality(s \ {x}) \in Nat
BY FS_RemoveElement, FS_CardinalityType

\* Induction over the subsets of a finite set: a set X that contains each of
\* them as soon as it contains the smaller ones contains them all.
LEMMA SubsetInduction ==
    ASSUME NEW S, IsFiniteSet(S), NEW X,
           \A s \in SUBSET S : (\A r \in SUBSET s : r # s => r \in X) => s \in X
    PROVE  \A s \in SUBSET S : s \in X
<1> DEFINE T == {n \in Nat : \E s \in SUBSET S : Cardinality(s) = n /\ s \notin X}
<1>1. \A s \in SUBSET S : IsFiniteSet(s) /\ Cardinality(s) \in Nat
  BY FS_Subset, FS_CardinalityType
<1> SUFFICES ASSUME T # {} PROVE FALSE
  BY <1>1
<1>2. PICK n \in T : \A k \in T : ~(k < n)
  BY LeastNatural
<1>3. PICK s \in SUBSET S : Cardinality(s) = n /\ s \notin X
  BY <1>2
<1>4. PICK r \in SUBSET s : r # s /\ r \notin X
  BY <1>3
<1>5. /\ Cardinality(r) \in Nat /\ Cardinality(r) < n
      /\ r \in SUBSET S
  <2>1. r \in SUBSET S /\ IsFiniteSet(s) /\ Cardinality(r) \in Nat
    BY <1>1, <1>4
  <2>2. Cardinality(r) <= Cardinality(s) /\ Cardinality(r) # Cardinality(s)
    BY <1>4, <2>1, FS_Subset
  <2> QED
    BY <1>1, <1>3, <2>1, <2>2
<1> QED
  BY <1>2, <1>4, <1>5

\* A finite non-empty set of natural numbers has a greatest element.
LEMMA HighestExists ==
    ASSUME NEW S, IsFiniteSet(S), S \subseteq Nat, S # {}
    PROVE  \E p \in S : \A q \in S : p >= q
<1> DEFINE X == {s \in SUBSET S : s # {} => \E p \in s : \A q \in s : p >= q}
<1>1. ASSUME NEW s \in SUBSET S, \A r \in SUBSET s : r # s => r \in X
      PROVE  s \in X
  <2> SUFFICES ASSUME s # {} PROVE \E p \in s : \A q \in s : p >= q
    OBVIOUS
  <2>1. PICK c : c \in s
    OBVIOUS
  <2>2. s \ {c} \in X
    BY <1>1, <2>1
  <2>3. CASE s \ {c} = {}
    <3>1. \A q \in s : q = c
      BY <2>3
    <3>2. c \in Nat
      BY <2>1
    <3> QED BY <2>1, <3>1, <3>2
  <2>4. CASE s \ {c} # {}
    <3>1. PICK d \in s \ {c} : \A q \in s \ {c} : d >= q
      BY <2>2, <2>4
    <3>2. c \in Nat /\ d \in Nat /\ \A q \in s : q \in Nat
      BY <2>1
    <3>3. CASE d >= c
      BY <3>1, <3>3
    <3>4. CASE ~(d >= c)
      <4>1. \A q \in s : c >= q
        BY <3>1, <3>2, <3>4
      <4> QED BY <2>1, <4>1
    <3> QED BY <3>3, <3>4
  <2> QED BY <2>3, <2>4
<1> HIDE DEF X
<1>2. S \in X
  BY <1>1, SubsetInduction
<1> QED BY <1>2 DEF X

\* The recursion of the fold has a solution on the subsets of n elements...
LEMMA IterateExistsUpTo ==
    ASSUME NEW f, NEW S, IsFiniteSet(S), NEW n \in Nat
    PROVE  \E g : Iterates(f, UpTo(S, n), g)
<1> DEFINE T == {m \in Nat : ~ \E g : Iterates(f, UpTo(S, m), g)}
<1> SUFFICES ASSUME T # {} PROVE FALSE
  OBVIOUS
<1>1. PICK m \in T : \A k \in T : ~(k < m)
  BY LeastNatural
<1>2. \A s \in SUBSET S : IsFiniteSet(s) /\ Cardinality(s) \in Nat
  BY FS_Subset, FS_CardinalityType
<1>3. CASE m = 0
  <2> DEFINE g == [s \in UpTo(S, 0) |-> 0]
  <2>1. \A s \in UpTo(S, 0) : s = {}
    BY <1>2, FS_EmptySet DEF UpTo
  <2>2. Iterates(f, UpTo(S, 0), g)
    BY <2>1 DEF Iterates
  <2> QED
    BY <1>3, <2>2
<1>4. CASE m # 0
  <2>1. m - 1 \in Nat /\ m - 1 \notin T
    BY <1>1, <1>4
  <2>2. PICK g : Iterates(f, UpTo(S, m - 1), g)
    BY <2>1
  <2> DEFINE h == [s \in UpTo(S, m) |->
                     IF s = {} THEN 0 ELSE f[Chosen(s)] + g[s \ {Chosen(s)}]]
  <2>3. \A s \in UpTo(S, m - 1) : h[s] = g[s] /\ s \in UpTo(S, m)
    <3> SUFFICES ASSUME NEW s \in UpTo(S, m - 1) 
                 PROVE  h[s] = g[s] /\ s \in UpTo(S, m)
      OBVIOUS
    <3>1. s \in UpTo(S, m)
      BY <1>2, <2>1 DEF UpTo
    <3>2. g[s] = IF s = {} THEN 0 ELSE f[Chosen(s)] + g[s \ {Chosen(s)}]
      BY <2>2 DEF Iterates
    <3> QED
      BY <3>1, <3>2
  <2>4. \A s \in UpTo(S, m) : s # {} => s \ {Chosen(s)} \in UpTo(S, m - 1)
    BY <1>2, <2>1, ChosenIn, SmallerByOne DEF UpTo
  <2>5. \A s \in UpTo(S, m) : s # {} => g[s \ {Chosen(s)}] = h[s \ {Chosen(s)}]
    BY <2>3, <2>4
  <2>6. h = [s \in UpTo(S, m) |-> IF s = {} THEN 0 ELSE f[Chosen(s)] + h[s \ {Chosen(s)}]]
    BY <2>5
  <2>7. Iterates(f, UpTo(S, m), h)
    BY <2>6 DEF Iterates
  <2> QED
    BY <1>1, <2>7
<1> QED
  BY <1>3, <1>4

\* ... and so on all subsets of a finite set,
LEMMA IterateExists ==
    ASSUME NEW f, NEW S, IsFiniteSet(S)
    PROVE  \E g : Iterates(f, SUBSET S, g)
<1>1. SUBSET S = UpTo(S, Cardinality(S))
  BY FS_Subset DEF UpTo
<1>2. Cardinality(S) \in Nat
  BY FS_CardinalityType
<1>3. \E g : Iterates(f, UpTo(S, Cardinality(S)), g)
  BY <1>2, IterateExistsUpTo
<1> QED
  BY <1>1, <1>3

\* which says of a subset what the recursion on that subset alone says.
LEMMA IterateUnique ==
    ASSUME NEW f, NEW g, NEW S, IsFiniteSet(S), NEW h, NEW R \in SUBSET S,
           Iterates(f, SUBSET S, g), Iterates(f, SUBSET R, h)
    PROVE  g[R] = h[R]
<1> DEFINE X == {s \in SUBSET R : g[s] = h[s]}
<1>1. ASSUME NEW s \in SUBSET R, \A r \in SUBSET s : r # s => r \in X
      PROVE  s \in X
  <2>1. /\ g[s] = IF s = {} THEN 0 ELSE f[Chosen(s)] + g[s \ {Chosen(s)}]
        /\ h[s] = IF s = {} THEN 0 ELSE f[Chosen(s)] + h[s \ {Chosen(s)}]
    BY DEF Iterates
  <2>2. s # {} => s \ {Chosen(s)} \in X
    BY <1>1, ChosenIn
  <2> QED
    BY <2>1, <2>2
<1>2. IsFiniteSet(R)
  BY FS_Subset
<1> HIDE DEF X
<1>3. \A s \in SUBSET R : s \in X
  BY <1>1, <1>2, SubsetInduction
<1> QED
  BY <1>3 DEF X

\* The fold's value is the solution's.
LEMMA SumIsIterate ==
    ASSUME NEW f, NEW S, IsFiniteSet(S)
    PROVE  \E g : Iterates(f, SUBSET S, g) /\ SumFunctionOnSet(f, S) = g[S]
<1>1. SumFunctionOnSet(f, S) = (CHOOSE g : Iterates(f, SUBSET S, g))[S]
  BY DEF SumFunctionOnSet, FoldFunctionOnSet, MapThenFoldSet, Iterates, Chosen
<1> QED
  BY <1>1, IterateExists

\* The empty sum.
LEMMA SumEmpty ==
    ASSUME NEW f
    PROVE  SumFunctionOnSet(f, {}) = 0
<1>1. PICK g : Iterates(f, SUBSET {}, g) /\ SumFunctionOnSet(f, {}) = g[{}]
  BY SumIsIterate, FS_EmptySet
<1> QED
  BY <1>1 DEF Iterates

\* A sum without the element the fold takes first.
LEMMA SumChosen ==
    ASSUME NEW f, NEW S, IsFiniteSet(S), S # {}
    PROVE  SumFunctionOnSet(f, S) = f[Chosen(S)] + SumFunctionOnSet(f, S \ {Chosen(S)})
<1> DEFINE R == S \ {Chosen(S)}
<1>1. PICK g : Iterates(f, SUBSET S, g) /\ SumFunctionOnSet(f, S) = g[S]
  BY SumIsIterate
<1>2. IsFiniteSet(R)
  BY FS_RemoveElement
<1>3. PICK h : Iterates(f, SUBSET R, h) /\ SumFunctionOnSet(f, R) = h[R]
  BY <1>2, SumIsIterate
<1>4. g[R] = h[R]
  BY <1>1, <1>3, IterateUnique
<1>5. g[S] = f[Chosen(S)] + g[R]
  BY <1>1 DEF Iterates
<1> QED
  BY <1>1, <1>3, <1>4, <1>5

\* A sum of integers is one.
LEMMA SumIsInt ==
    ASSUME NEW f, NEW S, IsFiniteSet(S), \A x \in S : f[x] \in Int
    PROVE  SumFunctionOnSet(f, S) \in Int
<1> DEFINE X == {s \in SUBSET S : SumFunctionOnSet(f, s) \in Int}
<1>1. ASSUME NEW s \in SUBSET S, \A r \in SUBSET s : r # s => r \in X
      PROVE  s \in X
  <2>1. CASE s = {}
    BY <2>1, SumEmpty
  <2>2. CASE s # {}
    <3>1. Chosen(s) \in s /\ s \ {Chosen(s)} \in X
      BY <1>1, <2>2, ChosenIn
    <3>2. IsFiniteSet(s)
      BY FS_Subset
    <3>3. SumFunctionOnSet(f, s) = f[Chosen(s)] + SumFunctionOnSet(f, s \ {Chosen(s)})
      BY <2>2, <3>2, SumChosen
    <3> QED
      BY <3>1, <3>3
  <2> QED
    BY <2>1, <2>2
<1> HIDE DEF X
<1>2. S \in X
  BY <1>1, SubsetInduction
<1> QED
  BY <1>2 DEF X

\* A sum of natural numbers is one.
LEMMA SumIsNat ==
    ASSUME NEW f, NEW S, IsFiniteSet(S), \A x \in S : f[x] \in Nat
    PROVE  SumFunctionOnSet(f, S) \in Nat
<1> DEFINE X == {s \in SUBSET S : SumFunctionOnSet(f, s) \in Nat}
<1>1. ASSUME NEW s \in SUBSET S, \A r \in SUBSET s : r # s => r \in X
      PROVE  s \in X
  <2>1. CASE s = {}
    BY <2>1, SumEmpty
  <2>2. CASE s # {}
    <3>1. Chosen(s) \in s /\ s \ {Chosen(s)} \in X
      BY <1>1, <2>2, ChosenIn
    <3>2. IsFiniteSet(s)
      BY FS_Subset
    <3>3. SumFunctionOnSet(f, s) = f[Chosen(s)] + SumFunctionOnSet(f, s \ {Chosen(s)})
      BY <2>2, <3>2, SumChosen
    <3> QED
      BY <3>1, <3>3
  <2> QED
    BY <2>1, <2>2
<1> HIDE DEF X
<1>2. S \in X
  BY <1>1, SubsetInduction
<1> QED
  BY <1>2 DEF X

\* A sum of zeros.
LEMMA SumOfZeros ==
    ASSUME NEW f, NEW S, IsFiniteSet(S), \A x \in S : f[x] = 0
    PROVE  SumFunctionOnSet(f, S) = 0
<1> DEFINE X == {s \in SUBSET S : SumFunctionOnSet(f, s) = 0}
<1>1. ASSUME NEW s \in SUBSET S, \A r \in SUBSET s : r # s => r \in X
      PROVE  s \in X
  <2>1. CASE s = {}
    BY <2>1, SumEmpty
  <2>2. CASE s # {}
    <3>1. Chosen(s) \in s /\ s \ {Chosen(s)} \in X
      BY <1>1, <2>2, ChosenIn
    <3>2. IsFiniteSet(s)
      BY FS_Subset
    <3>3. SumFunctionOnSet(f, s) = f[Chosen(s)] + SumFunctionOnSet(f, s \ {Chosen(s)})
      BY <2>2, <3>2, SumChosen
    <3> QED
      BY <3>1, <3>3
  <2> QED
    BY <2>1, <2>2
<1> HIDE DEF X
<1>2. S \in X
  BY <1>1, SubsetInduction
<1> QED
  BY <1>2 DEF X

\* Equal values have equal sums.
LEMMA SumCongruent ==
    ASSUME NEW f, NEW g, NEW S, IsFiniteSet(S), \A x \in S : f[x] = g[x]
    PROVE  SumFunctionOnSet(f, S) = SumFunctionOnSet(g, S)
<1> DEFINE X == {s \in SUBSET S : SumFunctionOnSet(f, s) = SumFunctionOnSet(g, s)}
<1>1. ASSUME NEW s \in SUBSET S, \A r \in SUBSET s : r # s => r \in X
      PROVE  s \in X
  <2>1. CASE s = {}
    BY <2>1, SumEmpty
  <2>2. CASE s # {}
    <3>1. Chosen(s) \in s /\ s \ {Chosen(s)} \in X
      BY <1>1, <2>2, ChosenIn
    <3>2. IsFiniteSet(s)
      BY FS_Subset
    <3>3. /\ SumFunctionOnSet(f, s) = f[Chosen(s)] + SumFunctionOnSet(f, s \ {Chosen(s)})
          /\ SumFunctionOnSet(g, s) = g[Chosen(s)] + SumFunctionOnSet(g, s \ {Chosen(s)})
      BY <2>2, <3>2, SumChosen
    <3> QED
      BY <3>1, <3>3
  <2> QED
    BY <2>1, <2>2
<1> HIDE DEF X
<1>2. S \in X
  BY <1>1, SubsetInduction
<1> QED
  BY <1>2 DEF X

\* The order of the fold does not matter: any element may be taken out first.
LEMMA SumRemove ==
    ASSUME NEW f, NEW S, IsFiniteSet(S), \A x \in S : f[x] \in Int, NEW a \in S
    PROVE  SumFunctionOnSet(f, S) = f[a] + SumFunctionOnSet(f, S \ {a})
<1> DEFINE Splits(s, x) ==
             SumFunctionOnSet(f, s) = f[x] + SumFunctionOnSet(f, s \ {x})
           X == {s \in SUBSET S : \A x \in s : Splits(s, x)}
<1>1. \A s \in SUBSET S : IsFiniteSet(s) /\ SumFunctionOnSet(f, s) \in Int
  BY FS_Subset, SumIsInt
<1>2. ASSUME NEW s \in SUBSET S, \A r \in SUBSET s : r # s => r \in X,
             NEW x \in s
      PROVE  Splits(s, x)
  <2> DEFINE c == Chosen(s)
  <2>1. c \in s /\ Splits(s, c)
    BY <1>1, <1>2, ChosenIn, SumChosen
  <2> HIDE DEF c
  <2>2. CASE c # x
    <3>1. Splits(s \ {c}, x) /\ Splits(s \ {x}, c)
      BY <1>2, <2>1, <2>2
    <3>2. (s \ {x}) \ {c} = (s \ {c}) \ {x}
      OBVIOUS
    <3>3. /\ f[c] \in Int /\ f[x] \in Int
          /\ SumFunctionOnSet(f, (s \ {c}) \ {x}) \in Int
      BY <1>1, <2>1
    <3>4. /\ SumFunctionOnSet(f, s) = f[c] + (f[x] + SumFunctionOnSet(f, (s \ {c}) \ {x}))
          /\ SumFunctionOnSet(f, s \ {x}) = f[c] + SumFunctionOnSet(f, (s \ {c}) \ {x})
      BY <2>1, <3>1, <3>2
    <3> QED
      BY <3>3, <3>4
  <2> QED
    BY <2>1, <2>2
<1> HIDE DEF Splits
<1>3. \A s \in SUBSET S : (\A r \in SUBSET s : r # s => r \in X) => s \in X
  BY <1>2
<1> HIDE DEF X
<1>4. S \in X
  BY <1>3, SubsetInduction
<1>5. Splits(S, a)
  BY <1>4 DEF X
<1> QED
  BY <1>5 DEF Splits

\* One more element adds its value.
LEMMA SumAdd ==
    ASSUME NEW f, NEW S, IsFiniteSet(S), NEW a, a \notin S,
           \A x \in S \cup {a} : f[x] \in Int
    PROVE  SumFunctionOnSet(f, S \cup {a}) = f[a] + SumFunctionOnSet(f, S)
<1>1. IsFiniteSet(S \cup {a}) /\ (S \cup {a}) \ {a} = S
  BY FS_AddElement
<1> QED
  BY <1>1, SumRemove

\* One changed value changes the sum by the difference.
LEMMA SumUpdate ==
    ASSUME NEW f, NEW g, NEW S, IsFiniteSet(S), NEW a \in S,
           \A x \in S : f[x] \in Int /\ g[x] \in Int,
           \A x \in S \ {a} : g[x] = f[x]
    PROVE  /\ SumFunctionOnSet(g, S) = SumFunctionOnSet(f, S) + (g[a] - f[a])
           /\ SumFunctionOnSet(f, S) \in Int
<1>1. IsFiniteSet(S \ {a})
  BY FS_RemoveElement
<1>2. SumFunctionOnSet(g, S \ {a}) = SumFunctionOnSet(f, S \ {a})
  BY <1>1, SumCongruent
<1>3. /\ SumFunctionOnSet(f, S) = f[a] + SumFunctionOnSet(f, S \ {a})
      /\ SumFunctionOnSet(g, S) = g[a] + SumFunctionOnSet(g, S \ {a})
  BY SumRemove
<1>4. /\ SumFunctionOnSet(f, S \ {a}) \in Int
      /\ SumFunctionOnSet(f, S) \in Int
  BY <1>1, SumIsInt
<1> QED
  BY <1>2, <1>3, <1>4

\* Two changed values: a transfer between two elements.
LEMMA SumTransfer ==
    ASSUME NEW f, NEW g, NEW S, IsFiniteSet(S), NEW a \in S, NEW b \in S, a # b,
           \A x \in S : f[x] \in Int /\ g[x] \in Int,
           \A x \in S \ {a, b} : g[x] = f[x]
    PROVE  SumFunctionOnSet(g, S)
             = SumFunctionOnSet(f, S) + (g[a] - f[a]) + (g[b] - f[b])
<1> DEFINE h == [x \in S |-> IF x = a THEN g[a] ELSE f[x]]
<1>1. /\ \A x \in S : h[x] \in Int
      /\ \A x \in S \ {a} : h[x] = f[x]
      /\ \A x \in S \ {b} : g[x] = h[x]
      /\ h[a] = g[a] /\ h[b] = f[b]
  OBVIOUS
<1> HIDE DEF h
<1>2. /\ SumFunctionOnSet(h, S) = SumFunctionOnSet(f, S) + (h[a] - f[a])
      /\ SumFunctionOnSet(f, S) \in Int
  BY <1>1, SumUpdate
<1>3. SumFunctionOnSet(g, S) = SumFunctionOnSet(h, S) + (g[b] - h[b])
  BY <1>1, SumUpdate
<1> QED
  BY <1>1, <1>2, <1>3

\* Elements whose value is zero may be left out.
LEMMA SumRestrict ==
    ASSUME NEW f, NEW g, NEW S, IsFiniteSet(S), NEW R \in SUBSET S,
           \A x \in R : f[x] \in Int /\ g[x] = f[x],
           \A x \in S \ R : g[x] = 0
    PROVE  SumFunctionOnSet(g, S) = SumFunctionOnSet(f, R)
<1> DEFINE X == {s \in SUBSET S : SumFunctionOnSet(g, s) = SumFunctionOnSet(f, s \cap R)}
<1>1. ASSUME NEW s \in SUBSET S, \A r \in SUBSET s : r # s => r \in X
      PROVE  s \in X
  <2>1. CASE s = {}
    <3>1. s \cap R = {}
      BY <2>1
    <3> QED
      BY <2>1, <3>1, SumEmpty
  <2>2. CASE s # {}
    <3> DEFINE c == Chosen(s)
    <3>1. c \in s /\ s \ {c} \in X
      BY <1>1, <2>2, ChosenIn
    <3>2. IsFiniteSet(s) /\ IsFiniteSet(s \cap R)
      BY FS_Subset
    <3>3. SumFunctionOnSet(g, s) = g[c] + SumFunctionOnSet(f, (s \ {c}) \cap R)
      BY <2>2, <3>1, <3>2, SumChosen
    <3> HIDE DEF c
    <3>4. CASE c \in R
      <4>1. (s \ {c}) \cap R = (s \cap R) \ {c} /\ c \in s \cap R
        BY <3>1, <3>4
      <4>2. SumFunctionOnSet(f, s \cap R) = f[c] + SumFunctionOnSet(f, (s \cap R) \ {c})
        BY <3>2, <4>1, SumRemove
      <4> QED
        BY <3>3, <3>4, <4>1, <4>2
    <3>5. CASE c \notin R
      <4>1. (s \ {c}) \cap R = s \cap R /\ g[c] = 0
        BY <3>1, <3>5
      <4>2. SumFunctionOnSet(f, s \cap R) \in Int
        BY <3>2, SumIsInt
      <4>3. SumFunctionOnSet(g, s) = 0 + SumFunctionOnSet(f, s \cap R)
        BY <3>3, <4>1
      <4>4. SumFunctionOnSet(g, s) = SumFunctionOnSet(f, s \cap R)
        BY <4>2, <4>3
      <4> QED
        BY <4>4
    <3> QED
      BY <3>4, <3>5
  <2> QED
    BY <2>1, <2>2
<1> HIDE DEF X
<1>2. S \in X
  BY <1>1, SubsetInduction
<1>3. S \cap R = R
  OBVIOUS
<1> QED
  BY <1>2, <1>3 DEF X

\* A sum of natural numbers is at least each of them.
LEMMA SumAtLeast ==
    ASSUME NEW f, NEW S, IsFiniteSet(S), \A x \in S : f[x] \in Nat, NEW a \in S
    PROVE  f[a] <= SumFunctionOnSet(f, S)
<1>1. SumFunctionOnSet(f, S) = f[a] + SumFunctionOnSet(f, S \ {a})
  BY SumRemove
<1>2. IsFiniteSet(S \ {a})
  BY FS_RemoveElement
<1>3. SumFunctionOnSet(f, S \ {a}) \in Nat
  BY <1>2, SumIsNat
<1> QED
  BY <1>1, <1>3

\* A sum of sums is the sum of both.
LEMMA SumPlus ==
    ASSUME NEW f, NEW g, NEW h, NEW S, IsFiniteSet(S),
           \A x \in S : g[x] \in Int /\ h[x] \in Int /\ f[x] = g[x] + h[x]
    PROVE  SumFunctionOnSet(f, S) = SumFunctionOnSet(g, S) + SumFunctionOnSet(h, S)
<1> DEFINE X == {s \in SUBSET S :
        SumFunctionOnSet(f, s) = SumFunctionOnSet(g, s) + SumFunctionOnSet(h, s)}
<1>1. ASSUME NEW s \in SUBSET S, \A r \in SUBSET s : r # s => r \in X
      PROVE  s \in X
  <2>1. CASE s = {}
    BY <2>1, SumEmpty
  <2>2. CASE s # {}
    <3> DEFINE c == Chosen(s)
               r == s \ {Chosen(s)}
    <3>1. c \in s /\ r \in X
      BY <1>1, <2>2, ChosenIn
    <3>2. IsFiniteSet(s) /\ IsFiniteSet(r)
      BY FS_Subset
    <3>3. /\ SumFunctionOnSet(f, s) = f[c] + SumFunctionOnSet(f, r)
          /\ SumFunctionOnSet(g, s) = g[c] + SumFunctionOnSet(g, r)
          /\ SumFunctionOnSet(h, s) = h[c] + SumFunctionOnSet(h, r)
      BY <2>2, <3>2, SumChosen
    <3>4. SumFunctionOnSet(g, r) \in Int /\ SumFunctionOnSet(h, r) \in Int
      <4>1. \A x \in r : g[x] \in Int /\ h[x] \in Int
        OBVIOUS
      <4> QED BY <3>2, <4>1, SumIsInt
    <3>5. g[c] \in Int /\ h[c] \in Int /\ f[c] = g[c] + h[c]
      BY <3>1
    <3>6. SumFunctionOnSet(f, r) = SumFunctionOnSet(g, r) + SumFunctionOnSet(h, r)
      BY <3>1
    <3> HIDE DEF c, r
    <3>7. SumFunctionOnSet(f, s) = SumFunctionOnSet(g, s) + SumFunctionOnSet(h, s)
      BY <3>3, <3>4, <3>5, <3>6
    <3> QED
      BY <3>7
  <2> QED
    BY <2>1, <2>2
<1> HIDE DEF X
<1>2. S \in X
  BY <1>1, SubsetInduction
<1> QED
  BY <1>2 DEF X

\* The sum over two sets without a common element.
LEMMA SumUnion ==
    ASSUME NEW f, NEW S, NEW T, IsFiniteSet(S), IsFiniteSet(T), S \cap T = {},
           \A x \in S \cup T : f[x] \in Int
    PROVE  SumFunctionOnSet(f, S \cup T) = SumFunctionOnSet(f, S) + SumFunctionOnSet(f, T)
<1> DEFINE U == S \cup T
           g == [x \in U |-> IF x \in S THEN f[x] ELSE 0]
           h == [x \in U |-> IF x \in T THEN f[x] ELSE 0]
<1>1. IsFiniteSet(U) /\ S \in SUBSET U /\ T \in SUBSET U
  BY FS_Union
<1>2. \A x \in U : g[x] \in Int /\ h[x] \in Int /\ f[x] = g[x] + h[x]
  OBVIOUS
<1>3. /\ \A x \in S : f[x] \in Int /\ g[x] = f[x]
      /\ \A x \in U \ S : g[x] = 0
      /\ \A x \in T : f[x] \in Int /\ h[x] = f[x]
      /\ \A x \in U \ T : h[x] = 0
  OBVIOUS
<1> HIDE DEF U, g, h
<1>4. SumFunctionOnSet(f, U) = SumFunctionOnSet(g, U) + SumFunctionOnSet(h, U)
  BY <1>1, <1>2, SumPlus
<1>5. SumFunctionOnSet(g, U) = SumFunctionOnSet(f, S)
  BY <1>1, <1>3, SumRestrict
<1>6. SumFunctionOnSet(h, U) = SumFunctionOnSet(f, T)
  BY <1>1, <1>3, SumRestrict
<1> QED BY <1>4, <1>5, <1>6 DEF U

\* When each element of S has one of its own in T that counts no less, T counts
\* no less than S.
LEMMA SumInjection ==
    ASSUME NEW f, NEW g, NEW S, NEW T, NEW h, IsFiniteSet(S), IsFiniteSet(T),
           \A x \in S : f[x] \in Nat, \A y \in T : g[y] \in Nat,
           \A x \in S : h[x] \in T /\ f[x] <= g[h[x]],
           \A x, y \in S : h[x] = h[y] => x = y
    PROVE  SumFunctionOnSet(f, S) <= SumFunctionOnSet(g, T)
<1> DEFINE I(s) == {h[x] : x \in s}
           X == {s \in SUBSET S : SumFunctionOnSet(f, s) <= SumFunctionOnSet(g, I(s))}
<1>1. ASSUME NEW s \in SUBSET S, \A r \in SUBSET s : r # s => r \in X
      PROVE  s \in X
  <2>1. CASE s = {}
    <3>1. I(s) = {}
      BY <2>1
    <3>2. SumFunctionOnSet(f, s) = 0 /\ SumFunctionOnSet(g, I(s)) = 0
      BY <2>1, <3>1, SumEmpty
    <3> QED BY <3>2
  <2>2. CASE s # {}
    <3> DEFINE c == Chosen(s)
               r == s \ {c}
    <3>1. c \in s /\ r \in X
      BY <1>1, <2>2, ChosenIn
    <3>2. I(s) \subseteq T /\ h[c] \in I(s) /\ I(s) \ {h[c]} = I(r)
      BY <3>1
    <3>3. IsFiniteSet(s) /\ IsFiniteSet(I(s))
      BY <3>2, FS_Subset
    <3>4. SumFunctionOnSet(f, s) = f[c] + SumFunctionOnSet(f, r)
      BY <2>2, <3>3, SumChosen
    <3>5. SumFunctionOnSet(g, I(s)) = g[h[c]] + SumFunctionOnSet(g, I(r))
      <4> HIDE DEF I, c, r
      <4>1. \A y \in I(s) : g[y] \in Int
        BY <3>2
      <4> QED BY <3>2, <3>3, <4>1, SumRemove
    <3>6. SumFunctionOnSet(f, r) <= SumFunctionOnSet(g, I(r))
      BY <3>1
    <3>7. SumFunctionOnSet(f, r) \in Int /\ SumFunctionOnSet(g, I(r)) \in Int
      <4>1. IsFiniteSet(r) /\ IsFiniteSet(I(r)) /\ I(r) \subseteq T
        BY <3>2, <3>3, FS_Subset
      <4>2. (\A x \in r : f[x] \in Int) /\ \A y \in I(r) : g[y] \in Int
        BY <4>1
      <4> HIDE DEF I, r
      <4> QED BY <4>1, <4>2, SumIsInt
    <3>8. f[c] \in Int /\ g[h[c]] \in Int /\ f[c] <= g[h[c]]
      BY <3>1
    <3> HIDE DEF I, c, r
    <3>9. SumFunctionOnSet(f, s) <= SumFunctionOnSet(g, I(s))
      BY <3>4, <3>5, <3>6, <3>7, <3>8
    <3> QED BY <3>9
  <2> QED BY <2>1, <2>2
<1> HIDE DEF X
<1>2. S \in X
  BY <1>1, SubsetInduction
<1>3. I(S) \subseteq T /\ SumFunctionOnSet(f, S) <= SumFunctionOnSet(g, I(S))
  BY <1>2 DEF X
<1> HIDE DEF I
<1>4. SumFunctionOnSet(g, I(S)) <= SumFunctionOnSet(g, T)
  <2> DEFINE R == T \ I(S)
  <2>1. IsFiniteSet(I(S)) /\ IsFiniteSet(R) /\ I(S) \cap R = {} /\ I(S) \cup R = T
    BY <1>3, FS_Subset
  <2>2. \A y \in I(S) \cup R : g[y] \in Int
    BY <2>1
  <2>3. SumFunctionOnSet(g, R) \in Nat
    BY <2>1, SumIsNat
  <2>4. SumFunctionOnSet(g, I(S)) \in Nat
    BY <1>3, <2>1, SumIsNat
  <2> HIDE DEF R
  <2>5. SumFunctionOnSet(g, T) = SumFunctionOnSet(g, I(S)) + SumFunctionOnSet(g, R)
    BY <2>1, <2>2, SumUnion
  <2> QED BY <2>3, <2>4, <2>5
<1>5. /\ SumFunctionOnSet(f, S) \in Int /\ SumFunctionOnSet(g, I(S)) \in Int
      /\ SumFunctionOnSet(g, T) \in Int
  <2>1. IsFiniteSet(I(S))
    BY <1>3, FS_Subset
  <2>2. \A y \in I(S) : g[y] \in Int
    BY <1>3
  <2>3. (\A x \in S : f[x] \in Int) /\ \A y \in T : g[y] \in Int
    OBVIOUS
  <2> QED BY <2>1, <2>2, <2>3, SumIsInt
<1> QED BY <1>3, <1>4, <1>5

\* ... and exactly as much when the elements correspond one to one.
LEMMA SumBijection ==
    ASSUME NEW f, NEW g, NEW S, NEW T, NEW h, NEW k, IsFiniteSet(S), IsFiniteSet(T),
           \A x \in S : f[x] \in Nat, \A y \in T : g[y] \in Nat,
           \A x \in S : h[x] \in T /\ f[x] = g[h[x]] /\ k[h[x]] = x,
           \A y \in T : k[y] \in S /\ g[y] = f[k[y]] /\ h[k[y]] = y
    PROVE  SumFunctionOnSet(f, S) = SumFunctionOnSet(g, T)
<1>1. SumFunctionOnSet(f, S) <= SumFunctionOnSet(g, T)
  <2>1. \A x \in S : h[x] \in T /\ f[x] <= g[h[x]]
    OBVIOUS
  <2>2. \A x, y \in S : h[x] = h[y] => x = y
    <3> SUFFICES ASSUME NEW x \in S, NEW y \in S, h[x] = h[y] PROVE x = y
      OBVIOUS
    <3>1. k[h[x]] = x /\ k[h[y]] = y
      OBVIOUS
    <3> QED BY <3>1
  <2> QED BY <2>1, <2>2, SumInjection
<1>2. SumFunctionOnSet(g, T) <= SumFunctionOnSet(f, S)
  <2>1. \A y \in T : k[y] \in S /\ g[y] <= f[k[y]]
    OBVIOUS
  <2>2. \A x, y \in T : k[x] = k[y] => x = y
    <3> SUFFICES ASSUME NEW x \in T, NEW y \in T, k[x] = k[y] PROVE x = y
      OBVIOUS
    <3>1. h[k[x]] = x /\ h[k[y]] = y
      OBVIOUS
    <3> QED BY <3>1
  <2> QED BY <2>1, <2>2, SumInjection
<1>3. SumFunctionOnSet(f, S) \in Nat /\ SumFunctionOnSet(g, T) \in Nat
  BY SumIsNat
<1> QED BY <1>1, <1>2, <1>3
=============================================================================
